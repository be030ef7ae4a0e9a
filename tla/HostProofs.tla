----------------------------- MODULE HostProofs ----------------------------
(***************************************************************************)
(* Proofs about what the Host keeps outside the Daemon's data.  Of         *)
(* ClientRequests, for every set of requests, contents and handlers: each  *)
(* request is applied once at most, and what is reported as committed is   *)
(* done.  Of Purge, for every number of lifetimes, pieces of evidence and  *)
(* operations: a purge takes away only what was sealed, and no lifetime of *)
(* the data overlaps another.                                              *)
(***************************************************************************)
EXTENDS ClientRequests, Purge, TLAPS

(***************************************************************************)
(* ClientRequests.                                                         *)
(***************************************************************************)

(* The use case's own receipt is what keeps a second handler from applying *)
(* the effect again: it is there as soon as the effect is, and it names    *)
(* the content that the journal has bound the request to.                  *)
EffectsAreKnown ==
    \A q \in Request :
        /\ known[q] = None => effects[q] = <<>> /\ q \notin running
        /\ known[q] # None => effects[q] = <<known[q]>> /\ known[q] = journal[q].content

(* An entry that was not compacted has the content of its request.         *)
EntriesHaveContent == \A q \in Request : journal[q].kept = "whole" => journal[q].content # None

(* A handler works on the content that the journal has.                    *)
HandlersAreExact ==
    \A c \in Call : call[c] # Idle => call[c].content = journal[call[c].request].content

(* What waits for a runner's end has done its use case.                    *)
StoppersHaveActed ==
    \A c \in Call : call[c] # Idle /\ call[c].at = "stopping" => known[call[c].request] # None

(* A receipt is that of an effect; a committed one is final, and nothing   *)
(* executes any more that the request was to stop.                         *)
ReceiptsAreTrue ==
    \A q \in Request :
        /\ receipt[q].status # None => known[q] # None
        /\ receipt[q].status = "committed" => q \notin running

(* What is on the Host or with a client was copied from the receipt, and   *)
(* between a handler's use case and its answer the receipt is there.       *)
ReportsFollowTheReceipt ==
    /\ \A q \in Request : journal[q].status = "committed" => receipt[q].status = "committed"
    /\ \A t \in told : receipt[t[1]].status = "committed" /\ journal[t[1]].content = t[2]

RequestInv ==
    /\ TypeOK
    /\ EntriesHaveContent
    /\ EffectsAreKnown
    /\ HandlersAreExact
    /\ StoppersHaveActed
    /\ ReceiptsAreTrue
    /\ ReportsFollowTheReceipt

USE KindAssumption, ContentAssumption DEF TypeOK, Kinds, Statuses, Keeping, storeVars, None,
    EntriesHaveContent

LEMMA RequestInvInit == Init => RequestInv
    BY DEF Init, RequestInv, EffectsAreKnown, HandlersAreExact, StoppersHaveActed,
       ReceiptsAreTrue,
       ReportsFollowTheReceipt, NoEntry, NoReceipt, Idle

-----------------------------------------------------------------------------
(* The journal.                                                            *)

LEMMA PrepareKeeps ==
    ASSUME RequestInv, NEW q \in Request, NEW k \in Content, Prepare(q, k)
    PROVE  RequestInv'
<1>1. /\ journal' = [journal EXCEPT ![q] = [content |-> k, kept |-> "whole", status |-> None]]
      /\ journal[q].content = None
      /\ UNCHANGED <<receipt, known, running, effects, told, call>>
  <2>1. /\ journal[q] = NoEntry
        /\ journal' = [journal EXCEPT ![q] = [content |-> k, kept |-> "whole", status |-> None]]
      BY DEF Prepare
  <2>2. UNCHANGED <<receipt, known, running, effects, told, call>>
      BY DEF Prepare
  <2> QED
      BY <2>1, <2>2 DEF NoEntry
<1>2. /\ journal' \in [Request -> [content : Content \cup {None}, kept : Keeping,
                                   status : Statuses]]
      /\ journal'[q].status = None
      /\ \A p \in Request : p # q => journal'[p] = journal[p]
    BY <1>1 DEF RequestInv
<1>3. TypeOK' /\ EntriesHaveContent'
    BY <1>1, <1>2 DEF RequestInv
<1>4. EffectsAreKnown' /\ ReceiptsAreTrue'
    BY <1>1, <1>2 DEF RequestInv, EffectsAreKnown, ReceiptsAreTrue
<1>5. HandlersAreExact'
  <2> SUFFICES ASSUME NEW c \in Call, call[c] # Idle
               PROVE  call[c].content = journal'[call[c].request].content
      BY <1>1 DEF HandlersAreExact
  <2>1. /\ call[c].request \in Request /\ call[c].content \in Content
        /\ call[c].content = journal[call[c].request].content
      BY DEF RequestInv, HandlersAreExact
  <2> QED
      BY <1>1, <1>2, <2>1
<1>6. ReportsFollowTheReceipt'
  <2>1. \A t \in told : t[1] \in Request /\ t[2] \in Content
      BY DEF RequestInv
  <2> QED
      BY <1>1, <1>2, <2>1 DEF RequestInv, ReportsFollowTheReceipt
<1> QED
    BY <1>1, <1>3, <1>4, <1>5, <1>6 DEF RequestInv, StoppersHaveActed

LEMMA CompactKeeps ==
    ASSUME RequestInv, NEW q \in Request, Compact(q)
    PROVE  RequestInv'
<1>1. /\ journal' \in [Request -> [content : Content \cup {None}, kept : Keeping,
                                   status : Statuses]]
      /\ \A p \in Request : /\ journal'[p].content = journal[p].content
                            /\ journal'[p].kept = "whole" => journal[p].kept = "whole"
                            /\ journal'[p].status = journal[p].status
      /\ UNCHANGED <<receipt, known, running, effects, told, call>>
  <2>1. journal' = [journal EXCEPT ![q].kept = "hash"]
      BY DEF Compact
  <2>2. UNCHANGED <<receipt, known, running, effects, told, call>>
      BY DEF Compact
  <2> QED
      BY <2>1, <2>2 DEF RequestInv
<1>2. TypeOK' /\ EntriesHaveContent'
    BY <1>1 DEF RequestInv
<1>3. EffectsAreKnown' /\ ReceiptsAreTrue'
    BY <1>1 DEF RequestInv, EffectsAreKnown, ReceiptsAreTrue
<1>4. HandlersAreExact'
  <2> SUFFICES ASSUME NEW c \in Call, call[c] # Idle
               PROVE  call[c].content = journal'[call[c].request].content
      BY <1>1 DEF HandlersAreExact
  <2>1. call[c].request \in Request /\ call[c].content = journal[call[c].request].content
      BY DEF RequestInv, HandlersAreExact
  <2> QED
      BY <1>1, <2>1
<1>5. ReportsFollowTheReceipt'
  <2>1. \A t \in told : t[1] \in Request /\ t[2] \in Content
      BY DEF RequestInv
  <2> QED
      BY <1>1, <2>1 DEF RequestInv, ReportsFollowTheReceipt
<1> QED
    BY <1>1, <1>2, <1>3, <1>4, <1>5 DEF RequestInv, StoppersHaveActed

(* Copying the receipt to the journal and telling the client keep what the *)
(* store and the other handlers rely on.                                   *)
LEMMA ReportKeeps ==
    ASSUME RequestInv, NEW q \in Request, Resolve(q), UNCHANGED storeVars,
           UNCHANGED told \/ (MayTell(q, journal[q].content) /\ journal[q].content \in Content)
    PROVE  /\ journal' \in [Request -> [content : Content \cup {None}, kept : Keeping,
                                        status : Statuses]]
           /\ told' \in SUBSET (Request \X Content)
           /\ \A p \in Request : journal'[p].content = journal[p].content
           /\ EntriesHaveContent' /\ EffectsAreKnown' /\ ReceiptsAreTrue' /\ ReportsFollowTheReceipt'
<1>1. /\ journal' \in [Request -> [content : Content \cup {None}, kept : Keeping,
                                   status : Statuses]]
      /\ \A p \in Request : journal'[p].content = journal[p].content
      /\ \A p \in Request : /\ journal'[p].kept = journal[p].kept
                            /\ journal'[p].status = "committed" =>
                                  journal[p].status = "committed" \/ receipt[p].status = "committed"
  <2> DEFINE s == IF journal[q].kept = "whole" /\ receipt[q].status # None /\ journal[q].status # "committed"
                  THEN receipt[q].status ELSE journal[q].status
  <2>1. journal' = [journal EXCEPT ![q].status = s]
      BY DEF Resolve
  <2>2. s \in Statuses /\ (s = "committed" => \/ journal[q].status = "committed"
                                             \/ receipt[q].status = "committed")
      BY DEF RequestInv
  <2> HIDE DEF s
  <2>3. journal \in [Request -> [content : Content \cup {None}, kept : Keeping,
                                status : Statuses]]
      BY DEF RequestInv
  <2>4. /\ journal'[q].content = journal[q].content
        /\ journal'[q].kept = journal[q].kept /\ journal'[q].status = s
        /\ \A p \in Request : p # q => journal'[p] = journal[p]
      BY <2>1, <2>3
  <2>5. journal' \in [Request -> [content : Content \cup {None}, kept : Keeping,
                                 status : Statuses]]
      BY <2>1, <2>2, <2>3
  <2> QED
      BY <2>2, <2>4, <2>5
<1>2. told' \in SUBSET (Request \X Content)
  <2>1. told \in SUBSET (Request \X Content)
      BY DEF RequestInv
  <2> QED
      BY <2>1 DEF MayTell
<1>3. EntriesHaveContent' /\ EffectsAreKnown' /\ ReceiptsAreTrue'
  <2>1. EntriesHaveContent'
      BY <1>1 DEF RequestInv
  <2>2. EffectsAreKnown'
      BY <1>1 DEF RequestInv, EffectsAreKnown
  <2>3. ReceiptsAreTrue'
      BY DEF RequestInv, ReceiptsAreTrue
  <2> QED
      BY <2>1, <2>2, <2>3
<1>4. ReportsFollowTheReceipt'
    BY <1>1, <1>2 DEF RequestInv, ReportsFollowTheReceipt, MayTell
<1> QED
    BY <1>1, <1>2, <1>3, <1>4

LEMMA ReceiveKeeps ==
    ASSUME RequestInv, NEW c \in Call, NEW q \in Request, NEW k \in Content, Receive(c, q, k)
    PROVE  RequestInv'
<1>1. k = journal[q].content
    BY DEF Receive, Exact
<1>2. /\ journal' \in [Request -> [content : Content \cup {None}, kept : Keeping,
                                   status : Statuses]]
      /\ told' \in SUBSET (Request \X Content)
      /\ \A p \in Request : journal'[p].content = journal[p].content
      /\ EntriesHaveContent' /\ EffectsAreKnown' /\ ReceiptsAreTrue' /\ ReportsFollowTheReceipt'
    BY <1>1, ReportKeeps DEF Receive
<1>3. /\ call' \in [Call -> {Idle} \cup [at : {"domain", "stopping", "answer"},
                                         request : Request, content : Content]]
      /\ HandlersAreExact'
  <2>1. CASE UNCHANGED call
    <3> SUFFICES ASSUME NEW d \in Call, call[d] # Idle
                 PROVE  call[d].content = journal'[call[d].request].content
        BY <2>1 DEF RequestInv, HandlersAreExact
    <3>1. call[d].request \in Request /\ call[d].content = journal[call[d].request].content
        BY DEF RequestInv, HandlersAreExact
    <3> QED
        BY <1>2, <3>1
  <2>2. CASE call' = [call EXCEPT ![c] = Handler(q, k, "domain")]
    <3>1. call' = [call EXCEPT ![c] = [at |-> "domain", request |-> q, content |-> k]]
        BY <2>2 DEF Handler
    <3>2. call' \in [Call -> {Idle} \cup [at : {"domain", "stopping", "answer"},
                                          request : Request, content : Content]]
        BY <3>1 DEF RequestInv
    <3> SUFFICES ASSUME NEW d \in Call, call'[d] # Idle
                 PROVE  call'[d].content = journal'[call'[d].request].content
        BY <3>2 DEF HandlersAreExact
    <3>3. CASE d = c
        BY <1>1, <1>2, <3>1, <3>3 DEF RequestInv
    <3>4. CASE d # c
      <4>1. call'[d] = call[d]
          BY <3>1, <3>4 DEF RequestInv
      <4>2. call[d].request \in Request /\ call[d].content = journal[call[d].request].content
          BY <4>1 DEF RequestInv, HandlersAreExact
      <4> QED
          BY <1>2, <4>1, <4>2
    <3> QED
        BY <3>3, <3>4
  <2> QED
      BY <2>1, <2>2 DEF Receive
<1>4. StoppersHaveActed'
  <2>1. UNCHANGED known
      BY DEF Receive
  <2>2. call' = call \/ call' = [call EXCEPT ![c] = [at |-> "domain", request |-> q, content |-> k]]
      BY DEF Receive, Handler
  <2>3. \A d \in Call : call'[d] = call[d] \/ call'[d].at = "domain"
      BY <2>2 DEF RequestInv
  <2> QED
      BY <2>1, <2>3 DEF RequestInv, StoppersHaveActed
<1> QED
    BY <1>2, <1>3, <1>4 DEF RequestInv, Receive

LEMMA RetryKeeps ==
    ASSUME RequestInv, NEW c \in Call, NEW q \in Request, Retry(c, q)
    PROVE  RequestInv'
<1>1. CASE Receive(c, q, journal[q].content)
  <2>1. journal[q].content \in Content
      BY <1>1 DEF RequestInv, Receive, Exact
  <2> QED
      BY <1>1, <2>1, ReceiveKeeps
<1>2. CASE ~Receive(c, q, journal[q].content)
  <2>1. MayTell(q, journal[q].content) /\ UNCHANGED <<journal, storeVars, call>>
      BY <1>2 DEF Retry
  <2>2. receipt[q].status = "committed" => journal[q].content \in Content
      BY DEF RequestInv, EffectsAreKnown, ReceiptsAreTrue
  <2>3. TypeOK' /\ ReportsFollowTheReceipt'
      BY <2>1, <2>2 DEF RequestInv, ReportsFollowTheReceipt, MayTell
  <2> QED
      BY <2>1, <2>3 DEF RequestInv, EffectsAreKnown, HandlersAreExact, StoppersHaveActed,
         ReceiptsAreTrue
<1> QED
    BY <1>1, <1>2

-----------------------------------------------------------------------------
(* The handlers.                                                           *)

(* A handler that moves on or ends keeps its request and content.          *)
LEMMA HandlersMoveOn ==
    ASSUME RequestInv, NEW c \in Call, call[c] # Idle, UNCHANGED journal,
           \A p \in Request : known[p] # None => known'[p] # None,
           \/ Ends(c) \/ Goes(c, "answer")
           \/ Goes(c, "stopping") /\ known'[call[c].request] # None
    PROVE  /\ call' \in [Call -> {Idle} \cup [at : {"domain", "stopping", "answer"},
                                              request : Request, content : Content]]
           /\ HandlersAreExact' /\ StoppersHaveActed'
<1>1. call[c] \in [at : {"domain", "stopping", "answer"}, request : Request, content : Content]
    BY DEF RequestInv
<1>2. CASE Ends(c)
    BY <1>2 DEF RequestInv, HandlersAreExact, StoppersHaveActed, Ends, Idle
<1>3. CASE Goes(c, "answer") \/ (Goes(c, "stopping") /\ known'[call[c].request] # None)
  <2>1. PICK at \in {"stopping", "answer"} :
            /\ call' = [call EXCEPT ![c].at = at]
            /\ at = "stopping" => known'[call[c].request] # None
      BY <1>3 DEF Goes, Ends
  <2>2. /\ call'[c] \in [at : {"domain", "stopping", "answer"},
                         request : Request, content : Content]
        /\ call'[c].request = call[c].request /\ call'[c].content = call[c].content
        /\ call'[c].at = "stopping" => known'[call[c].request] # None
        /\ \A d \in Call : d # c => call'[d] = call[d]
      BY <1>1, <2>1 DEF RequestInv
  <2>3. call' \in [Call -> {Idle} \cup [at : {"domain", "stopping", "answer"},
                                        request : Request, content : Content]]
      BY <1>1, <2>1 DEF RequestInv
  <2>4. HandlersAreExact'
    <3> SUFFICES ASSUME NEW d \in Call, call'[d] # Idle
                 PROVE  call'[d].content = journal[call'[d].request].content
        BY DEF HandlersAreExact
    <3>1. CASE d = c
        BY <2>2, <3>1 DEF RequestInv, HandlersAreExact
    <3>2. CASE d # c
        BY <2>2, <3>2 DEF RequestInv, HandlersAreExact
    <3> QED
        BY <3>1, <3>2
  <2>5. StoppersHaveActed'
    <3> SUFFICES ASSUME NEW d \in Call, call'[d] # Idle, call'[d].at = "stopping"
                 PROVE  known'[call'[d].request] # None
        BY DEF StoppersHaveActed
    <3>1. CASE d = c
        BY <2>2, <3>1
    <3>2. CASE d # c
      <4>1. call[d] # Idle /\ call[d].at = "stopping" /\ call'[d] = call[d]
          BY <2>2, <3>2
      <4>2. call[d].request \in Request
          BY <4>1 DEF RequestInv
      <4> QED
          BY <4>1, <4>2 DEF RequestInv, StoppersHaveActed
    <3> QED
        BY <3>1, <3>2
  <2> QED
      BY <2>3, <2>4, <2>5
<1> QED
    BY <1>2, <1>3

(* A use case that does the request for the first time, and records it.    *)
LEMMA FirstKeeps ==
    ASSUME RequestInv, NEW q \in Request, NEW k \in Content, NEW s \in Statuses \ {None},
           k = journal[q].content, First(q), Apply(q, k), Record(q, k, s),
           running' = running \/ (running' = running \cup {q} /\ s = "accepted"),
           UNCHANGED <<journal, told>>
    PROVE  /\ receipt' \in [Request -> [content : Content \cup {None}, status : Statuses]]
           /\ known' \in [Request -> Content \cup {None}]
           /\ running' \in SUBSET Request /\ effects' \in [Request -> Seq(Content)]
           /\ EffectsAreKnown' /\ ReceiptsAreTrue' /\ ReportsFollowTheReceipt'
<1>1. effects[q] = <<>> /\ q \notin running /\ receipt[q].status = None
    BY DEF RequestInv, EffectsAreKnown, ReceiptsAreTrue, First
<1>2. /\ known' = [known EXCEPT ![q] = k]
      /\ effects' = [effects EXCEPT ![q] = <<k>>]
    BY <1>1 DEF Apply
<1>3. receipt' = [receipt EXCEPT ![q] = [content |-> k, status |-> s]]
    BY <1>1 DEF RequestInv, Record
<1>4. /\ receipt' \in [Request -> [content : Content \cup {None}, status : Statuses]]
      /\ known' \in [Request -> Content \cup {None}]
      /\ running' \in SUBSET Request
    BY <1>2, <1>3 DEF RequestInv
<1>5. effects' \in [Request -> Seq(Content)]
    BY <1>2 DEF RequestInv
<1>6. EffectsAreKnown'
    BY <1>1, <1>2 DEF RequestInv, EffectsAreKnown
<1>7. ReceiptsAreTrue'
    BY <1>1, <1>2, <1>3 DEF RequestInv, ReceiptsAreTrue
<1>8. ReportsFollowTheReceipt'
    BY <1>1, <1>3 DEF RequestInv, ReportsFollowTheReceipt
<1> QED
    BY <1>4, <1>5, <1>6, <1>7, <1>8

(* Recording the outcome of what was done before.                          *)
LEMMA RecordKeeps ==
    ASSUME RequestInv, NEW q \in Request, NEW k \in Content, NEW s \in Statuses \ {None},
           known[q] # None, Record(q, k, s),
           running' = running \/ running' = running \ {q},
           s = "committed" => q \notin running', UNCHANGED <<journal, known, effects, told>>
    PROVE  /\ receipt' \in [Request -> [content : Content \cup {None}, status : Statuses]]
           /\ running' \in SUBSET Request
           /\ EffectsAreKnown' /\ ReceiptsAreTrue' /\ ReportsFollowTheReceipt'
<1>1. receipt' = [receipt EXCEPT ![q] = [content |-> k,
                     status |-> IF receipt[q].status = "committed" THEN "committed" ELSE s]]
    BY DEF RequestInv, Record
<1>2. /\ receipt' \in [Request -> [content : Content \cup {None}, status : Statuses]]
      /\ running' \in SUBSET Request
    BY <1>1 DEF RequestInv
<1>3. EffectsAreKnown' /\ ReceiptsAreTrue'
    BY <1>1 DEF RequestInv, EffectsAreKnown, ReceiptsAreTrue
<1>4. ReportsFollowTheReceipt'
    BY <1>1 DEF RequestInv, ReportsFollowTheReceipt
<1> QED
    BY <1>2, <1>3, <1>4

LEMMA UseCaseKeeps ==
    ASSUME RequestInv, NEW c \in Call, UseCase(c)
    PROVE  RequestInv'
<1> DEFINE q == call[c].request
           k == call[c].content
<1>1. /\ call[c] # Idle
      /\ q \in Request /\ k \in Content /\ k = journal[q].content
    BY DEF RequestInv, UseCase, At, Idle, HandlersAreExact
<1>2. UNCHANGED <<journal, told>>
    BY DEF UseCase
<1>3. Goes(c, "answer") \/ (Goes(c, "stopping") /\ q \in running')
    BY DEF UseCase, DoPrompt, DoCancel, DoStop
<1>4. CASE UNCHANGED <<receipt, known, effects, running>>
  <2>1. /\ \A p \in Request : known[p] # None => known'[p] # None
        /\ q \in running' => known'[q] # None
      BY <1>1, <1>4 DEF RequestInv, EffectsAreKnown
  <2>2. /\ call' \in [Call -> {Idle} \cup [at : {"domain", "stopping", "answer"},
                                           request : Request, content : Content]]
        /\ HandlersAreExact' /\ StoppersHaveActed'
      BY <1>1, <1>2, <1>3, <2>1, HandlersMoveOn
  <2> QED
      BY <1>2, <1>4, <2>2 DEF RequestInv, EffectsAreKnown, ReceiptsAreTrue,
         ReportsFollowTheReceipt
<1>5. CASE First(q) /\ Apply(q, k) /\ \E s \in {"accepted", "committed"} :
              /\ Record(q, k, s)
              /\ running' = running \/ (running' = running \cup {q} /\ s = "accepted")
  <2>1. PICK s \in {"accepted", "committed"} :
              /\ Record(q, k, s)
              /\ running' = running \/ (running' = running \cup {q} /\ s = "accepted")
      BY <1>5
  <2>2. /\ \A p \in Request : known[p] # None => known'[p] # None
        /\ known'[q] # None
      BY <1>1, <1>5 DEF RequestInv, Apply
  <2>3. /\ call' \in [Call -> {Idle} \cup [at : {"domain", "stopping", "answer"},
                                           request : Request, content : Content]]
        /\ HandlersAreExact' /\ StoppersHaveActed'
      BY <1>1, <1>2, <1>3, <2>2, HandlersMoveOn
  <2> HIDE DEF q, k
  <2> QED
      BY <1>1, <1>2, <1>5, <2>1, <2>3, FirstKeeps DEF RequestInv
<1>6. CASE /\ known[q] = k /\ UNCHANGED <<known, effects, running>>
           /\ Record(q, k, IF q \in running' THEN "accepted" ELSE "committed")
  <2> DEFINE s == IF q \in running' THEN "accepted" ELSE "committed"
  <2>1. s \in Statuses \ {None} /\ Record(q, k, s) /\ (s = "committed" => q \notin running')
      BY <1>6 DEF None
  <2>2. known'[q] # None
      BY <1>1, <1>6
  <2>3. /\ call' \in [Call -> {Idle} \cup [at : {"domain", "stopping", "answer"},
                                           request : Request, content : Content]]
        /\ HandlersAreExact' /\ StoppersHaveActed'
      BY <1>1, <1>2, <1>3, <1>6, <2>2, HandlersMoveOn
  <2> HIDE DEF q, k, s
  <2> QED
      BY <1>1, <1>2, <1>6, <2>1, <2>2, <2>3, RecordKeeps DEF RequestInv
<1>7. CASE DoPrompt(c, q, k)
    BY <1>4, <1>5, <1>7 DEF DoPrompt
<1>8. CASE DoCancel(c, q, k)
  <2>1. CASE First(q) /\ Apply(q, k) /\ running' \in {running, running \cup {q}}
      BY <1>1, <1>5, <1>8, <2>1 DEF DoCancel, StatusNow, RequestInv, EffectsAreKnown, First
  <2> QED
      BY <1>6, <1>8, <2>1 DEF DoCancel, StatusNow
<1>9. CASE DoStop(c, q, k)
    BY <1>4, <1>5, <1>9 DEF DoStop
<1> QED
    BY <1>7, <1>8, <1>9 DEF UseCase

LEMMA ConfirmKeeps ==
    ASSUME RequestInv, NEW c \in Call, Confirm(c)
    PROVE  RequestInv'
<1> DEFINE q == call[c].request
           k == call[c].content
<1>1. call[c] # Idle /\ q \in Request /\ k \in Content /\ known[q] # None
    BY DEF RequestInv, StoppersHaveActed, Confirm, At, Idle
<1>2. /\ Record(q, k, "committed") /\ running' = running \ {q}
      /\ Ends(c) \/ Goes(c, "answer")
    BY DEF Confirm
<1>3. UNCHANGED <<journal, known, effects, told>>
    BY DEF Confirm
<1>4. /\ call' \in [Call -> {Idle} \cup [at : {"domain", "stopping", "answer"},
                                         request : Request, content : Content]]
      /\ HandlersAreExact' /\ StoppersHaveActed'
    BY <1>1, <1>2, <1>3, HandlersMoveOn
<1> HIDE DEF q, k
<1> QED
    BY <1>1, <1>2, <1>3, <1>4, RecordKeeps DEF RequestInv

(* A handler that ends, or goes on, without touching the store.            *)
LEMMA EndingKeeps ==
    ASSUME RequestInv, NEW c \in Call, GiveUp(c) \/ Refuse(c)
    PROVE  RequestInv'
<1>1. /\ call[c] # Idle /\ UNCHANGED <<journal, storeVars, told>>
      /\ Ends(c) \/ Goes(c, "answer")
    BY DEF RequestInv, GiveUp, Refuse, At, Idle
<1>2. /\ call' \in [Call -> {Idle} \cup [at : {"domain", "stopping", "answer"},
                                         request : Request, content : Content]]
      /\ HandlersAreExact' /\ StoppersHaveActed'
    BY <1>1, HandlersMoveOn
<1> QED
    BY <1>1, <1>2 DEF RequestInv, EffectsAreKnown, ReceiptsAreTrue, ReportsFollowTheReceipt

LEMMA AnswerKeeps ==
    ASSUME RequestInv, NEW c \in Call, Answer(c)
    PROVE  RequestInv'
<1> DEFINE q == call[c].request
<1>1. /\ call[c] # Idle /\ q \in Request
      /\ call[c].content = journal[q].content /\ call[c].content \in Content
    BY DEF RequestInv, HandlersAreExact, Answer, At, Idle
<1>2. /\ Resolve(q) /\ MayTell(q, journal[q].content) /\ UNCHANGED storeVars
    BY <1>1 DEF Answer
<1> HIDE DEF q
<1>3. /\ journal' \in [Request -> [content : Content \cup {None}, kept : Keeping,
                                   status : Statuses]]
      /\ told' \in SUBSET (Request \X Content)
      /\ \A p \in Request : journal'[p].content = journal[p].content
      /\ EntriesHaveContent' /\ EffectsAreKnown' /\ ReceiptsAreTrue' /\ ReportsFollowTheReceipt'
    BY <1>1, <1>2, ReportKeeps
<1>4. /\ call' = [call EXCEPT ![c] = Idle]
      /\ UNCHANGED known
    BY DEF Answer, Ends
<1>5. call' \in [Call -> {Idle} \cup [at : {"domain", "stopping", "answer"},
                                      request : Request, content : Content]]
    BY <1>4 DEF RequestInv
<1>6. StoppersHaveActed'
    BY <1>4 DEF RequestInv, StoppersHaveActed
<1>7. HandlersAreExact'
  <2> SUFFICES ASSUME NEW d \in Call, call'[d] # Idle
               PROVE  call'[d].content = journal'[call'[d].request].content
      BY DEF HandlersAreExact
  <2>1. call'[d] = call[d] /\ call[d] # Idle
      BY <1>4 DEF RequestInv
  <2>2. call[d].request \in Request /\ call[d].content = journal[call[d].request].content
      BY <2>1 DEF RequestInv, HandlersAreExact
  <2> QED
      BY <1>3, <2>1, <2>2
<1> QED
    BY <1>2, <1>3, <1>5, <1>6, <1>7 DEF RequestInv

LEMMA RecoveryKeeps ==
    ASSUME RequestInv, NEW q \in Request, StoppedByRecovery(q)
    PROVE  RequestInv'
<1>1. /\ running' = running \ {q}
      /\ UNCHANGED <<journal, receipt, known, effects, told, call>>
    BY DEF StoppedByRecovery
<1> QED
    BY <1>1 DEF RequestInv, EffectsAreKnown, HandlersAreExact, StoppersHaveActed, ReceiptsAreTrue,
       ReportsFollowTheReceipt

LEMMA CrashKeeps ==
    ASSUME RequestInv, Crash
    PROVE  RequestInv'
<1>1. /\ call' = [c \in Call |-> Idle]
      /\ UNCHANGED <<journal, receipt, known, running, effects, told>>
    BY DEF Crash
<1> QED
    BY <1>1 DEF RequestInv, EffectsAreKnown, HandlersAreExact, StoppersHaveActed, ReceiptsAreTrue,
       ReportsFollowTheReceipt

-----------------------------------------------------------------------------
(* The invariant of every step.                                            *)
LEMMA RequestInvNext == RequestInv /\ [Next]_vars => RequestInv'
<1> SUFFICES ASSUME RequestInv, [Next]_vars
             PROVE  RequestInv'
    OBVIOUS
<1>1. CASE UNCHANGED vars
    BY <1>1 DEF vars, RequestInv, EffectsAreKnown, HandlersAreExact, StoppersHaveActed,
       ReceiptsAreTrue, ReportsFollowTheReceipt
<1>2. CASE \E q \in Request : Compact(q) \/ StoppedByRecovery(q)
    BY <1>2, CompactKeeps, RecoveryKeeps
<1>3. CASE \E q \in Request, k \in Content : Prepare(q, k)
    BY <1>3, PrepareKeeps
<1>4. CASE \E c \in Call, q \in Request, k \in Content : Receive(c, q, k)
    BY <1>4, ReceiveKeeps
<1>5. CASE \E c \in Call, q \in Request : Retry(c, q)
    BY <1>5, RetryKeeps
<1>6. CASE \E c \in Call : UseCase(c) \/ Confirm(c) \/ GiveUp(c) \/ Refuse(c) \/ Answer(c)
    BY <1>6, UseCaseKeeps, ConfirmKeeps, EndingKeeps, AnswerKeeps
<1>7. CASE Crash
    BY <1>7, CrashKeeps
<1> QED
    BY <1>1, <1>2, <1>3, <1>4, <1>5, <1>6, <1>7 DEF Next

LEMMA RequestsStayConsistent == Spec => []RequestInv
    BY RequestInvInit, RequestInvNext, PTL DEF Spec

(* Type correctness, for every set of requests, contents and handlers.     *)
THEOREM RequestTypes == Spec => []TypeOK
<1>1. RequestInv => TypeOK
    BY DEF RequestInv
<1> QED
    BY <1>1, RequestsStayConsistent, PTL

(* However often a request is sent, retried or reused, by however many     *)
(* handlers at once and across crashes, its effect is applied once at most *)
(* and with the content that the journal has kept.                         *)
THEOREM RequestsAreAppliedOnce == Spec => []AppliedOnce
<1>1. RequestInv => AppliedOnce
    BY DEF RequestInv, EffectsAreKnown, AppliedOnce
<1> QED
    BY <1>1, RequestsStayConsistent, PTL

(* What the journal or a client has as committed is durable and finished.  *)
THEOREM ReportsAreTrue == Spec => []CommittedIsDone
<1>1. RequestInv => CommittedIsDone
  <2> SUFFICES ASSUME RequestInv
               PROVE  CommittedIsDone
      OBVIOUS
  <2>1. \A q \in Request : receipt[q].status = "committed" =>
            effects[q] = <<journal[q].content>> /\ q \notin running
      BY DEF RequestInv, EffectsAreKnown, ReceiptsAreTrue
  <2>2. \A t \in told : t[1] \in Request /\ t[2] \in Content
      BY DEF RequestInv
  <2> QED
      BY <2>1, <2>2 DEF RequestInv, ReportsFollowTheReceipt, CommittedIsDone
<1> QED
    BY <1>1, RequestsStayConsistent, PTL

HIDE DEF TypeOK, Kinds, Statuses, Keeping, storeVars, None,
    EntriesHaveContent

(***************************************************************************)
(* Purge.                                                                  *)
(***************************************************************************)

Plans == [life : Nat, evidence : Nat, up : BOOLEAN, automatic : BOOLEAN]
Operations == [kind : {"other", "remove", "purge", "purge-recovery"},
               stage : {"prepared", "stopping"}, done : BOOLEAN, evidence : Nat]
Evidences == [id : Nat, op : Nat, leased : BOOLEAN, expired : BOOLEAN,
              sameRows : BOOLEAN, sameFiles : BOOLEAN]
PurgeSteps == {"idle", "look", "authorised", "prepare", "finish", "move", "moved", "delete",
               "complete"}
RepairSteps == {"idle", "planned", "launched", "child", "sealed"}

PurgeTypeOK ==
    /\ root \in {Gone, Bare} \cup Lifetime
    /\ evidence \in Evidences
    /\ leased \in BOOLEAN
    /\ seals \in Nat
    /\ quarantine \in [Lifetime -> {"absent", "whole", "part", "changed"}]
    /\ stub \in [Lifetime -> {"absent", "prepared", "quarantined", "completed"}]
    /\ recorded \in [Lifetime -> Plans]
    /\ torn \in BOOLEAN
    /\ lock \in {"nobody", "daemon", "purge", "child"}
    /\ up \in BOOLEAN /\ automatic \in BOOLEAN
    /\ plans \in SUBSET Plans
    /\ step \in PurgeSteps
    /\ named \in Plans
    /\ repair \in [at : RepairSteps, life : Nat, op : Nat, own : BOOLEAN]
    /\ taken \in [Lifetime -> {"nothing", "sealed", "other"}]

JournalTypeOK == operations \in Seq(Operations)

-----------------------------------------------------------------------------
(* The parts of the invariant.                                             *)

(* The purge and the recovering child hold the gate while they are under   *)
(* way, and neither a Daemon nor a child gets it while a purge has begun.  *)
GateIsHeld ==
    /\ step # "idle" <=> lock = "purge"
    /\ repair.at = "child" <=> lock = "child"
    /\ lock \in {"daemon", "child"} => \A l \in Lifetime : ~Busy(l)

(* One purge is under way; what lies in a quarantine is its; what it has   *)
(* completed is not there any more; and a receipt is that of its data.     *)
OneIsBusy == \A k, l \in Lifetime : Busy(k) /\ Busy(l) => k = l

QuarantinesArePending == \A l \in Lifetime : quarantine[l] # "absent" => Busy(l)

CompletedIsGone == \A l \in Lifetime : stub[l] = "completed" => root # l

ReceiptsNameTheirData == \A l \in Lifetime : stub[l] # "absent" => recorded[l].life = l

(* A plan was made over data that were there.                              *)
TokensNameLifetimes == \A plan \in plans : plan.life \in Lifetime

(* Evidence of unchanged rows has their leases, and evidence that a purge  *)
(* rests on has none.                                                      *)
EvidenceIsExact == evidence.sameRows => evidence.leased = leased

(* This holds for the evidence of a purge that was interrupted, too.       *)
BusyIsFree ==
    \A l \in Lifetime : Busy(l) /\ root = l /\ evidence.id = recorded[l].evidence
                        => ~evidence.leased

(* What the command has looked at still holds at its next step.            *)
StepsAreCovered ==
    /\ step # "idle" => named.life \in Lifetime
    /\ step \in {"authorised", "prepare"} =>
          /\ stub[named.life] = "absent"
          /\ root = named.life
          /\ \A k \in Lifetime : ~Busy(k)
          /\ evidence.id = named.evidence
          /\ ~evidence.leased
    /\ step \in {"finish", "move", "moved", "delete", "complete"} =>
          Busy(named.life) /\ recorded[named.life] = named
    /\ step = "move" =>
          root = named.life /\ evidence.id = named.evidence /\ evidence.sameRows
    /\ step \in {"moved", "delete", "complete"} => root # named.life
    /\ step = "complete" => quarantine[named.life] = "absent"

PurgeInv ==
    /\ PurgeTypeOK
    /\ JournalTypeOK
    /\ GateIsHeld
    /\ OneIsBusy
    /\ QuarantinesArePending
    /\ CompletedIsGone
    /\ ReceiptsNameTheirData
    /\ TokensNameLifetimes
    /\ EvidenceIsExact
    /\ BusyIsFree
    /\ StepsAreCovered
    /\ PurgedWasSealed

USE BoundAssumption DEF dataVars, receiptVars, service, purge, Gone, Bare, Lifetime, PurgeSteps

LEMMA PurgeInvInit == PurgeInit => PurgeInv
<1> SUFFICES ASSUME PurgeInit PROVE PurgeInv
    OBVIOUS
<1>1. PurgeTypeOK
    BY DEF PurgeInit, PurgeTypeOK, NoPlan, NoRepair, NoEvidence, Plans, Evidences, RepairSteps
<1>2. JournalTypeOK
  <2>1. operations = <<>>
      BY DEF PurgeInit
  <2> QED
      BY <2>1 DEF JournalTypeOK
<1> QED
    BY <1>1, <1>2 DEF PurgeInit, PurgeInv, GateIsHeld, OneIsBusy, QuarantinesArePending,
       CompletedIsGone,
       ReceiptsNameTheirData, TokensNameLifetimes, EvidenceIsExact, BusyIsFree, StepsAreCovered,
       PurgedWasSealed, Busy, NoRepair, NoEvidence

-----------------------------------------------------------------------------
(* Shapes: what an update of a record or of the journal is.                *)

LEMMA EvidenceShape ==
    ASSUME evidence \in Evidences
    PROVE  /\ FilesChange(evidence) \in Evidences
           /\ FilesChange(evidence).id = evidence.id
           /\ FilesChange(evidence).leased = evidence.leased
           /\ FilesChange(evidence).sameRows = evidence.sameRows
           /\ RowsChange(evidence) \in Evidences
           /\ RowsChange(evidence).id = evidence.id
           /\ RowsChange(evidence).leased = evidence.leased
           /\ ~RowsChange(evidence).sameRows
    BY DEF Evidences, FilesChange, RowsChange

LEMMA SealedShape ==
    ASSUME PurgeTypeOK, EvidenceIsExact, NEW op \in Nat, Sealed(op)
    PROVE  evidence' \in Evidences /\ seals' \in Nat /\ evidence'.leased = leased
<1>1. CASE evidence.op = op /\ evidence.sameRows
  <2>1. evidence' = evidence /\ seals' = seals
      BY <1>1 DEF Sealed
  <2> QED
      BY <1>1, <2>1 DEF PurgeTypeOK, EvidenceIsExact
<1>2. CASE ~(evidence.op = op /\ evidence.sameRows)
  <2>1. /\ seals' = seals + 1
        /\ evidence' = [id |-> seals + 1, op |-> op, leased |-> leased, expired |-> FALSE,
                        sameRows |-> TRUE, sameFiles |-> TRUE]
      BY <1>2 DEF Sealed
  <2>2. seals + 1 \in Nat /\ leased \in BOOLEAN
      BY DEF PurgeTypeOK
  <2> QED
      BY <2>1, <2>2 DEF Evidences
<1> QED
    BY <1>1, <1>2

LEMMA OperationShape ==
    ASSUME NEW s \in Seq(Operations)
    PROVE  /\ \A o \in Operations : Append(s, o) \in Seq(Operations)
           /\ \A op \in DOMAIN s : op \in Nat /\ s[op] \in Operations
           /\ \A op \in DOMAIN s, o \in Operations : [s EXCEPT ![op] = o] \in Seq(Operations)
<1>1. \A o \in Operations : Append(s, o) \in Seq(Operations)
    OBVIOUS
<1>2. \A op \in DOMAIN s : op \in Nat /\ s[op] \in Operations
    OBVIOUS
<1>3. ASSUME NEW op \in DOMAIN s, NEW o \in Operations
      PROVE  [s EXCEPT ![op] = o] \in Seq(Operations)
    OBVIOUS
<1> QED
    BY <1>1, <1>2, <1>3

LEMMA NewOperation ==
    ASSUME NEW kind \in {"other", "remove", "purge", "purge-recovery"}
    PROVE  Operation(kind) \in Operations /\ [Operation(kind) EXCEPT !.done = TRUE] \in Operations
    BY DEF Operation, Operations

LEMMA WriteShape ==
    ASSUME PurgeTypeOK, named.life \in Lifetime,
           NEW stage \in {"prepared", "quarantined", "completed"}, Write(stage)
    PROVE  /\ stub' \in [Lifetime -> {"absent", "prepared", "quarantined", "completed"}]
           /\ recorded' \in [Lifetime -> Plans]
           /\ stub'[named.life] = stage /\ recorded'[named.life] = named
           /\ \A l \in Lifetime : l # named.life => stub'[l] = stub[l] /\ recorded'[l] = recorded[l]
    BY DEF Write, PurgeTypeOK

-----------------------------------------------------------------------------
(* Two kinds of steps that most actions are.                               *)

(* What happens around the purge: the evidence may have become stale, but  *)
(* it is the same, and no lifetime has come or gone.                       *)
LEMMA AroundKeeps ==
    ASSUME PurgeInv, PurgeTypeOK', JournalTypeOK', GateIsHeld',
           UNCHANGED <<leased, quarantine, stub, recorded, plans, step, named, taken>>,
           root' = root \/ (root \notin Lifetime /\ root' \notin Lifetime),
           evidence'.id = evidence.id, evidence'.leased = evidence.leased,
           evidence'.sameRows = evidence.sameRows
    PROVE  PurgeInv'
<1> USE DEF PurgeInv
<1>1. OneIsBusy' /\ QuarantinesArePending' /\ ReceiptsNameTheirData'
    BY DEF OneIsBusy, QuarantinesArePending, ReceiptsNameTheirData, Busy
<1>2. CompletedIsGone' /\ BusyIsFree'
    BY DEF CompletedIsGone, BusyIsFree, Busy
<1>3. EvidenceIsExact' /\ TokensNameLifetimes' /\ PurgedWasSealed'
    BY DEF EvidenceIsExact, TokensNameLifetimes, PurgedWasSealed
<1>4. StepsAreCovered'
    BY DEF StepsAreCovered, Busy, PurgeTypeOK
<1> QED
    BY <1>1, <1>2, <1>3, <1>4

(* A step of the command that touches neither data nor receipts.           *)
LEMMA CommandKeeps ==
    ASSUME PurgeInv, PurgeTypeOK', GateIsHeld', StepsAreCovered', JournalTypeOK',
           UNCHANGED <<root, evidence, leased, quarantine, stub, recorded, plans, taken>>
    PROVE  PurgeInv'
    BY DEF PurgeInv, OneIsBusy, QuarantinesArePending, CompletedIsGone, ReceiptsNameTheirData,
       EvidenceIsExact,
       BusyIsFree, TokensNameLifetimes, PurgedWasSealed, Busy

-----------------------------------------------------------------------------
(* What happens around a purge.                                            *)

LEMMA StartServiceKeeps ==
    ASSUME PurgeInv, StartService
    PROVE  PurgeInv'
<1> USE DEF PurgeInv
<1>1. PurgeTypeOK'
    BY EvidenceShape DEF StartService, PurgeTypeOK
<1>2. JournalTypeOK'
    BY DEF StartService, JournalTypeOK
<1>3. GateIsHeld'
    BY DEF StartService, GateIsHeld, Busy
<1> QED
    BY <1>1, <1>2, <1>3, AroundKeeps, EvidenceShape DEF StartService, PurgeTypeOK

LEMMA DaemonEndsKeeps ==
    ASSUME PurgeInv, DaemonEnds
    PROVE  PurgeInv'
<1> USE DEF PurgeInv
<1>1. PurgeTypeOK'
    BY EvidenceShape DEF DaemonEnds, PurgeTypeOK
<1>2. JournalTypeOK'
    BY DEF DaemonEnds, JournalTypeOK
<1>3. GateIsHeld'
    BY DEF DaemonEnds, GateIsHeld, Busy
<1> QED
    BY <1>1, <1>2, <1>3, AroundKeeps, EvidenceShape DEF DaemonEnds, PurgeTypeOK

LEMMA SwitchStartKeeps ==
    ASSUME PurgeInv, SwitchStart
    PROVE  PurgeInv'
<1> USE DEF PurgeInv
<1>1. PurgeTypeOK'
    BY EvidenceShape DEF SwitchStart, PurgeTypeOK
<1>2. JournalTypeOK'
  <2>1. [Operation("other") EXCEPT !.done = TRUE] \in Operations
      BY NewOperation
  <2>2. operations' = Append(operations, [Operation("other") EXCEPT !.done = TRUE])
      BY DEF SwitchStart
  <2> QED
      BY <2>1, <2>2, OperationShape DEF JournalTypeOK
<1>3. GateIsHeld'
    BY DEF SwitchStart, GateIsHeld, Busy
<1> QED
    BY <1>1, <1>2, <1>3, AroundKeeps, EvidenceShape DEF SwitchStart, PurgeTypeOK

LEMMA TimePassesKeeps ==
    ASSUME PurgeInv, TimePasses
    PROVE  PurgeInv'
<1> USE DEF PurgeInv
<1>1. PurgeTypeOK'
    BY DEF TimePasses, PurgeTypeOK, Evidences
<1>2. JournalTypeOK'
    BY DEF TimePasses, JournalTypeOK
<1>3. GateIsHeld'
    BY DEF TimePasses, GateIsHeld, Busy
<1> QED
    BY <1>1, <1>2, <1>3, AroundKeeps, EvidenceShape DEF TimePasses, PurgeTypeOK, Evidences

LEMMA BeginRemovalKeeps ==
    ASSUME PurgeInv, BeginRemoval
    PROVE  PurgeInv'
<1> USE DEF PurgeInv
<1>1. PurgeTypeOK'
    BY EvidenceShape DEF BeginRemoval, PurgeTypeOK
<1>2. JournalTypeOK'
  <2>1. Operation("remove") \in Operations
      BY NewOperation
  <2>2. operations' = Append(operations, Operation("remove"))
      BY DEF BeginRemoval
  <2> QED
      BY <2>1, <2>2, OperationShape DEF JournalTypeOK
<1>3. GateIsHeld'
    BY DEF BeginRemoval, GateIsHeld, Busy
<1> QED
    BY <1>1, <1>2, <1>3, AroundKeeps, EvidenceShape DEF BeginRemoval, PurgeTypeOK

LEMMA AskToStopKeeps ==
    ASSUME PurgeInv, NEW op \in DOMAIN operations, AskToStop(op)
    PROVE  PurgeInv'
<1> USE DEF PurgeInv
<1>1. PurgeTypeOK'
    BY EvidenceShape DEF AskToStop, PurgeTypeOK
<1>2. JournalTypeOK'
  <2> DEFINE o == [operations[op] EXCEPT !.stage = "stopping"]
  <2>1. operations[op] \in Operations
      BY OperationShape DEF JournalTypeOK
  <2>2. o \in Operations
      BY <2>1 DEF Operations, PurgeTypeOK, Evidences
  <2>3. operations' = [operations EXCEPT ![op] = o]
      BY DEF AskToStop
  <2> HIDE DEF o
  <2> QED
      BY <2>2, <2>3, OperationShape DEF JournalTypeOK
<1>3. GateIsHeld'
    BY DEF AskToStop, GateIsHeld, Busy
<1> QED
    BY <1>1, <1>2, <1>3, AroundKeeps, EvidenceShape DEF AskToStop, PurgeTypeOK

LEMMA FindStoppedKeeps ==
    ASSUME PurgeInv, NEW op \in DOMAIN operations, FindStopped(op)
    PROVE  PurgeInv'
<1> USE DEF PurgeInv
<1>1. PurgeTypeOK'
    BY EvidenceShape DEF FindStopped, PurgeTypeOK
<1>2. JournalTypeOK'
  <2> DEFINE o == [operations[op] EXCEPT !.stage = "stopping", !.evidence = evidence.id]
  <2>1. operations[op] \in Operations /\ evidence.id \in Nat
      BY OperationShape DEF JournalTypeOK, PurgeTypeOK, Evidences
  <2>2. o \in Operations
      BY <2>1 DEF Operations
  <2>3. operations' = [operations EXCEPT ![op] = o]
      BY DEF FindStopped
  <2> HIDE DEF o
  <2> QED
      BY <2>2, <2>3, OperationShape DEF JournalTypeOK
<1>3. GateIsHeld'
    BY DEF FindStopped, GateIsHeld, Busy
<1> QED
    BY <1>1, <1>2, <1>3, AroundKeeps, EvidenceShape DEF FindStopped, PurgeTypeOK

LEMMA FinishRemovalKeeps ==
    ASSUME PurgeInv, NEW op \in DOMAIN operations, FinishRemoval(op)
    PROVE  PurgeInv'
<1> USE DEF PurgeInv
<1>1. PurgeTypeOK'
    BY EvidenceShape DEF FinishRemoval, PurgeTypeOK
<1>2. JournalTypeOK'
  <2> DEFINE o == [operations[op] EXCEPT !.done = TRUE]
  <2>1. operations[op] \in Operations
      BY OperationShape DEF JournalTypeOK
  <2>2. o \in Operations
      BY <2>1 DEF Operations
  <2>3. operations' = [operations EXCEPT ![op] = o]
      BY DEF FinishRemoval
  <2> HIDE DEF o
  <2> QED
      BY <2>2, <2>3, OperationShape DEF JournalTypeOK
<1>3. GateIsHeld'
    BY DEF FinishRemoval, GateIsHeld, Busy
<1> QED
    BY <1>1, <1>2, <1>3, AroundKeeps, EvidenceShape DEF FinishRemoval, PurgeTypeOK

LEMMA RepairCheckKeeps ==
    ASSUME PurgeInv, RepairCheck
    PROVE  PurgeInv'
<1> USE DEF PurgeInv
<1>1. PurgeTypeOK'
  <2>1. repair' \in [at : RepairSteps, life : Nat, op : Nat, own : BOOLEAN]
    <3>1. root \in Nat
        BY DEF RepairCheck
    <3>2. \A op \in DOMAIN operations : op \in Nat
        BY OperationShape DEF JournalTypeOK
    <3>3. \/ repair' = [at |-> "planned", life |-> root, op |-> 0, own |-> TRUE]
          \/ \E op \in DOMAIN operations :
                repair' = [at |-> "planned", life |-> root, op |-> op, own |-> FALSE]
        BY DEF RepairCheck
    <3>4. CASE repair' = [at |-> "planned", life |-> root, op |-> 0, own |-> TRUE]
        BY <3>1, <3>4 DEF RepairSteps
    <3>5. ASSUME NEW op \in DOMAIN operations,
                 repair' = [at |-> "planned", life |-> root, op |-> op, own |-> FALSE]
          PROVE  repair' \in [at : RepairSteps, life : Nat, op : Nat, own : BOOLEAN]
      <4>1. op \in Nat
          BY <3>2
      <4> HIDE DEF PurgeInv
      <4> QED
          BY <3>1, <3>5, <4>1 DEF RepairSteps
    <3> QED
        BY <3>3, <3>4, <3>5
  <2> QED
      BY <2>1 DEF RepairCheck, PurgeTypeOK
<1>2. JournalTypeOK'
    BY DEF RepairCheck, JournalTypeOK
<1>3. GateIsHeld'
    BY DEF RepairCheck, GateIsHeld, Busy, RepairSteps, NoRepair
<1> QED
    BY <1>1, <1>2, <1>3, AroundKeeps, EvidenceShape DEF RepairCheck, PurgeTypeOK

LEMMA ApplyRepairKeeps ==
    ASSUME PurgeInv, ApplyRepair
    PROVE  PurgeInv'
<1> USE DEF PurgeInv
<1>1. PurgeTypeOK'
  <2>1. repair' \in [at : RepairSteps, life : Nat, op : Nat, own : BOOLEAN]
    <3> DEFINE n == Len(operations) + 1
    <3>1. n \in Nat
        BY DEF JournalTypeOK
    <3>2. \/ repair' = [repair EXCEPT !.at = "launched", !.op = n]
          \/ repair' = [repair EXCEPT !.at = "launched"]
        BY DEF ApplyRepair
    <3> HIDE DEF n
    <3> QED
        BY <3>1, <3>2 DEF PurgeTypeOK, RepairSteps
  <2>2. evidence' \in Evidences
      BY EvidenceShape DEF ApplyRepair, PurgeTypeOK
  <2> QED
      BY <2>1, <2>2 DEF ApplyRepair, PurgeTypeOK
<1>2. JournalTypeOK'
  <2>1. CASE repair.op = 0
    <3>1. Operation("purge-recovery") \in Operations
        BY NewOperation
    <3>2. operations' = Append(operations, Operation("purge-recovery"))
        BY <2>1 DEF ApplyRepair
    <3> QED
        BY <3>1, <3>2, OperationShape DEF JournalTypeOK
  <2>2. CASE repair.op # 0
      BY <2>2 DEF ApplyRepair, JournalTypeOK
  <2> QED
      BY <2>1, <2>2
<1>3. GateIsHeld'
  <2>1. repair'.at = "launched" /\ repair.at = "planned"
      BY DEF ApplyRepair, RepairAt, PurgeTypeOK, RepairSteps
  <2> QED
      BY <2>1 DEF ApplyRepair, GateIsHeld, Busy
<1> QED
    BY <1>1, <1>2, <1>3, AroundKeeps, EvidenceShape DEF ApplyRepair, PurgeTypeOK

LEMMA ChildTakesGateKeeps ==
    ASSUME PurgeInv, ChildTakesGate
    PROVE  PurgeInv'
<1> USE DEF PurgeInv
<1>1. PurgeTypeOK'
    BY EvidenceShape DEF ChildTakesGate, PurgeTypeOK, RepairSteps
<1>2. JournalTypeOK'
    BY DEF ChildTakesGate, JournalTypeOK
<1>3. GateIsHeld'
    BY DEF ChildTakesGate, GateIsHeld, Busy, RepairAt, StartGateFree, InProgress, PurgeTypeOK,
       RepairSteps
<1> QED
    BY <1>1, <1>2, <1>3, AroundKeeps, EvidenceShape DEF ChildTakesGate, PurgeTypeOK

LEMMA RecordRepairKeeps ==
    ASSUME PurgeInv, RecordRepair
    PROVE  PurgeInv'
<1> USE DEF PurgeInv
<1>1. PurgeTypeOK'
    BY EvidenceShape DEF RecordRepair, PurgeTypeOK, RepairSteps, NoRepair
<1>2. JournalTypeOK'
  <2> DEFINE o == [operations[repair.op] EXCEPT !.evidence = evidence.id, !.done = repair.own]
  <2>1. operations[repair.op] \in Operations
      BY OperationShape DEF JournalTypeOK, RecordRepair, Pending
  <2>2. o \in Operations
      BY <2>1 DEF Operations, PurgeTypeOK, Evidences
  <2>3. operations' = [operations EXCEPT ![repair.op] = o]
      BY DEF RecordRepair
  <2> HIDE DEF o
  <2> QED
      BY <2>2, <2>3, OperationShape DEF JournalTypeOK, RecordRepair, Pending
<1>3. GateIsHeld'
    BY DEF RecordRepair, GateIsHeld, Busy, RepairSteps, NoRepair, RepairAt
<1> QED
    BY <1>1, <1>2, <1>3, AroundKeeps, EvidenceShape DEF RecordRepair, PurgeTypeOK

LEMMA RepairFailsKeeps ==
    ASSUME PurgeInv, RepairFails
    PROVE  PurgeInv'
<1> USE DEF PurgeInv
<1>1. PurgeTypeOK'
    BY EvidenceShape DEF RepairFails, PurgeTypeOK, RepairSteps, RepairAt
<1>2. JournalTypeOK'
    BY DEF RepairFails, JournalTypeOK
<1>3. GateIsHeld'
    BY DEF RepairFails, GateIsHeld, Busy, RepairSteps, RepairAt, PurgeTypeOK
<1> QED
    BY <1>1, <1>2, <1>3, AroundKeeps, EvidenceShape DEF RepairFails, PurgeTypeOK

LEMMA RepairExpiresKeeps ==
    ASSUME PurgeInv, RepairExpires
    PROVE  PurgeInv'
<1> USE DEF PurgeInv
<1>1. PurgeTypeOK'
    BY EvidenceShape DEF RepairExpires, PurgeTypeOK, RepairSteps, NoRepair
<1>2. JournalTypeOK'
    BY DEF RepairExpires, JournalTypeOK
<1>3. GateIsHeld'
    BY DEF RepairExpires, GateIsHeld, Busy, RepairSteps, NoRepair, RepairAt
<1> QED
    BY <1>1, <1>2, <1>3, AroundKeeps, EvidenceShape DEF RepairExpires, PurgeTypeOK

-----------------------------------------------------------------------------
(* The steps of a purge.                                                   *)

LEMMA ConfirmPlanKeeps ==
    ASSUME PurgeInv, NEW plan \in plans, ConfirmPlan(plan)
    PROVE  PurgeInv'
<1> USE DEF PurgeInv
<1>1. PurgeTypeOK'
    BY DEF ConfirmPlan, Command, Leave, PurgeTypeOK
<1>2. JournalTypeOK'
    BY DEF ConfirmPlan, JournalTypeOK
<1>3. GateIsHeld'
    BY DEF ConfirmPlan, Command, Leave, GateIsHeld, Busy
<1>4. StepsAreCovered'
    BY DEF ConfirmPlan, StepsAreCovered, TokensNameLifetimes
<1> QED
    BY <1>1, <1>2, <1>3, <1>4, CommandKeeps DEF ConfirmPlan

LEMMA LookKeeps ==
    ASSUME PurgeInv, Look
    PROVE  PurgeInv'
<1> USE DEF PurgeInv
<1>1. PurgeTypeOK'
    BY DEF Look, Command, Leave, PurgeTypeOK
<1>2. JournalTypeOK'
    BY DEF Look, JournalTypeOK
<1>3. GateIsHeld'
    BY DEF Look, Command, Leave, GateIsHeld, Busy
<1>4. StepsAreCovered'
  <2>1. CASE step' = "finish"
    <3>1. PICK l \in Lifetime : Busy(l) /\ recorded[l] = named
        BY <2>1 DEF Look, Command
    <3>2. named.life = l
        BY <3>1 DEF ReceiptsNameTheirData, Busy
    <3> QED
        BY <2>1, <3>1, <3>2 DEF Look, Command, StepsAreCovered, Busy
  <2>2. CASE step' = "authorised"
      BY <2>2 DEF Look, Command, StepsAreCovered, InProgress, Authorises, Plan, Busy
  <2> QED
      BY <2>1, <2>2 DEF Look, Command
<1> QED
    BY <1>1, <1>2, <1>3, <1>4, CommandKeeps DEF Look

LEMMA AuthoriseKeeps ==
    ASSUME PurgeInv, Authorise
    PROVE  PurgeInv'
<1> USE DEF PurgeInv
<1>1. PurgeTypeOK'
    BY DEF Authorise, Command, Leave, PurgeTypeOK
<1>2. JournalTypeOK'
  <2>1. Operation("purge") \in Operations
      BY NewOperation
  <2>2. operations' = Append(operations, Operation("purge"))
      BY DEF Authorise
  <2> QED
      BY <2>1, <2>2, OperationShape DEF JournalTypeOK
<1>3. GateIsHeld'
    BY DEF Authorise, Command, Leave, GateIsHeld, Busy
<1>4. StepsAreCovered'
    BY DEF Authorise, Command, StepsAreCovered, Busy
<1> QED
    BY <1>1, <1>2, <1>3, <1>4, CommandKeeps DEF Authorise

LEMMA FinishKeeps ==
    ASSUME PurgeInv, Finish
    PROVE  PurgeInv'
<1> USE DEF PurgeInv
<1>1. PurgeTypeOK'
    BY DEF Finish, Command, Leave, PurgeTypeOK
<1>2. JournalTypeOK'
    BY DEF Finish, JournalTypeOK
<1>3. GateIsHeld'
    BY DEF Finish, Command, Leave, GateIsHeld, Busy
<1>4. StepsAreCovered'
    BY DEF Finish, Command, StepsAreCovered, Busy, MayMove, ScopeHolds
<1> QED
    BY <1>1, <1>2, <1>3, <1>4, CommandKeeps DEF Finish

LEMMA DeletedKeeps ==
    ASSUME PurgeInv, Deleted
    PROVE  PurgeInv'
<1> USE DEF PurgeInv
<1>1. PurgeTypeOK'
    BY DEF Deleted, Command, Leave, PurgeTypeOK
<1>2. JournalTypeOK'
    BY DEF Deleted, JournalTypeOK
<1>3. GateIsHeld'
    BY DEF Deleted, Command, Leave, GateIsHeld, Busy
<1>4. StepsAreCovered'
    BY DEF Deleted, Command, StepsAreCovered, Busy, NothingLeft
<1> QED
    BY <1>1, <1>2, <1>3, <1>4, CommandKeeps DEF Deleted

LEMMA PurgeEndsKeeps ==
    ASSUME PurgeInv, PurgeEnds
    PROVE  PurgeInv'
<1> USE DEF PurgeInv
<1>1. PurgeTypeOK'
    BY DEF PurgeEnds, Command, Leave, PurgeTypeOK, NoPlan, Plans
<1>2. JournalTypeOK'
    BY DEF PurgeEnds, JournalTypeOK
<1>3. GateIsHeld'
    BY DEF PurgeEnds, Command, Leave, GateIsHeld, Busy
<1>4. StepsAreCovered'
    BY DEF PurgeEnds, Leave, StepsAreCovered
<1> QED
    BY <1>1, <1>2, <1>3, <1>4, CommandKeeps DEF PurgeEnds

LEMMA CheckKeeps ==
    ASSUME PurgeInv, Check
    PROVE  PurgeInv'
<1> USE DEF PurgeInv
<1>1. PurgeTypeOK'
  <2>1. Plan \in Plans
      BY DEF Check, CheckPasses, Plan, Plans, PurgeTypeOK, Evidences
  <2> QED
      BY <2>1 DEF Check, PurgeTypeOK
<1>2. JournalTypeOK' /\ GateIsHeld'
    BY DEF Check, JournalTypeOK, GateIsHeld, Busy
<1>3. TokensNameLifetimes'
    BY DEF Check, CheckPasses, Plan, TokensNameLifetimes
<1>4. OneIsBusy' /\ QuarantinesArePending' /\ CompletedIsGone' /\ ReceiptsNameTheirData'
    BY DEF Check, OneIsBusy, QuarantinesArePending, CompletedIsGone, ReceiptsNameTheirData, Busy
<1>5. EvidenceIsExact' /\ BusyIsFree' /\ StepsAreCovered' /\ PurgedWasSealed'
    BY DEF Check, EvidenceIsExact, BusyIsFree, StepsAreCovered, PurgedWasSealed, Busy
<1> QED
    BY <1>1, <1>2, <1>3, <1>4, <1>5

LEMMA StartDaemonKeeps ==
    ASSUME PurgeInv, StartDaemon
    PROVE  PurgeInv'
<1> USE DEF PurgeInv
<1>1. PurgeTypeOK'
    BY EvidenceShape DEF StartDaemon, PurgeTypeOK
<1>2. JournalTypeOK'
    BY DEF StartDaemon, JournalTypeOK
<1>3. GateIsHeld'
    BY DEF StartDaemon, GateIsHeld, StartGateFree, InProgress, Busy
<1>4. /\ OneIsBusy' /\ QuarantinesArePending' /\ ReceiptsNameTheirData' /\ TokensNameLifetimes'
      /\ PurgedWasSealed'
    BY DEF StartDaemon, OneIsBusy, QuarantinesArePending, ReceiptsNameTheirData,
       TokensNameLifetimes, PurgedWasSealed, Busy
<1>5. CompletedIsGone' /\ BusyIsFree'
    BY EvidenceShape DEF StartDaemon, CompletedIsGone, BusyIsFree, StartGateFree, InProgress,
       PurgeTypeOK, Busy
<1>6. EvidenceIsExact'
    BY EvidenceShape DEF StartDaemon, EvidenceIsExact, PurgeTypeOK
<1>7. StepsAreCovered'
    BY DEF StartDaemon, StepsAreCovered, GateIsHeld, StartGateFree
<1> QED
    BY <1>1, <1>2, <1>3, <1>4, <1>5, <1>6, <1>7

LEMMA DaemonWritesKeeps ==
    ASSUME PurgeInv, DaemonWrites
    PROVE  PurgeInv'
<1> USE DEF PurgeInv
<1>1. PurgeTypeOK'
    BY EvidenceShape DEF DaemonWrites, PurgeTypeOK
<1>2. JournalTypeOK' /\ GateIsHeld'
    BY DEF DaemonWrites, JournalTypeOK, GateIsHeld, Busy
<1>3. OneIsBusy' /\ QuarantinesArePending' /\ CompletedIsGone' /\ ReceiptsNameTheirData'
    BY DEF DaemonWrites, OneIsBusy, QuarantinesArePending, CompletedIsGone,
       ReceiptsNameTheirData, Busy
<1>4. TokensNameLifetimes' /\ PurgedWasSealed'
    BY DEF DaemonWrites, TokensNameLifetimes, PurgedWasSealed
<1>5. EvidenceIsExact' /\ BusyIsFree'
    BY EvidenceShape DEF DaemonWrites, EvidenceIsExact, BusyIsFree, PurgeTypeOK, GateIsHeld, Busy
<1>6. StepsAreCovered'
    BY DEF DaemonWrites, StepsAreCovered, GateIsHeld
<1> QED
    BY <1>1, <1>2, <1>3, <1>4, <1>5, <1>6

LEMMA DaemonSealsKeeps ==
    ASSUME PurgeInv, NEW op \in DOMAIN operations, DaemonSeals(op)
    PROVE  PurgeInv'
<1> USE DEF PurgeInv
<1>1. op \in Nat
    BY OperationShape DEF JournalTypeOK
<1>2. evidence' \in Evidences /\ seals' \in Nat /\ evidence'.leased = leased
    BY <1>1, SealedShape DEF DaemonSeals
<1>3. step = "idle" /\ \A l \in Lifetime : ~Busy(l)
    BY DEF DaemonSeals, GateIsHeld, RepairAt
<1>4. PurgeTypeOK'
    BY <1>2 DEF DaemonSeals, PurgeTypeOK
<1>5. JournalTypeOK'
  <2> DEFINE o == [operations[op] EXCEPT !.evidence = evidence'.id]
  <2>1. operations[op] \in Operations
      BY OperationShape DEF JournalTypeOK
  <2>2. o \in Operations
      BY <1>2, <2>1 DEF Operations, Evidences
  <2>3. operations' = operations \/ operations' = [operations EXCEPT ![op] = o]
      BY DEF DaemonSeals
  <2> HIDE DEF o
  <2> QED
      BY <2>2, <2>3, OperationShape DEF JournalTypeOK
<1>6. GateIsHeld'
    BY DEF DaemonSeals, GateIsHeld, Busy
<1>7. OneIsBusy' /\ QuarantinesArePending' /\ CompletedIsGone' /\ ReceiptsNameTheirData'
    BY DEF DaemonSeals, OneIsBusy, QuarantinesArePending, CompletedIsGone, ReceiptsNameTheirData,
       Busy
<1>8. TokensNameLifetimes' /\ PurgedWasSealed'
    BY DEF DaemonSeals, TokensNameLifetimes, PurgedWasSealed
<1>9. EvidenceIsExact' /\ BusyIsFree' /\ StepsAreCovered'
    BY <1>2, <1>3 DEF DaemonSeals, EvidenceIsExact, BusyIsFree, StepsAreCovered, Busy
<1> QED
    BY <1>4, <1>5, <1>6, <1>7, <1>8, <1>9

LEMMA ChildSealsKeeps ==
    ASSUME PurgeInv, ChildSeals
    PROVE  PurgeInv'
<1> USE DEF PurgeInv
<1>1. repair.op \in Nat
    BY DEF PurgeTypeOK
<1>2. evidence' \in Evidences /\ seals' \in Nat /\ evidence'.leased = leased
    BY <1>1, SealedShape DEF ChildSeals
<1>3. step = "idle" /\ \A l \in Lifetime : ~Busy(l)
    BY DEF ChildSeals, GateIsHeld, RepairAt
<1>4. PurgeTypeOK'
    BY <1>2 DEF ChildSeals, PurgeTypeOK, RepairSteps
<1>5. JournalTypeOK'
    BY DEF ChildSeals, JournalTypeOK
<1>6. GateIsHeld'
    BY DEF ChildSeals, GateIsHeld, Busy, RepairAt, PurgeTypeOK, RepairSteps
<1>7. OneIsBusy' /\ QuarantinesArePending' /\ CompletedIsGone' /\ ReceiptsNameTheirData'
    BY DEF ChildSeals, OneIsBusy, QuarantinesArePending, CompletedIsGone, ReceiptsNameTheirData,
       Busy
<1>8. TokensNameLifetimes' /\ PurgedWasSealed'
    BY DEF ChildSeals, TokensNameLifetimes, PurgedWasSealed
<1>9. EvidenceIsExact' /\ BusyIsFree' /\ StepsAreCovered'
    BY <1>2, <1>3 DEF ChildSeals, EvidenceIsExact, BusyIsFree, StepsAreCovered, Busy
<1> QED
    BY <1>4, <1>5, <1>6, <1>7, <1>8, <1>9

LEMMA WritePreparedKeeps ==
    ASSUME PurgeInv, WritePrepared
    PROVE  PurgeInv'
<1> USE DEF PurgeInv
<1>1. named.life \in Lifetime
    BY DEF WritePrepared, StepsAreCovered
<1>2. /\ stub' \in [Lifetime -> {"absent", "prepared", "quarantined", "completed"}]
      /\ recorded' \in [Lifetime -> Plans]
      /\ stub'[named.life] = "prepared" /\ recorded'[named.life] = named
      /\ \A l \in Lifetime : l # named.life => stub'[l] = stub[l] /\ recorded'[l] = recorded[l]
    BY <1>1, WriteShape DEF WritePrepared
<1>3. PurgeTypeOK'
    BY <1>2 DEF WritePrepared, PurgeTypeOK, Command
<1>4. JournalTypeOK'
    BY DEF WritePrepared, JournalTypeOK
<1>5. GateIsHeld'
    BY <1>1, <1>2 DEF WritePrepared, GateIsHeld, Busy, StepsAreCovered, Command
<1>6. OneIsBusy'
    BY <1>1, <1>2 DEF WritePrepared, OneIsBusy, Busy, StepsAreCovered
<1>7. QuarantinesArePending' /\ CompletedIsGone' /\ ReceiptsNameTheirData'
    BY <1>1, <1>2 DEF WritePrepared, QuarantinesArePending, CompletedIsGone,
       ReceiptsNameTheirData, Busy, StepsAreCovered
<1>8. TokensNameLifetimes' /\ EvidenceIsExact' /\ PurgedWasSealed'
    BY DEF WritePrepared, TokensNameLifetimes, EvidenceIsExact, PurgedWasSealed
<1>9. BusyIsFree'
    BY <1>1, <1>2 DEF WritePrepared, BusyIsFree, Busy, StepsAreCovered
<1>10. StepsAreCovered'
    BY <1>1, <1>2 DEF WritePrepared, StepsAreCovered, Busy, Command
<1> QED
    BY <1>3, <1>4, <1>5, <1>6, <1>7, <1>8, <1>9, <1>10

LEMMA WriteQuarantinedKeeps ==
    ASSUME PurgeInv, WriteQuarantined
    PROVE  PurgeInv'
<1> USE DEF PurgeInv
<1>1. named.life \in Lifetime
    BY DEF WriteQuarantined, StepsAreCovered
<1>2. /\ stub' \in [Lifetime -> {"absent", "prepared", "quarantined", "completed"}]
      /\ recorded' \in [Lifetime -> Plans]
      /\ stub'[named.life] = "quarantined" /\ recorded'[named.life] = named
      /\ \A l \in Lifetime : l # named.life => stub'[l] = stub[l] /\ recorded'[l] = recorded[l]
    BY <1>1, WriteShape DEF WriteQuarantined
<1>3. PurgeTypeOK'
    BY <1>2 DEF WriteQuarantined, PurgeTypeOK, Command
<1>4. JournalTypeOK'
    BY DEF WriteQuarantined, JournalTypeOK
<1>5. GateIsHeld'
    BY <1>1, <1>2 DEF WriteQuarantined, GateIsHeld, Busy, StepsAreCovered, Command
<1>6. OneIsBusy'
    BY <1>1, <1>2 DEF WriteQuarantined, OneIsBusy, Busy, StepsAreCovered
<1>7. QuarantinesArePending' /\ CompletedIsGone' /\ ReceiptsNameTheirData'
    BY <1>1, <1>2 DEF WriteQuarantined, QuarantinesArePending, CompletedIsGone,
       ReceiptsNameTheirData, Busy, StepsAreCovered
<1>8. TokensNameLifetimes' /\ EvidenceIsExact' /\ PurgedWasSealed'
    BY DEF WriteQuarantined, TokensNameLifetimes, EvidenceIsExact, PurgedWasSealed
<1>9. BusyIsFree'
    BY <1>1, <1>2 DEF WriteQuarantined, BusyIsFree, Busy, StepsAreCovered
<1>10. StepsAreCovered'
    BY <1>1, <1>2 DEF WriteQuarantined, StepsAreCovered, Busy, Command
<1> QED
    BY <1>3, <1>4, <1>5, <1>6, <1>7, <1>8, <1>9, <1>10

LEMMA WriteCompletedKeeps ==
    ASSUME PurgeInv, WriteCompleted
    PROVE  PurgeInv'
<1> USE DEF PurgeInv
<1>1. named.life \in Lifetime
    BY DEF WriteCompleted, StepsAreCovered
<1>2. /\ stub' \in [Lifetime -> {"absent", "prepared", "quarantined", "completed"}]
      /\ recorded' \in [Lifetime -> Plans]
      /\ stub'[named.life] = "completed" /\ recorded'[named.life] = named
      /\ \A l \in Lifetime : l # named.life => stub'[l] = stub[l] /\ recorded'[l] = recorded[l]
    BY <1>1, WriteShape DEF WriteCompleted
<1>3. PurgeTypeOK'
    BY <1>2 DEF WriteCompleted, PurgeTypeOK, Leave, NoPlan, Plans
<1>4. JournalTypeOK'
    BY DEF WriteCompleted, JournalTypeOK
<1>5. GateIsHeld'
    BY <1>1, <1>2 DEF WriteCompleted, GateIsHeld, Busy, StepsAreCovered, Leave
<1>6. OneIsBusy'
    BY <1>1, <1>2 DEF WriteCompleted, OneIsBusy, Busy, StepsAreCovered
<1>7. QuarantinesArePending' /\ CompletedIsGone' /\ ReceiptsNameTheirData'
    BY <1>1, <1>2 DEF WriteCompleted, QuarantinesArePending, CompletedIsGone,
       ReceiptsNameTheirData, Busy, StepsAreCovered
<1>8. TokensNameLifetimes' /\ EvidenceIsExact' /\ PurgedWasSealed'
    BY DEF WriteCompleted, TokensNameLifetimes, EvidenceIsExact, PurgedWasSealed
<1>9. BusyIsFree'
    BY <1>1, <1>2 DEF WriteCompleted, BusyIsFree, Busy, StepsAreCovered
<1>10. StepsAreCovered'
    BY <1>1, <1>2 DEF WriteCompleted, StepsAreCovered, Busy, Leave
<1> QED
    BY <1>3, <1>4, <1>5, <1>6, <1>7, <1>8, <1>9, <1>10

LEMMA MoveKeeps ==
    ASSUME PurgeInv, Move
    PROVE  PurgeInv'
<1> USE DEF PurgeInv
<1>1. PurgeTypeOK'
    BY DEF Move, PurgeTypeOK, Command, NoEvidence, Evidences
<1>2. JournalTypeOK'
  <2>1. operations' = <<>>
      BY DEF Move
  <2> QED
      BY <2>1 DEF JournalTypeOK
<1>3. GateIsHeld'
    BY DEF Move, Command, GateIsHeld, Busy
<1>4. OneIsBusy' /\ CompletedIsGone' /\ ReceiptsNameTheirData' /\ TokensNameLifetimes'
    BY DEF Move, OneIsBusy, CompletedIsGone, ReceiptsNameTheirData, TokensNameLifetimes, Busy
<1>5. QuarantinesArePending'
    BY DEF Move, QuarantinesArePending, StepsAreCovered, Busy, PurgeTypeOK
<1>6. EvidenceIsExact' /\ BusyIsFree'
    BY DEF Move, EvidenceIsExact, BusyIsFree, NoEvidence
<1>7. StepsAreCovered'
    BY DEF Move, Command, StepsAreCovered, Busy
<1>8. PurgedWasSealed'
  <2>1. evidence.sameRows /\ root = named.life /\ evidence.id = named.evidence
      BY DEF Move, StepsAreCovered
  <2>2. ~leased
      BY <2>1 DEF Move, StepsAreCovered, EvidenceIsExact, BusyIsFree
  <2>3. taken' = [taken EXCEPT ![named.life] = "sealed"]
      BY <2>1, <2>2 DEF Move
  <2> QED
      BY <2>3 DEF PurgedWasSealed, PurgeTypeOK
<1> QED
    BY <1>1, <1>2, <1>3, <1>4, <1>5, <1>6, <1>7, <1>8

LEMMA DeleteKeeps ==
    ASSUME PurgeInv, Delete
    PROVE  PurgeInv'
<1> USE DEF PurgeInv
<1>1. PurgeTypeOK'
    BY DEF Delete, PurgeTypeOK, Command
<1>2. JournalTypeOK' /\ GateIsHeld'
    BY DEF Delete, JournalTypeOK, GateIsHeld, Command, Busy
<1>3. OneIsBusy' /\ CompletedIsGone' /\ ReceiptsNameTheirData' /\ TokensNameLifetimes'
    BY DEF Delete, OneIsBusy, CompletedIsGone, ReceiptsNameTheirData, TokensNameLifetimes, Busy
<1>4. QuarantinesArePending'
    BY DEF Delete, QuarantinesArePending, StepsAreCovered, Busy, PurgeTypeOK
<1>5. EvidenceIsExact' /\ BusyIsFree' /\ PurgedWasSealed'
    BY DEF Delete, EvidenceIsExact, BusyIsFree, PurgedWasSealed, Busy
<1>6. StepsAreCovered'
    BY DEF Delete, Command, StepsAreCovered, Busy, PurgeTypeOK
<1> QED
    BY <1>1, <1>2, <1>3, <1>4, <1>5, <1>6

-----------------------------------------------------------------------------
LEMMA PurgeInvNext == PurgeInv /\ [PurgeNext]_purgeVars => PurgeInv'
<1>1. ASSUME PurgeInv, PurgeNext PROVE PurgeInv'
    BY <1>1, StartServiceKeeps, StartDaemonKeeps, DaemonWritesKeeps, DaemonEndsKeeps,
       SwitchStartKeeps, TimePassesKeeps, BeginRemovalKeeps, AskToStopKeeps,
       DaemonSealsKeeps, FindStoppedKeeps, FinishRemovalKeeps, CheckKeeps, ConfirmPlanKeeps, LookKeeps,
       AuthoriseKeeps, WritePreparedKeeps, FinishKeeps, MoveKeeps, WriteQuarantinedKeeps,
       DeleteKeeps, DeletedKeeps, WriteCompletedKeeps, PurgeEndsKeeps, RepairCheckKeeps,
       ApplyRepairKeeps, ChildTakesGateKeeps, ChildSealsKeeps, RecordRepairKeeps,
       RepairFailsKeeps, RepairExpiresKeeps
       DEF PurgeNext
<1>2. ASSUME PurgeInv, UNCHANGED purgeVars PROVE PurgeInv'
    BY <1>2 DEF purgeVars, PurgeInv, PurgeTypeOK, JournalTypeOK, GateIsHeld, OneIsBusy,
       QuarantinesArePending,
       CompletedIsGone, ReceiptsNameTheirData, TokensNameLifetimes, EvidenceIsExact, BusyIsFree,
       StepsAreCovered, PurgedWasSealed, Busy
<1> QED
    BY <1>1, <1>2

LEMMA PurgeInvariant == PurgeSpec => []PurgeInv
    BY PurgeInvInit, PurgeInvNext, PTL DEF PurgeSpec

(* Type correctness of the data, the receipts and the commands.            *)
THEOREM PurgeTypes == PurgeSpec => []PurgeTypeOK
<1>1. PurgeInv => PurgeTypeOK
    BY DEF PurgeInv
<1> QED
    BY <1>1, PurgeInvariant, PTL

(* However a purge is interrupted and resumed, and whoever writes to the   *)
(* data root meanwhile, what it takes away is the lifetime it was planned  *)
(* for, as sealed and with no lease left open.                             *)
THEOREM OnlySealedDataArePurged == PurgeSpec => []PurgedWasSealed
<1>1. PurgeInv => PurgedWasSealed
    BY DEF PurgeInv
<1> QED
    BY <1>1, PurgeInvariant, PTL

(* No Daemon runs while a purge has begun, a completed purge leaves        *)
(* nothing of its lifetime, and no two purges are under way.               *)
THEOREM LifetimesAreApart == PurgeSpec => []LifetimesDoNotOverlap
<1>1. PurgeInv => LifetimesDoNotOverlap
    BY DEF PurgeInv, LifetimesDoNotOverlap, GateIsHeld, OneIsBusy, QuarantinesArePending,
       CompletedIsGone, Busy
<1> QED
    BY <1>1, PurgeInvariant, PTL
=============================================================================
