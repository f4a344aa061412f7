------------------------ MODULE BankDownloads_proof ------------------------
(***************************************************************************)
(* For any number of jobs, credentials, masks and HTTP calls: a job with   *)
(* explicit masks writes accounts of another login only where the digits   *)
(* of a mask are shared, the worker's conditional close leaks no session,  *)
(* and the worker is a serial queue of jobs.                               *)
(***************************************************************************)
EXTENDS BankDownloads, TLAPS

LEMMA CallersFacts == Jobs \subseteq Callers /\ Lists \subseteq Callers /\ Jobs \cap Lists = {}
BY NamesAssumption DEF Callers

-----------------------------------------------------------------------------
(* Type correctness.                                                       *)

LEMMA TypeInit == Init => TypeOK
<1> SUFFICES ASSUME Init
             PROVE  TypeOK
  OBVIOUS
<1>1. order \in [Callers -> [credential : Credentials \cup {Nobody}, what : AllWhats,
                             whole : BOOLEAN, all : BOOLEAN]]
  BY DEF Init, NoOrder, AllWhats
<1>2. count \in [Jobs -> 0 .. Masks] /\ stalls \in [Jobs -> 0 .. 1]
  BY BoundsAssumption DEF Init
<1>3. held \in [Jobs -> SUBSET Credentials] /\ files \in [Jobs -> SUBSET Credentials]
  BY DEF Init
<1>4. pc \in [Callers -> Listing \cup Ended \cup
               {"new", "waiting", "stalled", "fetching", "ending", "closing", "closingTab"}]
  BY DEF Init
<1>5. /\ queue \in Seq(Jobs)
      /\ seen \in [Callers -> Credentials \cup {Nobody}]
      /\ masks \in [Jobs -> Credentials \cup {Nobody}]
      /\ result \in [Jobs -> Ended]
      /\ lastEnd \in Ends
  BY DEF Init, Ended, Ends
<1>6. /\ tab \in BOOLEAN
      /\ session \in Credentials \cup {Nobody} /\ login \in Credentials \cup {Nobody}
      /\ active \in Jobs \cup {NoJob}
  BY DEF Init
<1> QED
  BY <1>1, <1>2, <1>3, <1>4, <1>5, <1>6 DEF TypeOK

LEMMA TypeRequest ==
  ASSUME TypeOK, Request
  PROVE  TypeOK'
<1> USE CallersFacts DEF TypeOK, browser, work
<1>1. ASSUME NEW j \in Jobs, NEW o \in Orders, Enqueue(j, o)
      PROVE  TypeOK'
  <2>1. queue' \in Seq(Jobs)
    BY <1>1 DEF Enqueue
  <2>2. order' \in [Callers -> [credential : Credentials \cup {Nobody}, what : AllWhats,
                                whole : BOOLEAN, all : BOOLEAN]]
    BY <1>1, BoundsAssumption DEF Enqueue, AllOrders, Requests
  <2>3. masks' \in [Jobs -> Credentials \cup {Nobody}]
    BY <1>1, BoundsAssumption DEF Enqueue, AllOrders, Requests
  <2> QED
    BY <1>1, <2>1, <2>2, <2>3 DEF Enqueue, Goto
<1>2. ASSUME NEW l \in Lists, NEW c \in Credentials, CallList(l, c)
      PROVE  TypeOK'
  BY <1>2 DEF CallList, Goto, NoOrder, AllWhats, Listing
<1> QED
  BY <1>1, <1>2 DEF Request

LEMMA TypeWorker ==
  ASSUME TypeOK, Take \/ Restart \/ \E j \in Jobs : Recover(j)
  PROVE  TypeOK'
<1> USE CallersFacts DEF TypeOK, browser, work
<1>1. CASE Take
  <2>1. Head(queue) \in Jobs /\ Tail(queue) \in Seq(Jobs)
    BY <1>1 DEF Take, WorkerIsFree
  <2> QED
    BY <1>1, <2>1 DEF Take, Goto, Listing
<1>2. CASE Restart
  <2>1. active \in Jobs
    BY <1>2 DEF Restart
  <2>2. pc' \in [Callers -> Listing \cup Ended \cup
               {"new", "waiting", "stalled", "fetching", "ending", "closing", "closingTab"}]
    BY <1>2, <2>1 DEF Restart, Ended
  <2> QED
    BY <1>2, <2>1, <2>2, BoundsAssumption DEF Restart, Forget, Ends
<1>3. ASSUME NEW j \in Jobs, Recover(j)
      PROVE  TypeOK'
  <2>1. <<j>> \o queue \in Seq(Jobs)
    OBVIOUS
  <2>2. stalls' \in [Jobs -> 0 .. 1] /\ queue' \in Seq(Jobs)
    <3>1. CASE stalls[j] = 0
      <4>1. stalls' = [stalls EXCEPT ![j] = 1] /\ queue' = <<j>> \o queue
        BY <1>3, <3>1 DEF Recover
      <4>2. stalls' \in [Jobs -> 0 .. 1]
        BY <4>1
      <4> QED
        BY <2>1, <4>1, <4>2
    <3>2. CASE stalls[j] = 1
      BY <1>3, <3>2 DEF Recover
    <3> QED
      BY <3>1, <3>2
  <2>3. pc' \in [Callers -> Listing \cup Ended \cup
               {"new", "waiting", "stalled", "fetching", "ending", "closing", "closingTab"}]
    BY <1>3 DEF Recover, Goto, Ended
  <2> QED
    BY <1>3, <2>2, <2>3 DEF Recover
<1> QED
  BY <1>1, <1>2, <1>3

LEMMA TypeListStep ==
  ASSUME TypeOK, NEW p \in Callers, ListStep(p)
  PROVE  TypeOK'
<1> USE CallersFacts DEF TypeOK, browser, work, Goto, Listing
<1>1. CASE GetAllAccounts(p)
  BY <1>1 DEF GetAllAccounts
<1>2. CASE ProbeFails(p)
  BY <1>2 DEF ProbeFails
<1>3. CASE SubmitLogin(p)
  BY <1>3 DEF SubmitLogin, CredentialIdOf
<1>4. CASE ListingThrows(p)
  BY <1>4 DEF ListingThrows, Finish, Ended, Ends
<1> QED
  BY <1>1, <1>2, <1>3, <1>4 DEF ListStep

LEMMA TypeJobStep ==
  ASSUME TypeOK, NEW j \in Jobs, JobStep(j)
  PROVE  TypeOK'
<1> USE CallersFacts DEF TypeOK, browser, work, Goto
<1>1. CASE ListStep(j)
  BY <1>1, TypeListStep
<1>2. CASE ResolveMasks(j)
  BY <1>2 DEF ResolveMasks
<1>3. CASE FetchMask(j)
  <2>1. count[j] + 1 \in 0 .. Masks /\ session \in Credentials
    BY <1>3, BoundsAssumption DEF FetchMask, Fetching, Reachable
  <2>2. held' \in [Jobs -> SUBSET Credentials] /\ files' \in [Jobs -> SUBSET Credentials]
    <3>1. held[j] \cup {session} \in SUBSET Credentials /\ files[j] \cup {session} \in SUBSET Credentials
      BY <2>1
    <3>2. CASE order[j].what = "transactions"
      BY <1>3, <3>1, <3>2 DEF FetchMask
    <3>3. CASE order[j].what # "transactions"
      BY <1>3, <3>1, <3>3 DEF FetchMask
    <3> QED
      BY <3>2, <3>3
  <2>3. count' \in [Jobs -> 0 .. Masks]
    BY <1>3, <2>1 DEF FetchMask
  <2> QED
    BY <1>3, <2>2, <2>3 DEF FetchMask
<1>4. CASE FetchFails(j)
  <2>1. count[j] + 1 \in 0 .. Masks /\ 0 \in 0 .. Masks
    BY <1>4, BoundsAssumption DEF FetchFails, Fetching
  <2>2. CASE order[j].what = "checks"
    <3>1. count' = [count EXCEPT ![j] = @ + 1] /\ UNCHANGED <<pc, masks, held, result>>
      BY <1>4, <2>2 DEF FetchFails
    <3>2. count' \in [Jobs -> 0 .. Masks]
      BY <2>1, <3>1
    <3> QED
      BY <1>4, <3>1, <3>2 DEF FetchFails
  <2>3. CASE order[j].what # "checks"
    <3>1. Forget(j) /\ result' = [result EXCEPT ![j] = "failed"] /\ pc' = [pc EXCEPT ![j] = "ending"]
      BY <1>4, <2>3 DEF FetchFails
    <3>2. /\ count' \in [Jobs -> 0 .. Masks] /\ held' \in [Jobs -> SUBSET Credentials]
          /\ masks' \in [Jobs -> Credentials \cup {Nobody}]
      BY <2>1, <3>1 DEF Forget
    <3>3. result' \in [Jobs -> Ended]
      BY <3>1 DEF Ended
    <3> QED
      BY <1>4, <3>1, <3>2, <3>3 DEF FetchFails
  <2> QED
    BY <2>2, <2>3
<1>5. CASE Save(j)
  BY <1>5, BoundsAssumption DEF Save, Forget, Ended
<1>6. CASE CheckPending(j)
  BY <1>6 DEF CheckPending, Finish, Ended, Ends
<1>7. CASE EndSession(j)
  BY <1>7 DEF EndSession, Finish, Ended, Ends
<1>8. CASE CloseTab(j)
  BY <1>8 DEF CloseTab, Finish, Ended
<1>9. CASE EndSessionFails(j)
  BY <1>9 DEF EndSessionFails, Finish, Ended, Ends
<1>10. CASE DownloadThrows(j)
  BY <1>10, BoundsAssumption DEF DownloadThrows, Forget, Ended
<1> QED
  BY <1>1, <1>2, <1>3, <1>4, <1>5, <1>6, <1>7, <1>8, <1>9, <1>10 DEF JobStep

LEMMA TypeStep == TypeOK /\ [Next]_vars => TypeOK'
<1> SUFFICES ASSUME TypeOK, [Next]_vars
             PROVE  TypeOK'
  OBVIOUS
<1>1. ASSUME NEW l \in Lists, RespondList(l)
      PROVE  TypeOK'
  BY <1>1, CallersFacts DEF RespondList, TypeOK, Goto, browser, work, Ended
<1>2. CASE LoginAnswered \/ SessionExpires \/ TabClosed
  BY <1>2 DEF LoginAnswered, SessionExpires, TabClosed, TypeOK, work
<1>3. CASE UNCHANGED vars
  BY <1>3 DEF vars, browser, work, TypeOK
<1> QED
  BY <1>1, <1>2, <1>3, TypeRequest, TypeWorker, TypeListStep, TypeJobStep, CallersFacts DEF Next

\* Every reachable state of the worker is well formed; no job goes through more
\* accounts than it was given.
THEOREM TypeCorrect == Spec => []TypeOK
BY TypeInit, TypeStep, PTL DEF Spec

-----------------------------------------------------------------------------
(* Nothing becomes new again, and the queue holds no new job.              *)

AgesOnly == \A p \in Callers : pc'[p] = "new" => pc[p] = "new"

LEMMA AgesOnlyStep ==
  ASSUME TypeOK, [Next]_vars
  PROVE  AgesOnly
<1> USE CallersFacts DEF AgesOnly, TypeOK, Goto
<1>1. ASSUME Request
      PROVE  AgesOnly
  BY <1>1 DEF Request, Enqueue, CallList
<1>2. CASE Take
  BY <1>2 DEF Take, WorkerIsFree
<1>3. CASE Restart
  BY <1>3 DEF Restart
<1>4. ASSUME NEW p \in Callers, ListStep(p)
      PROVE  AgesOnly
  BY <1>4 DEF ListStep, GetAllAccounts, ProbeFails, SubmitLogin, ListingThrows, Finish
<1>5. ASSUME NEW j \in Jobs, JobStep(j), ~ListStep(j)
      PROVE  AgesOnly
  <2>1. result[j] # "new"
    BY DEF Ended
  <2> QED
    BY <1>5, <2>1 DEF JobStep, ResolveMasks, FetchMask, FetchFails, Forget, Save, DownloadThrows, CheckPending,
                      EndSession, CloseTab, EndSessionFails, Finish
<1>6. ASSUME NEW l \in Lists, RespondList(l)
      PROVE  AgesOnly
  BY <1>6 DEF RespondList
<1>7. CASE LoginAnswered \/ SessionExpires \/ TabClosed \/ UNCHANGED vars
  BY <1>7 DEF LoginAnswered, SessionExpires, TabClosed, vars
<1>8. ASSUME NEW j \in Jobs, Recover(j)
      PROVE  AgesOnly
  BY <1>8 DEF Recover
<1> QED
  BY <1>1, <1>2, <1>3, <1>4, <1>5, <1>6, <1>7, <1>8 DEF Next

QueueStarted ==
  /\ \A i \in 1 .. Len(queue) : pc[queue[i]] # "new"
  /\ active # NoJob => pc[active] # "new"

\* What a step does to the worker and to the queue.
LEMMA ActiveMoves ==
  ASSUME [Next]_vars
  PROVE  active' \in {active, NoJob} \/ (queue # <<>> /\ active' = Head(queue))
<1>1. CASE Request \/ Take \/ Restart
  BY <1>1 DEF Request, Enqueue, CallList, Take, WorkerIsFree, Restart
<1>2. ASSUME NEW p \in Callers, ListStep(p)
      PROVE  active' \in {active, NoJob}
  BY <1>2 DEF ListStep, GetAllAccounts, ProbeFails, SubmitLogin, ListingThrows, Finish
<1>3. ASSUME NEW j \in Jobs, JobStep(j), ~ListStep(j)
      PROVE  active' \in {active, NoJob}
  BY <1>3 DEF JobStep, ResolveMasks, FetchMask, FetchFails, Forget, Save, DownloadThrows, CheckPending,
              EndSession, CloseTab, EndSessionFails, Finish
<1>4. CASE \E l \in Lists : RespondList(l)
  BY <1>4 DEF RespondList
<1>5. CASE LoginAnswered \/ SessionExpires \/ TabClosed \/ UNCHANGED vars
  BY <1>5 DEF LoginAnswered, SessionExpires, TabClosed, vars
<1>6. CASE \E j \in Jobs : Recover(j)
  BY <1>6 DEF Recover
<1> QED
  BY <1>1, <1>2, <1>3, <1>4, <1>5, <1>6, CallersFacts DEF Next

LEMMA QueueMoves ==
  ASSUME TypeOK, [Next]_vars
  PROVE  \/ queue' = queue
         \/ queue # <<>> /\ queue' = Tail(queue)
         \/ \E j \in Jobs : queue' = Append(queue, j) /\ pc'[j] # "new"
         \/ \E j \in Jobs : queue' = <<j>> \o queue /\ pc'[j] # "new"
<1>1. CASE Request
  BY <1>1, CallersFacts DEF Request, Enqueue, CallList, Goto, TypeOK
<1>2. CASE Take
  BY <1>2 DEF Take, WorkerIsFree
<1>3. CASE Restart
  BY <1>3 DEF Restart
<1>4. ASSUME NEW p \in Callers, ListStep(p)
      PROVE  queue' = queue
  BY <1>4 DEF ListStep, GetAllAccounts, ProbeFails, SubmitLogin, ListingThrows
<1>5. ASSUME NEW j \in Jobs, JobStep(j), ~ListStep(j)
      PROVE  queue' = queue
  BY <1>5 DEF JobStep, ResolveMasks, FetchMask, FetchFails, Forget, Save, DownloadThrows, CheckPending,
              EndSession, CloseTab, EndSessionFails
<1>6. CASE \E l \in Lists : RespondList(l)
  BY <1>6 DEF RespondList
<1>7. CASE LoginAnswered \/ SessionExpires \/ TabClosed \/ UNCHANGED vars
  BY <1>7 DEF LoginAnswered, SessionExpires, TabClosed, vars
<1>8. ASSUME NEW j \in Jobs, Recover(j)
      PROVE  queue' \in {queue, <<j>> \o queue} /\ pc'[j] # "new"
  BY <1>8, CallersFacts DEF Recover, Goto, TypeOK
<1> QED
  BY <1>1, <1>2, <1>3, <1>4, <1>5, <1>6, <1>7, <1>8, CallersFacts DEF Next

LEMMA QueueStartedStep ==
  ASSUME TypeOK, TypeOK', QueueStarted, [Next]_vars
  PROVE  QueueStarted'
<1> USE CallersFacts
<1>1. AgesOnly
  BY AgesOnlyStep
<1>2. queue \in Seq(Jobs) /\ queue' \in Seq(Jobs)
  BY DEF TypeOK
<1>3. \A j \in Jobs : pc'[j] = "new" => pc[j] = "new"
  BY <1>1 DEF AgesOnly
<1>4. \A i \in 1 .. Len(queue) : queue[i] \in Jobs /\ pc'[queue[i]] # "new"
  BY <1>2, <1>3 DEF QueueStarted
<1>9. active' # NoJob => pc'[active'] # "new"
  <2>1. active \in Jobs \cup {NoJob}
    BY DEF TypeOK
  <2>2. queue # <<>> => Head(queue) \in Jobs /\ pc'[Head(queue)] # "new"
    BY <1>2, <1>4
  <2> QED
    BY <1>3, <2>1, <2>2, ActiveMoves DEF QueueStarted
<1> DEFINE Q == \A i \in 1 .. Len(queue) : pc[queue[i]] # "new"
<1>5. ASSUME queue' = queue
      PROVE  Q'
  BY <1>4, <1>5
<1>6. ASSUME queue # <<>>, queue' = Tail(queue)
      PROVE  Q'
  BY <1>2, <1>4, <1>6
<1>7. ASSUME NEW j \in Jobs, queue' = Append(queue, j), pc'[j] # "new"
      PROVE  Q'
  BY <1>2, <1>4, <1>7
<1>8. ASSUME NEW j \in Jobs, queue' = <<j>> \o queue, pc'[j] # "new"
      PROVE  Q'
  BY <1>2, <1>4, <1>8
<1> QED
  BY <1>5, <1>6, <1>7, <1>8, <1>9, QueueMoves DEF QueueStarted

-----------------------------------------------------------------------------
(* A job with explicit masks writes the accounts that show one of them.    *)

\* A new job holds nothing; one with explicit masks keeps them, and holds and
\* writes only what they name.
OwnMasks ==
  \A j \in Jobs :
    /\ pc[j] = "new" => held[j] = {} /\ files[j] = {}
    /\ pc[j] # "new" /\ ~order[j].all =>
         /\ masks[j] = CredentialIdOf(j)
         /\ held[j] \subseteq Showing(CredentialIdOf(j))
         /\ files[j] \subseteq Showing(CredentialIdOf(j))

LEMMA OwnInit == Init => OwnMasks
BY CallersFacts DEF Init, OwnMasks

\* Requests and the worker: masks are set with the order, and cleared only for a
\* job that asked for all accounts.
LEMMA OwnRequest ==
  ASSUME TypeOK, QueueStarted, OwnMasks,
         Request \/ Take \/ Restart \/ \E j \in Jobs : Recover(j)
  PROVE  OwnMasks'
<1> USE CallersFacts DEF TypeOK, OwnMasks, CredentialIdOf, browser, work, Goto
<1>1. ASSUME NEW j \in Jobs, NEW o \in Orders, Enqueue(j, o)
      PROVE  OwnMasks'
  <2>1. pc[j] = "new" /\ held[j] = {} /\ files[j] = {} /\ held' = held /\ files' = files
    BY <1>1 DEF Enqueue
  <2>2. /\ pc' = [pc EXCEPT ![j] = "waiting"]
        /\ order' = [order EXCEPT ![j] = o]
        /\ ~o.all => masks' = [masks EXCEPT ![j] = o.credential]
        /\ \A k \in Jobs \ {j} : masks'[k] = masks[k]
    BY <1>1 DEF Enqueue
  <2>3. ASSUME NEW k \in Jobs, k # j
        PROVE  /\ pc'[k] = pc[k] /\ order'[k] = order[k] /\ masks'[k] = masks[k]
               /\ held'[k] = held[k] /\ files'[k] = files[k]
    BY <2>1, <2>2, <2>3
  <2>4. /\ pc'[j] = "waiting" /\ order'[j] = o
        /\ ~o.all => masks'[j] = o.credential
        /\ held'[j] = {} /\ files'[j] = {}
    BY <2>1, <2>2
  <2> QED
    BY <2>3, <2>4
<1>2. ASSUME NEW l \in Lists, NEW c \in Credentials, CallList(l, c)
      PROVE  OwnMasks'
  BY <1>2 DEF CallList
<1>3. CASE Take
  <2>1. Head(queue) \in Jobs
    BY <1>3 DEF Take, WorkerIsFree
  <2>2. pc[Head(queue)] # "new"
    BY <1>3 DEF Take, WorkerIsFree, QueueStarted
  <2> QED
    BY <1>3, <2>1, <2>2 DEF Take
<1>4. CASE Restart
  <2>1. active \in Jobs /\ pc[active] # "new"
    BY <1>4 DEF Restart, QueueStarted
  <2>2. /\ order' = order /\ files' = files
        /\ masks' = [masks EXCEPT ![active] = IF order[active].all THEN Nobody ELSE @]
        /\ held' = [held EXCEPT ![active] = {}]
        /\ \A k \in Jobs \ {active} : pc'[k] = pc[k]
        /\ pc'[active] # "new"
    BY <1>4, <2>1 DEF Restart, Forget
  <2>3. ASSUME NEW k \in Jobs, k # active
        PROVE  /\ pc'[k] = pc[k] /\ order'[k] = order[k] /\ masks'[k] = masks[k]
               /\ held'[k] = held[k] /\ files'[k] = files[k]
    BY <2>2, <2>3
  <2>4. /\ order'[active] = order[active] /\ files'[active] = files[active]
        /\ ~order[active].all => masks'[active] = masks[active]
        /\ held'[active] = {}
    BY <2>1, <2>2
  <2> QED
    BY <2>1, <2>2, <2>3, <2>4
<1>5. ASSUME NEW j \in Jobs, Recover(j)
      PROVE  OwnMasks'
  BY <1>5 DEF Recover
<1> QED
  BY <1>1, <1>2, <1>3, <1>4, <1>5 DEF Request

\* A download holds and writes the data of the session it found its mask in.
LEMMA OwnJobStep ==
  ASSUME TypeOK, OwnMasks, NEW j \in Jobs, JobStep(j)
  PROVE  OwnMasks'
<1> USE CallersFacts DEF TypeOK, Goto
<1>1. /\ order' = order
      /\ \A k \in Jobs \ {j} :
           pc'[k] = pc[k] /\ masks'[k] = masks[k] /\ held'[k] = held[k] /\ files'[k] = files[k]
  BY DEF JobStep, ListStep, GetAllAccounts, ProbeFails, SubmitLogin, ListingThrows,
         ResolveMasks, FetchMask, FetchFails, Forget, Save, DownloadThrows, CheckPending, EndSession, CloseTab,
         EndSessionFails, Finish, work
<1>2. pc[j] # "new" /\ pc'[j] # "new"
  <2>1. result[j] # "new"
    BY DEF Ended
  <2> QED
    BY <2>1 DEF JobStep, ListStep, GetAllAccounts, ProbeFails, SubmitLogin, ListingThrows,
         ResolveMasks, FetchMask, FetchFails, Forget, Save, DownloadThrows, CheckPending, EndSession, CloseTab,
         EndSessionFails, Finish, Listing, Fetching
<1>3. ~order[j].all => masks'[j] = masks[j]
  BY DEF JobStep, ListStep, GetAllAccounts, ProbeFails, SubmitLogin, ListingThrows,
         ResolveMasks, FetchMask, FetchFails, Forget, Save, DownloadThrows, CheckPending, EndSession, CloseTab,
         EndSessionFails, Finish, work
<1>4. /\ held'[j] \subseteq held[j] \cup Showing(masks[j])
      /\ files'[j] \subseteq files[j] \cup held[j] \cup Showing(masks[j])
  <2>1. CASE FetchMask(j)
    BY <2>1 DEF FetchMask, MaskFound
  <2>2. CASE Save(j)
    BY <2>2 DEF Save, Forget
  <2>3. CASE DownloadThrows(j)
    BY <2>3 DEF DownloadThrows, Forget
  <2>4. CASE ~FetchMask(j) /\ ~Save(j) /\ ~DownloadThrows(j)
    BY <2>4 DEF JobStep, ListStep, GetAllAccounts, ProbeFails, SubmitLogin, ListingThrows,
         ResolveMasks, FetchFails, Forget, CheckPending, EndSession, CloseTab,
         EndSessionFails, Finish, work
  <2> QED
    BY <2>1, <2>2, <2>3, <2>4
<1> QED
  BY <1>1, <1>2, <1>3, <1>4 DEF OwnMasks, CredentialIdOf

LEMMA OwnStep == TypeOK /\ QueueStarted /\ OwnMasks /\ [Next]_vars => OwnMasks'
<1> SUFFICES ASSUME TypeOK, QueueStarted, OwnMasks, [Next]_vars
             PROVE  OwnMasks'
  OBVIOUS
<1>1. ASSUME NEW l \in Lists, ListStep(l) \/ RespondList(l)
      PROVE  OwnMasks'
  BY <1>1, CallersFacts DEF ListStep, GetAllAccounts, ProbeFails, SubmitLogin, ListingThrows,
     RespondList, Goto, work, TypeOK, OwnMasks, CredentialIdOf
<1>2. CASE LoginAnswered \/ SessionExpires \/ TabClosed \/ UNCHANGED vars
  BY <1>2 DEF LoginAnswered, SessionExpires, TabClosed, vars, work, OwnMasks, CredentialIdOf
<1> QED
  BY <1>1, <1>2, OwnRequest, OwnJobStep DEF Next

\* Whatever session a job finds in the browser, and whatever happens to it between
\* two masks: another client's accounts are written only where digits are shared.
THEOREM OwnAccounts == Spec => []CrossesOnlyByDigits
<1>1. TypeOK /\ OwnMasks => CrossesOnlyByDigits
  <2> SUFFICES ASSUME TypeOK, OwnMasks, NEW j \in Jobs, ~order[j].all
               PROVE  files[j] \subseteq Showing(CredentialIdOf(j))
    BY DEF CrossesOnlyByDigits
  <2> QED
    BY DEF OwnMasks
<1>2. Init => QueueStarted
  BY DEF Init, QueueStarted
<1>3. TypeOK /\ TypeOK' /\ QueueStarted /\ [Next]_vars => QueueStarted'
  BY QueueStartedStep
<1> QED
  BY <1>1, <1>2, <1>3, OwnInit, OwnStep, TypeCorrect, PTL DEF Spec

-----------------------------------------------------------------------------
(* The worker leaks no session.                                            *)

Working == Listing \cup {"fetching", "ending", "closing", "closingTab"}

\* The worker's job is the only one that does anything.
OneWorks == \A j \in Jobs : pc[j] \in Working => j = active

\* After a clean logout, until the next job is taken, nobody is logged in and no
\* login is in flight; after an end that kept the session a job is waiting.
EndsClean ==
  /\ lastEnd = "closed" /\ Untouched /\ (active = NoJob \/ pc[active] = "closingTab")
       => session = Nobody /\ login = Nobody
  /\ lastEnd = "kept" /\ active = NoJob => queue # <<>>
  /\ \A j \in Jobs : pc[j] = "closingTab" => lastEnd \in {"closed", "broken"}

LEMMA OneWorksStep ==
  ASSUME TypeOK, OneWorks, [Next]_vars
  PROVE  OneWorks'
<1> USE CallersFacts DEF TypeOK, OneWorks, Working, Listing, Goto
<1>1. CASE Request
  BY <1>1 DEF Request, Enqueue, CallList
<1>2. CASE Take
  <2>1. Head(queue) \in Jobs
    BY <1>2 DEF Take, WorkerIsFree
  <2> QED
    BY <1>2, <2>1, NamesAssumption DEF Take, WorkerIsFree
<1>3. CASE Restart
  BY <1>3 DEF Restart
<1>4. ASSUME NEW l \in Lists, ListStep(l) \/ RespondList(l)
      PROVE  OneWorks'
  BY <1>4 DEF ListStep, GetAllAccounts, ProbeFails, SubmitLogin, ListingThrows, RespondList
<1>5. ASSUME NEW j \in Jobs, JobStep(j)
      PROVE  OneWorks'
  <2>1. j = active
    BY <1>5 DEF JobStep, ListStep, GetAllAccounts, ProbeFails, SubmitLogin, ListingThrows,
                ResolveMasks, FetchMask, FetchFails, Forget, Save, DownloadThrows, CheckPending,
                EndSession, CloseTab, EndSessionFails, Fetching
  <2>2. /\ \A k \in Jobs \ {j} : pc'[k] = pc[k]
        /\ active' = active \/ pc'[j] \notin Working
    BY <1>5 DEF JobStep, ListStep, GetAllAccounts, ProbeFails, SubmitLogin, ListingThrows,
                ResolveMasks, FetchMask, FetchFails, Forget, Save, DownloadThrows, CheckPending,
                EndSession, CloseTab, EndSessionFails, Finish, Ended
  <2> QED
    BY <2>1, <2>2
<1>6. CASE LoginAnswered \/ SessionExpires \/ TabClosed \/ UNCHANGED vars
  BY <1>6 DEF LoginAnswered, SessionExpires, TabClosed, vars
<1>7. ASSUME NEW j \in Jobs, Recover(j)
      PROVE  OneWorks'
  BY <1>7 DEF Recover
<1> QED
  BY <1>1, <1>2, <1>3, <1>4, <1>5, <1>6, <1>7 DEF Next

\* The steps of the worker's job; each action that ends the job says how.
LEMMA EndsCleanJobStep ==
  ASSUME TypeOK, OneWorks, EndsClean, NEW j \in Jobs, JobStep(j), Untouched' => Untouched
  PROVE  EndsClean'
<1> USE CallersFacts, NamesAssumption DEF TypeOK, OneWorks, EndsClean, Working, Listing, Goto
<1>1. j = active /\ active # NoJob
  BY DEF JobStep, ListStep, GetAllAccounts, ProbeFails, SubmitLogin, ListingThrows,
         ResolveMasks, FetchMask, FetchFails, Forget, Save, DownloadThrows, CheckPending,
         EndSession, CloseTab, EndSessionFails, Fetching
<1>2. CASE ListStep(j)
  <2>1. CASE GetAllAccounts(j) \/ ProbeFails(j) \/ SubmitLogin(j)
    BY <1>1, <2>1 DEF GetAllAccounts, ProbeFails, SubmitLogin
  <2>2. CASE ListingThrows(j)
    <3>1. /\ active' = NoJob /\ pc' = [pc EXCEPT ![j] = "failed"]
          /\ lastEnd' \in {"unguarded", "broken"}
      BY <2>2 DEF ListingThrows, Finish
    <3>2. \A k \in Jobs : pc'[k] = "closingTab" => pc[k] = "closingTab"
      BY <3>1
    <3>3. \A k \in Jobs : pc[k] # "closingTab"
      BY <1>1, <2>2 DEF ListingThrows
    <3> QED
      BY <3>1, <3>2, <3>3
  <2> QED
    BY <1>2, <2>1, <2>2 DEF ListStep
<1>3. CASE ResolveMasks(j) \/ FetchMask(j) \/ FetchFails(j) \/ Save(j) \/ DownloadThrows(j)
  BY <1>1, <1>3 DEF ResolveMasks, FetchMask, FetchFails, Forget, Save, DownloadThrows, Fetching
<1>4. CASE CheckPending(j)
  <2>1. SessionNeededByPending(j) => queue # <<>>
    BY DEF SessionNeededByPending, ToSet
  <2>2. result[j] # "closingTab"
    BY DEF Ended
  <2>3. CASE SessionNeededByPending(j)
    <3>1. /\ active' = NoJob /\ lastEnd' = "kept" /\ UNCHANGED queue
          /\ pc' = [pc EXCEPT ![j] = result[j]]
      BY <1>4, <2>3 DEF CheckPending, Finish
    <3>2. \A k \in Jobs : pc'[k] # "closingTab"
      BY <1>1, <1>4, <2>2, <3>1 DEF CheckPending
    <3> QED
      BY <2>1, <2>3, <3>1, <3>2
  <2>4. CASE ~SessionNeededByPending(j)
    BY <1>1, <1>4, <2>4 DEF CheckPending
  <2> QED
    BY <2>3, <2>4
<1>5. CASE EndSession(j)
  <2>1. result[j] # "closingTab"
    BY DEF Ended
  <2> QED
    BY <1>1, <1>5, <2>1 DEF EndSession, Finish
<1>6. CASE CloseTab(j)
  <2>1. result[j] # "closingTab"
    BY DEF Ended
  <2> QED
    BY <1>1, <1>6, <2>1 DEF CloseTab, Finish
<1>7. CASE EndSessionFails(j)
  <2>1. result[j] # "closingTab"
    BY DEF Ended
  <2> QED
    BY <1>1, <1>7, <2>1 DEF EndSessionFails, Finish
<1> QED
  BY <1>2, <1>3, <1>4, <1>5, <1>6, <1>7 DEF JobStep

LEMMA EndsCleanStep ==
  ASSUME TypeOK, OneWorks, EndsClean, [Next]_vars
  PROVE  EndsClean'
<1> USE CallersFacts, NamesAssumption DEF TypeOK, Goto
<1>1. Untouched' => Untouched
  BY AgesOnlyStep DEF AgesOnly, Untouched
<1>2. CASE Request
  BY <1>1, <1>2 DEF Request, Enqueue, CallList, EndsClean, browser
<1>3. CASE Take
  <2>1. Head(queue) \in Jobs
    BY <1>3 DEF Take, WorkerIsFree
  <2> QED
    BY <1>3, <2>1 DEF Take, WorkerIsFree, EndsClean, OneWorks, Working
<1>4. CASE Restart
  BY <1>4 DEF Restart, EndsClean
<1>5. ASSUME NEW l \in Lists, ListStep(l) \/ RespondList(l)
      PROVE  EndsClean'
  <2>1. ~Untouched'
    BY <1>5 DEF ListStep, GetAllAccounts, ProbeFails, SubmitLogin, ListingThrows,
                RespondList, Untouched
  <2>2. UNCHANGED <<active, queue, lastEnd>> /\ \A j \in Jobs : pc'[j] = pc[j]
    BY <1>5 DEF ListStep, GetAllAccounts, ProbeFails, SubmitLogin, ListingThrows, RespondList
  <2> QED
    BY <2>1, <2>2 DEF EndsClean
<1>6. ASSUME NEW j \in Jobs, JobStep(j)
      PROVE  EndsClean'
  BY <1>1, <1>6, EndsCleanJobStep
<1>7. CASE LoginAnswered \/ SessionExpires \/ TabClosed
  BY <1>7 DEF LoginAnswered, SessionExpires, TabClosed, EndsClean, Untouched
<1>8. CASE UNCHANGED vars
  BY <1>8 DEF vars, browser, EndsClean, Untouched
<1>9. ASSUME NEW j \in Jobs, Recover(j)
      PROVE  EndsClean'
  <2>1. <<j>> \o queue # <<>>
    BY DEF TypeOK
  <2> QED
    BY <1>1, <1>9, <2>1 DEF Recover, EndsClean, browser
<1> QED
  BY <1>2, <1>3, <1>4, <1>5, <1>6, <1>7, <1>8, <1>9 DEF Next

\* Whatever the jobs, their order and their credentials: once the queue has been
\* drained and the last finally went well, nobody is logged in.
THEOREM NoLeak == Spec => []NoSessionLeakedByFinally
<1>1. Init => OneWorks /\ EndsClean
  BY CallersFacts DEF Init, OneWorks, EndsClean, Working, Listing
<1>2. EndsClean => NoSessionLeakedByFinally
  BY DEF EndsClean, NoSessionLeakedByFinally, Idle
<1>3. TypeOK /\ OneWorks /\ [Next]_vars => OneWorks'
  BY OneWorksStep
<1>4. TypeOK /\ OneWorks /\ EndsClean /\ [Next]_vars => EndsClean'
  BY EndsCleanStep
<1> QED
  BY <1>1, <1>2, <1>3, <1>4, TypeCorrect, PTL DEF Spec

-----------------------------------------------------------------------------
(* The worker implements a serial queue of jobs.  The invariant it needs is *)
(* about where jobs are, seen from the queue.                              *)

\* A job that waits is queued once, and only such jobs are; the job of the worker
\* is the only active one.
Placed ==
  /\ \A i \in 1 .. Len(queue) : JobState[queue[i]] = "waiting"
  /\ \A i, k \in 1 .. Len(queue) : queue[i] = queue[k] => i = k
  /\ \A j \in Jobs : JobState[j] = "waiting" => \E i \in 1 .. Len(queue) : queue[i] = j
  /\ \A j \in Jobs : JobState[j] = "active" <=> active = j

LEMMA JobStates ==
  JobState \in [Jobs -> Ended \cup {"new", "waiting", "stalled", "active"}]
BY DEF JobState

\* A job as the queue sees it, by where it is.
LEMMA JobSeen ==
  ASSUME NEW j \in Jobs
  PROVE  /\ pc[j] \in Ended \cup {"new", "waiting", "stalled"} => JobState[j] = pc[j]
         /\ pc[j] \notin Ended \cup {"new", "waiting", "stalled"} => JobState[j] = "active"
BY DEF JobState

LEMMA JobSeenNext ==
  ASSUME NEW j \in Jobs
  PROVE  /\ pc'[j] \in Ended \cup {"new", "waiting", "stalled"} => JobState'[j] = pc'[j]
         /\ pc'[j] \notin Ended \cup {"new", "waiting", "stalled"} => JobState'[j] = "active"
BY DEF JobState

\* When one job moves, the queue sees that one move.
LEMMA OneJobMoves ==
  ASSUME NEW j \in Jobs, NEW r, JobState'[j] = r,
         \A k \in Jobs \ {j} : pc'[k] = pc[k]
  PROVE  JobState' = [JobState EXCEPT ![j] = r]
<1>1. \A k \in Jobs \ {j} : JobState'[k] = JobState[k]
  BY JobSeen, JobSeenNext
<1>2. JobState = [k \in Jobs |-> JobState[k]] /\ JobState' = [k \in Jobs |-> JobState'[k]]
  BY DEF JobState
<1> QED
  BY <1>1, <1>2

\* What a step of the queue does to Placed, whatever the worker's steps are.
LEMMA PlacedStep ==
  ASSUME TypeOK, TypeOK', Placed, Queue!Next \/ UNCHANGED Queue!vars
  PROVE  Placed'
<1>1. /\ queue \in Seq(Jobs) /\ queue' \in Seq(Jobs)
      /\ active \in Jobs \cup {NoJob}
      /\ JobState \in [Jobs -> Ended \cup {"new", "waiting", "stalled", "active"}]
      /\ JobState' \in [Jobs -> Ended \cup {"new", "waiting", "stalled", "active"}]
  <2>1. JobState' \in [Jobs -> Ended \cup {"new", "waiting", "stalled", "active"}]
    BY DEF JobState
  <2> QED
    BY <2>1, JobStates DEF TypeOK
<1> HIDE DEF JobState
<1>2. ASSUME NEW j \in Jobs, Queue!Submit(j)
      PROVE  Placed'
  <2>1. /\ JobState[j] = "new" /\ JobState' = [JobState EXCEPT ![j] = "waiting"]
        /\ queue' = Append(queue, j) /\ active' = active
    BY <1>2 DEF Queue!Submit
  <2>2. \A i \in 1 .. Len(queue) : queue[i] \in Jobs /\ queue[i] # j
    BY <1>1, <2>1 DEF Placed
  <2>3. /\ Len(queue') = Len(queue) + 1 /\ queue'[Len(queue) + 1] = j
        /\ \A i \in 1 .. Len(queue) : queue'[i] = queue[i]
    BY <1>1, <2>1
  <2> QED
    BY <1>1, <2>1, <2>2, <2>3 DEF Placed
<1>3. ASSUME NEW j \in Jobs, Queue!Begin(j)
      PROVE  Placed'
  <2>1. /\ active = NoJob /\ queue # <<>> /\ j = Head(queue)
        /\ JobState[j] = "waiting" /\ JobState' = [JobState EXCEPT ![j] = "active"]
        /\ queue' = Tail(queue) /\ active' = j
    BY <1>3 DEF Queue!Begin
  <2>2. /\ Len(queue) >= 1 /\ queue[1] = j /\ Len(queue') = Len(queue) - 1
        /\ \A i \in 1 .. Len(queue) - 1 : queue'[i] = queue[i + 1]
    BY <1>1, <2>1
  <2>3. \A i \in 1 .. Len(queue) - 1 : queue[i + 1] \in Jobs /\ queue[i + 1] # j
    BY <1>1, <2>2 DEF Placed
  <2>4. \A i \in 1 .. Len(queue') : JobState'[queue'[i]] = "waiting"
    <3> SUFFICES ASSUME NEW i \in 1 .. Len(queue) - 1
                 PROVE  JobState'[queue[i + 1]] = "waiting"
      BY <1>1, <2>2
    <3>1. JobState[queue[i + 1]] = "waiting"
      BY <1>1 DEF Placed
    <3> QED
      BY <1>1, <2>1, <2>3, <3>1
  <2>5. \A i, k \in 1 .. Len(queue') : queue'[i] = queue'[k] => i = k
    <3> SUFFICES ASSUME NEW i \in 1 .. Len(queue) - 1, NEW k \in 1 .. Len(queue) - 1,
                        queue[i + 1] = queue[k + 1]
                 PROVE  i = k
      BY <1>1, <2>2
    <3>1. i + 1 \in 1 .. Len(queue) /\ k + 1 \in 1 .. Len(queue)
      BY <1>1
    <3>2. i + 1 = k + 1
      BY <3>1 DEF Placed
    <3> QED
      BY <3>2
  <2>6. ASSUME NEW x \in Jobs, JobState'[x] = "waiting"
        PROVE  \E i \in 1 .. Len(queue') : queue'[i] = x
    <3>1. x # j /\ JobState[x] = "waiting"
      BY <1>1, <2>1, <2>6
    <3>2. PICK i \in 1 .. Len(queue) : queue[i] = x
      BY <3>1 DEF Placed
    <3>3. i # 1 /\ i - 1 \in 1 .. Len(queue') /\ queue'[i - 1] = x
      BY <1>1, <2>2, <3>1, <3>2
    <3> QED
      BY <3>3
  <2>7. \A x \in Jobs : JobState'[x] = "active" <=> active' = x
    BY <1>1, <2>1, NamesAssumption DEF Placed
  <2> QED
    BY <2>4, <2>5, <2>6, <2>7 DEF Placed
<1>4. ASSUME NEW j \in Jobs, Queue!Report(j)
      PROVE  Placed'
  BY <1>1, <1>4, NamesAssumption DEF Queue!Report, Placed
<1>5. ASSUME NEW j \in Jobs, Queue!PutBack(j)
      PROVE  Placed'
  <2>1. /\ JobState[j] = "stalled"
        /\ JobState' = [JobState EXCEPT ![j] = "waiting"]
        /\ queue' = <<j>> \o queue /\ active' = active
    BY <1>5 DEF Queue!PutBack
  <2>2. /\ Len(queue') = Len(queue) + 1 /\ queue'[1] = j
        /\ \A i \in 1 .. Len(queue) : queue'[i + 1] = queue[i]
    BY <1>1, <2>1
  <2>3. \A i \in 1 .. Len(queue) : queue[i] \in Jobs /\ queue[i] # j
    BY <1>1, <2>1 DEF Placed
  <2>4. \A i \in 1 .. Len(queue') : i = 1 \/ (i - 1 \in 1 .. Len(queue) /\ queue'[i] = queue[i - 1])
    <3> SUFFICES ASSUME NEW i \in 1 .. Len(queue'), i # 1
                 PROVE  i - 1 \in 1 .. Len(queue) /\ queue'[i] = queue[i - 1]
      OBVIOUS
    <3>1. i - 1 \in 1 .. Len(queue) /\ (i - 1) + 1 = i
      BY <1>1, <2>2
    <3> QED
      BY <2>2, <3>1
  <2>5. \A i \in 1 .. Len(queue') : JobState'[queue'[i]] = "waiting"
    BY <1>1, <2>1, <2>2, <2>3, <2>4 DEF Placed
  <2>6. \A i, k \in 1 .. Len(queue') : queue'[i] = queue'[k] => i = k
    <3> SUFFICES ASSUME NEW i \in 1 .. Len(queue'), NEW k \in 1 .. Len(queue'), queue'[i] = queue'[k]
                 PROVE  i = k
      OBVIOUS
    <3>1. CASE i = 1 \/ k = 1
      BY <2>2, <2>3, <2>4, <3>1
    <3>2. CASE i # 1 /\ k # 1
      <4>1. i - 1 = k - 1
        BY <2>4, <3>2 DEF Placed
      <4> QED
        BY <1>1, <4>1
    <3> QED
      BY <3>1, <3>2
  <2>7. \A x \in Jobs : JobState'[x] = "waiting" => \E i \in 1 .. Len(queue') : queue'[i] = x
    <3> SUFFICES ASSUME NEW x \in Jobs, JobState'[x] = "waiting", x # j
                 PROVE  \E i \in 1 .. Len(queue') : queue'[i] = x
      BY <1>1, <2>2
    <3>1. PICK i \in 1 .. Len(queue) : queue[i] = x
      BY <1>1, <2>1 DEF Placed
    <3>2. i + 1 \in 1 .. Len(queue') /\ queue'[i + 1] = x
      BY <1>1, <2>2, <3>1
    <3> QED
      BY <3>2
  <2>8. \A x \in Jobs : JobState'[x] = "active" <=> active' = x
    BY <1>1, <2>1, NamesAssumption DEF Placed
  <2> QED
    BY <2>5, <2>6, <2>7, <2>8 DEF Placed
<1>6. ASSUME NEW j \in Jobs, Queue!Stop(j) \/ Queue!GiveUp(j)
      PROVE  Placed'
  BY <1>1, <1>6, NamesAssumption DEF Queue!Stop, Queue!GiveUp, Placed
<1>7. CASE UNCHANGED Queue!vars
  BY <1>7 DEF Queue!vars, Placed
<1> QED
  BY <1>2, <1>3, <1>4, <1>5, <1>6, <1>7 DEF Queue!Next

LEMMA QueueInit == Init => Queue!Init /\ Placed
<1> SUFFICES ASSUME Init
             PROVE  Queue!Init /\ Placed
  OBVIOUS
<1>1. JobState = [j \in Jobs |-> "new"] /\ queue = <<>> /\ active = NoJob
  BY CallersFacts DEF Init, JobState
<1>2. {j \in Jobs : stalls[j] = 1} = {}
  BY DEF Init
<1> QED
  BY <1>1, <1>2, NamesAssumption DEF Queue!Init, Placed

\* Only the job itself, Take, Restart and Recover change where a job is; every step
\* of a job is the active job's.
LEMMA QueueStep ==
  ASSUME TypeOK, TypeOK', OneWorks, Placed, [Next]_vars
  PROVE  Queue!Next \/ UNCHANGED Queue!vars
<1> USE CallersFacts DEF TypeOK, Goto
<1>2. ASSUME \A j \in Jobs : pc'[j] = pc[j] \/ {pc[j], pc'[j]} \cap (Ended \cup {"new", "waiting", "stalled"}) = {},
             UNCHANGED <<queue, active, stalls>>
      PROVE  UNCHANGED Queue!vars
  <2>1. \A j \in Jobs : JobState'[j] = JobState[j]
    BY <1>2, JobSeen, JobSeenNext
  <2>2. JobState' = JobState
    BY <2>1 DEF JobState
  <2> QED
    BY <1>2, <2>2 DEF Queue!vars
<1>3. ASSUME NEW j \in Jobs, NEW o \in Orders, Enqueue(j, o)
      PROVE  Queue!Next
  <2>1. /\ pc[j] = "new" /\ pc' = [pc EXCEPT ![j] = "waiting"]
        /\ queue' = Append(queue, j) /\ UNCHANGED <<active, stalls>>
    BY <1>3 DEF Enqueue
  <2>2. JobState[j] = "new" /\ JobState' = [JobState EXCEPT ![j] = "waiting"]
    <3>1. pc'[j] = "waiting" /\ \A k \in Jobs \ {j} : pc'[k] = pc[k]
      BY <2>1
    <3> QED
      BY <2>1, <3>1, JobSeen, JobSeenNext, OneJobMoves
  <2>3. Queue!Submit(j)
    BY <2>1, <2>2 DEF Queue!Submit
  <2> QED
    BY <2>3 DEF Queue!Next
<1>4. CASE Take
  <2>1. PICK j \in Jobs : j = Head(queue)
    BY <1>4 DEF Take, WorkerIsFree
  <2>2. /\ active = NoJob /\ queue # <<>> /\ active' = j /\ queue' = Tail(queue)
        /\ pc' = [pc EXCEPT ![j] = IF order[j].whole THEN "probing" ELSE "fetching"]
        /\ UNCHANGED stalls
    BY <1>4, <2>1 DEF Take, WorkerIsFree
  <2>3. JobState[j] = "waiting"
    BY <2>1, <2>2 DEF Placed
  <2>4. JobState' = [JobState EXCEPT ![j] = "active"]
    <3>1. pc'[j] \notin Ended \cup {"new", "waiting", "stalled"} /\ \A k \in Jobs \ {j} : pc'[k] = pc[k]
      BY <2>2 DEF Ended
    <3> QED
      BY <3>1, JobSeenNext, OneJobMoves
  <2>5. Queue!Begin(j)
    BY <2>1, <2>2, <2>3, <2>4 DEF Queue!Begin
  <2> QED
    BY <2>5 DEF Queue!Next
<1>5. CASE Restart
  <2>1. PICK j \in Jobs : j = active
    BY <1>5 DEF Restart
  <2>2. JobState[j] = "active"
    BY <2>1 DEF Placed
  <2>3. /\ active' = NoJob /\ pc'[j] = "stalled" /\ UNCHANGED <<queue, stalls>>
        /\ \A k \in Jobs \ {j} : pc'[k] = pc[k]
    BY <1>5, <2>1 DEF Restart
  <2>4. JobState' = [JobState EXCEPT ![j] = "stalled"]
    BY <2>3, JobSeenNext, OneJobMoves
  <2>5. Queue!Stop(j)
    BY <2>1, <2>2, <2>3, <2>4 DEF Queue!Stop
  <2> QED
    BY <2>5 DEF Queue!Next
<1>9. ASSUME NEW j \in Jobs, Recover(j)
      PROVE  Queue!Next
  <2>1. /\ JobState[j] = "stalled" /\ active' = active
        /\ \A k \in Jobs \ {j} : pc'[k] = pc[k]
    BY <1>9, JobSeen DEF Recover
  <2>2. CASE stalls[j] = 0
    <3>1. /\ pc'[j] = "waiting" /\ queue' = <<j>> \o queue
          /\ stalls' = [stalls EXCEPT ![j] = 1]
      BY <1>9, <2>2 DEF Recover
    <3>2. JobState' = [JobState EXCEPT ![j] = "waiting"]
      BY <2>1, <3>1, JobSeenNext, OneJobMoves
    <3>3. j \notin {k \in Jobs : stalls[k] = 1}
          /\ {k \in Jobs : stalls'[k] = 1} = {k \in Jobs : stalls[k] = 1} \cup {j}
      BY <2>2, <3>1
    <3>4. Queue!PutBack(j)
      BY <2>1, <3>1, <3>2, <3>3 DEF Queue!PutBack
    <3> QED
      BY <3>4 DEF Queue!Next
  <2>3. CASE stalls[j] = 1
    <3>1. pc'[j] = "failed" /\ UNCHANGED <<queue, stalls>>
      BY <1>9, <2>3 DEF Recover
    <3>2. JobState' = [JobState EXCEPT ![j] = "failed"]
      BY <2>1, <3>1, JobSeenNext, OneJobMoves DEF Ended
    <3>3. Queue!GiveUp(j)
      BY <2>1, <2>3, <3>1, <3>2 DEF Queue!GiveUp
    <3> QED
      BY <3>3 DEF Queue!Next
  <2> QED
    BY <2>2, <2>3
<1>6. ASSUME NEW j \in Jobs, JobStep(j)
      PROVE  Queue!Next \/ UNCHANGED Queue!vars
  <2>1. pc[j] \in Working /\ active = j
    BY <1>6 DEF JobStep, ListStep, GetAllAccounts, ProbeFails, SubmitLogin, ListingThrows,
                ResolveMasks, FetchMask, FetchFails, Forget, Save, DownloadThrows, CheckPending,
                EndSession, CloseTab, EndSessionFails, Fetching, Working, Listing, OneWorks
  <2>2. UNCHANGED <<queue, stalls>> /\ \A k \in Jobs \ {j} : pc'[k] = pc[k]
    BY <1>6 DEF JobStep, ListStep, GetAllAccounts, ProbeFails, SubmitLogin, ListingThrows,
                ResolveMasks, FetchMask, FetchFails, Forget, Save, DownloadThrows, CheckPending,
                EndSession, CloseTab, EndSessionFails, Finish
  <2>3. \/ pc'[j] \in Working /\ active' = active
        \/ pc'[j] \in Ended /\ active' = NoJob
    BY <1>6, <2>1 DEF JobStep, ListStep, GetAllAccounts, ProbeFails, SubmitLogin, ListingThrows,
                ResolveMasks, FetchMask, FetchFails, Forget, Save, DownloadThrows, CheckPending,
                EndSession, CloseTab, EndSessionFails, Finish, Working, Listing, Ended
  <2>4. Working \cap (Ended \cup {"new", "waiting", "stalled"}) = {}
    BY DEF Working, Listing, Ended
  <2>5. CASE pc'[j] \in Working /\ active' = active
    BY <1>2, <2>1, <2>2, <2>4, <2>5
  <2>6. CASE pc'[j] \in Ended /\ active' = NoJob
    <3>1. JobState' = [JobState EXCEPT ![j] = pc'[j]] /\ JobState[j] = "active"
      BY <2>1, <2>2, <2>4, <2>6, JobSeen, JobSeenNext, OneJobMoves
    <3>2. Queue!Report(j)
      BY <2>1, <2>2, <2>6, <3>1 DEF Queue!Report, Ended
    <3> QED
      BY <3>2 DEF Queue!Next
  <2> QED
    BY <2>3, <2>5, <2>6
<1>7. ASSUME NEW l \in Lists, (\E c \in Credentials : CallList(l, c)) \/ ListStep(l) \/ RespondList(l)
      PROVE  UNCHANGED Queue!vars
  <2>1. UNCHANGED <<queue, active, stalls>> /\ \A j \in Jobs : pc'[j] = pc[j]
    BY <1>7 DEF CallList, ListStep, GetAllAccounts, ProbeFails, SubmitLogin, ListingThrows, RespondList
  <2> QED
    BY <1>2, <2>1
<1>8. CASE LoginAnswered \/ SessionExpires \/ TabClosed \/ UNCHANGED vars
  <2>1. UNCHANGED <<queue, active, stalls, pc>>
    BY <1>8 DEF LoginAnswered, SessionExpires, TabClosed, vars
  <2> QED
    BY <1>2, <2>1
<1> QED
  BY <1>3, <1>4, <1>5, <1>6, <1>7, <1>8, <1>9 DEF Next, Request

\* The inductive invariant of the refinement.
QueueInv == OneWorks /\ Placed

LEMMA QueueInvariance == Spec => []QueueInv /\ [][Queue!Next]_Queue!vars
<1>1. Init => QueueInv
  BY QueueInit, CallersFacts DEF Init, OneWorks, Working, Listing, QueueInv
<1>2. TypeOK /\ TypeOK' /\ QueueInv /\ [Next]_vars => QueueInv' /\ [Queue!Next]_Queue!vars
  BY OneWorksStep, QueueStep, PlacedStep DEF QueueInv
<1> QED
  BY <1>1, <1>2, TypeCorrect, PTL DEF Spec

\* However jobs, sessions, logins, failures and restarts mix: seen from the queue,
\* the worker is a serial queue that, some time after a stop of mapi, retries the
\* job it was at, once.
THEOREM WorkerImplementsJobQueue == Spec => WorkerIsSerial
<1>1. Init => Queue!Init
  BY QueueInit
<1> QED
  BY <1>1, QueueInvariance, PTL DEF Spec, WorkerIsSerial, Queue!Spec

\* A job that was enqueued and not reported waits its turn, in one place of the
\* queue, is the worker's, or stalled and is nobody's until BullMQ notices.
NotStranded ==
  \A j \in Jobs : pc[j] \notin Ended \cup {"new"} =>
    \/ active = j
    \/ pc[j] = "stalled"
    \/ /\ pc[j] = "waiting"
       /\ \E i \in 1 .. Len(queue) : \A k \in 1 .. Len(queue) : queue[k] = j <=> k = i

\* No job is dropped, whatever fails or restarts: that it is also reported, once
\* the worker and the stalled check go on, is checked by TLC (EveryJobIsReported).
THEOREM NothingIsStranded == Spec => []NotStranded
<1>1. TypeOK /\ QueueInv => NotStranded
  <2> SUFFICES ASSUME TypeOK, QueueInv, NEW j \in Jobs, active # j,
                      pc[j] \notin Ended \cup {"new", "stalled"}
               PROVE  /\ pc[j] = "waiting"
                      /\ \E i \in 1 .. Len(queue) : \A k \in 1 .. Len(queue) : queue[k] = j <=> k = i
    BY DEF NotStranded
  <2>1. pc[j] = "waiting" /\ JobState[j] = "waiting"
    BY DEF JobState, QueueInv, Placed, Ended
  <2>2. PICK i \in 1 .. Len(queue) : queue[i] = j
    BY <2>1 DEF QueueInv, Placed
  <2>3. \A k \in 1 .. Len(queue) : queue[k] = j <=> k = i
    BY <2>2 DEF QueueInv, Placed
  <2> QED
    BY <2>1, <2>2, <2>3
<1> QED
  BY <1>1, QueueInvariance, TypeCorrect, PTL

=============================================================================
