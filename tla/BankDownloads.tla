---------------------------- MODULE BankDownloads ----------------------------
(***************************************************************************)
(* The bank worker of mapi (apps/mapi/src/modules/22-bank-worker): the     *)
(* queue of download jobs with its single worker, the session of the bank  *)
(* portal in the operator's browser, and the list_accounts endpoint, which *)
(* logs in to the bank from an HTTP request, beside the queue.             *)
(*                                                                         *)
(* One portal is modelled (Chase is the only adapter of the code): it has  *)
(* one tab and one session, that of the login which was last established,  *)
(* whichever credential it belongs to.  The masks of a job (the last four  *)
(* digits of accounts) are abstracted to the login they were taken from;   *)
(* Mistaken says in which other logins one of them is found as well.       *)
(***************************************************************************)
EXTENDS Naturals, Sequences, SequencesExt

CONSTANTS
  Credentials,  \* bank logins, each of another client
  Nobody,       \* no login: the portal shows its logon form
  Jobs,         \* download jobs (bound)
  NoJob,        \* the worker is idle
  Lists,        \* HTTP calls of list_accounts (bound)
  Orders,       \* what jobs are asked for, a subset of AllOrders (bound)
  Masks,        \* accounts downloaded by a job
  Mistaken      \* <<c, d>>: login d shows an account with the last four digits
                \* of one that is downloaded for c

AllWhats == {"checks", "statements", "transactions"}
Callers == Jobs \cup Lists
Requests == [credential : Credentials, what : AllWhats,
             whole : BOOLEAN,   \* a client-download, which logs in by itself
             all : BOOLEAN]     \* accounts = 'all'
\* A step endpoint downloads the masks it is given.
AllOrders == {o \in Requests : o.all => o.whole}

ASSUME NamesAssumption ==
  Nobody \notin Credentials /\ NoJob \notin Jobs /\ Jobs \cap Lists = {}
ASSUME BoundsAssumption == Orders \subseteq AllOrders /\ Masks \in Nat \ {0}
ASSUME MistakenAssumption == Mistaken \subseteq Credentials \X Credentials

VARIABLES
  tab,      \* is a tab of the portal open
  session,  \* the login that the portal's session belongs to
  login,    \* the login submitted and not answered by the bank yet
  pc,       \* pc[p]: where a job or a list call is
  order,    \* order[p]: what it was asked for
  queue,    \* waiting jobs
  active,   \* the job of the worker
  seen,     \* seen[p]: the login whose accounts listAccounts returned, until used
  masks,    \* masks[j]: the login whose masks the job downloads
  count,    \* count[j]: masks gone through
  held,     \* held[j]: logins whose data are held in memory, to be saved
  files,    \* files[j]: logins whose data the job wrote to disk
  result,   \* result[j]: how the job will be reported
  stalls,   \* stalls[j]: times BullMQ put it back as stalled
  lastEnd   \* history: what became of the session at the end of the last job

browser == <<tab, session, login>>
work == <<masks, count, held, files, result>>
vars == <<browser, pc, order, queue, active, seen, work, stalls, lastEnd>>

Listing == {"probing", "login", "polling", "listed"}
Ended == {"completed", "failed"}
\* "closed": signed out with no login in flight; "kept": for a pending job;
\* "unguarded": the job threw between its login and its try; "broken": the
\* bridge, the tab, the click on "Sign out" or mapi failed, or a login was in
\* flight at the logout.
Ends == {"none", "closed", "kept", "unguarded", "broken"}
NoOrder == [credential |-> Nobody, what |-> "checks", whole |-> FALSE, all |-> FALSE]

TypeOK ==
  /\ tab \in BOOLEAN
  /\ session \in Credentials \cup {Nobody}
  /\ login \in Credentials \cup {Nobody}
  /\ pc \in [Callers -> Listing \cup Ended \cup
               {"new", "waiting", "stalled", "fetching", "ending", "closing", "closingTab"}]
  /\ order \in [Callers -> [credential : Credentials \cup {Nobody}, what : AllWhats,
                            whole : BOOLEAN, all : BOOLEAN]]
  /\ queue \in Seq(Jobs)
  /\ active \in Jobs \cup {NoJob}
  /\ seen \in [Callers -> Credentials \cup {Nobody}]
  /\ masks \in [Jobs -> Credentials \cup {Nobody}]
  /\ count \in [Jobs -> 0 .. Masks]
  /\ held \in [Jobs -> SUBSET Credentials]
  /\ files \in [Jobs -> SUBSET Credentials]
  /\ result \in [Jobs -> Ended]
  /\ stalls \in [Jobs -> 0 .. 1]
  /\ lastEnd \in Ends

Init ==
  /\ tab = FALSE /\ session = Nobody /\ login = Nobody
  /\ pc = [p \in Callers |-> "new"]
  /\ order = [p \in Callers |-> NoOrder]
  /\ queue = <<>> /\ active = NoJob
  /\ seen = [p \in Callers |-> Nobody]
  /\ masks = [j \in Jobs |-> Nobody]
  /\ count = [j \in Jobs |-> 0]
  /\ held = [j \in Jobs |-> {}]
  /\ files = [j \in Jobs |-> {}]
  /\ result = [j \in Jobs |-> "completed"]
  /\ stalls = [j \in Jobs |-> 0]
  /\ lastEnd = "none"

-----------------------------------------------------------------------------
(* Operators of the handlers.                                              *)

Goto(p, where) == pc' = [pc EXCEPT ![p] = where]
CredentialIdOf(p) == order[p].credential

\* Variants with a plausible slip, for mutation testing.
TakeBesides == queue # <<>>
FinishLeavesWorker(j, r) == Goto(j, r) /\ UNCHANGED active
NeededCountsActive(j) ==
  \E other \in ToSet(queue) \cup {j} : CredentialIdOf(other) = CredentialIdOf(j)
FetchingOffByOne(j) == pc[j] = "fetching" /\ count[j] <= Masks
MaskNotLookedUp(j) == TRUE

\* A fetch sent through the plugin reaches the bank with a session.
Reachable == tab /\ session # Nobody

\* The job leaves the worker, reported as r.
Finish(j, r) ==
  /\ Goto(j, r)
  /\ active' = NoJob

\* The download of j returned, threw or died: its masks, unless the order gave
\* them, its progress and the images it held are gone.
Forget(j) ==
  /\ masks' = [masks EXCEPT ![j] = IF order[j].all THEN Nobody ELSE @]
  /\ count' = [count EXCEPT ![j] = 0]
  /\ held' = [held EXCEPT ![j] = {}]

\* sessionNeededByPending: a waiting job has the same credential.
SessionNeededByPending(j) ==
  \E other \in ToSet(queue) : CredentialIdOf(other) = CredentialIdOf(j)

-----------------------------------------------------------------------------
(* The queue.                                                              *)

\* runAndWait (step endpoints) and enqueue (the orchestrator).
Enqueue(j, o) ==
  /\ pc[j] = "new"
  /\ order' = [order EXCEPT ![j] = o]
  /\ masks' = [masks EXCEPT ![j] = IF o.all THEN Nobody ELSE o.credential]
  /\ queue' = Append(queue, j)
  /\ Goto(j, "waiting")
  /\ UNCHANGED <<browser, active, seen, count, held, files, result, stalls, lastEnd>>

\* concurrency: 1.
WorkerIsFree == active = NoJob /\ queue # <<>>

\* The worker takes the next job: process().
Take ==
  /\ WorkerIsFree
  /\ active' = Head(queue)
  /\ queue' = Tail(queue)
  /\ Goto(Head(queue), IF order[Head(queue)].whole THEN "probing" ELSE "fetching")
  /\ UNCHANGED <<browser, order, seen, work, stalls, lastEnd>>

\* mapi restarts.  HTTP calls and held images are lost; the job stays among the
\* active ones of Redis, under the lock of a worker that is gone, while the new
\* worker takes the next waiting job.
Restart ==
  /\ active # NoJob
  /\ active' = NoJob
  /\ pc' = [p \in Callers |-> CASE p = active -> "stalled"
                               [] p \in Lists /\ pc[p] \in Listing -> "failed"
                               [] OTHER -> pc[p]]
  /\ seen' = [seen EXCEPT ![active] = Nobody]
  /\ Forget(active)
  /\ lastEnd' = "broken"
  /\ UNCHANGED <<browser, order, queue, files, result, stalls>>

\* The lock expired and BullMQ's check found the job stalled: it goes in front of
\* the waiting jobs, once; the second time it fails.
Recover(j) ==
  /\ pc[j] = "stalled"
  /\ \/ /\ stalls[j] = 0
        /\ Goto(j, "waiting")
        /\ queue' = <<j>> \o queue
        /\ stalls' = [stalls EXCEPT ![j] = 1]
     \/ /\ stalls[j] = 1
        /\ Goto(j, "failed")
        /\ UNCHANGED <<queue, stalls>>
  /\ UNCHANGED <<browser, order, active, seen, work, lastEnd>>

-----------------------------------------------------------------------------
(* BankSessionService.listAccounts, for a client-download or an HTTP call. *)

\* POST .../accounts.
CallList(l, c) ==
  /\ pc[l] = "new"
  /\ order' = [order EXCEPT ![l] = [NoOrder EXCEPT !.credential = c]]
  /\ Goto(l, "probing")
  /\ UNCHANGED <<browser, queue, active, seen, work, stalls, lastEnd>>

\* getAllAccounts answers with the accounts of whoever is logged in: the fast
\* path, and each attempt of the poll after a login.
GetAllAccounts(p) ==
  /\ pc[p] \in {"probing", "polling"}
  /\ Reachable
  /\ seen' = [seen EXCEPT ![p] = session]
  /\ Goto(p, "listed")
  /\ UNCHANGED <<browser, order, queue, active, work, stalls, lastEnd>>

\* getAllAccounts failed on the fast path, for any reason: log in.
ProbeFails(p) ==
  /\ pc[p] = "probing"
  /\ Goto(p, "login")
  /\ UNCHANGED <<browser, order, queue, active, seen, work, stalls, lastEnd>>

\* ensureTab, then the recipe.  With a session alive the portal shows no logon
\* form and the recipe fails, which nobody looks at.
SubmitLogin(p) ==
  /\ pc[p] = "login"
  /\ tab' = TRUE
  /\ login' = IF session = Nobody THEN CredentialIdOf(p) ELSE login
  /\ Goto(p, "polling")
  /\ UNCHANGED <<session, order, queue, active, seen, work, stalls, lastEnd>>

\* A throw of listAccounts (no plugin, no session after the poll, database), or
\* for a job of resolveMasks or buildDownloadDto: this is before the try.
ListingThrows(p) ==
  /\ pc[p] \in Listing
  /\ \/ /\ p \in Jobs
        /\ Finish(p, "failed")
        /\ lastEnd' = IF pc[p] = "listed" THEN "unguarded" ELSE "broken"
     \/ /\ p \in Lists
        /\ Goto(p, "failed")
        /\ UNCHANGED <<active, lastEnd>>
  /\ seen' = [seen EXCEPT ![p] = Nobody]
  /\ UNCHANGED <<browser, order, queue, work, stalls>>

\* listAccounts returned to the HTTP caller.
RespondList(l) ==
  /\ pc[l] = "listed"
  /\ seen' = [seen EXCEPT ![l] = Nobody]
  /\ Goto(l, "completed")
  /\ UNCHANGED <<browser, order, queue, active, work, stalls, lastEnd>>

\* resolveMasks and buildDownloadDto of a job.
ResolveMasks(j) ==
  /\ pc[j] = "listed"
  /\ masks' = [masks EXCEPT ![j] = IF order[j].all THEN seen[j] ELSE @]
  /\ seen' = [seen EXCEPT ![j] = Nobody]
  /\ Goto(j, "fetching")
  /\ UNCHANGED <<browser, order, queue, active, count, held, files,
                 result, stalls, lastEnd>>

-----------------------------------------------------------------------------
(* BankDownloadService: downloadChecks (and Deposits), downloadStatements, *)
(* downloadTransactions.                                                   *)

Fetching(j) == pc[j] = "fetching" /\ count[j] < Masks

\* The logins among whose accounts a mask of c is found.
Showing(c) == {c} \cup {d \in Credentials : <<c, d>> \in Mistaken}

\* _getAccountInfoByMask: the last four digits are those of an account of the
\* session in the browser, whoever's it is.
MaskFound(j) == session \in Showing(masks[j])

\* One mask was downloaded; transactions are written at once.
FetchMask(j) ==
  /\ Fetching(j)
  /\ Reachable /\ MaskFound(j)
  /\ count' = [count EXCEPT ![j] = @ + 1]
  /\ IF order[j].what = "transactions"
       THEN files' = [files EXCEPT ![j] = @ \cup {session}] /\ UNCHANGED held
       ELSE held' = [held EXCEPT ![j] = @ \cup {session}] /\ UNCHANGED files
  /\ UNCHANGED <<browser, pc, order, queue, active, seen, masks, result,
                 stalls, lastEnd>>

\* A mask failed: checks and deposits skip it, the others give the job up.
FetchFails(j) ==
  /\ Fetching(j)
  /\ IF order[j].what = "checks"
       THEN /\ count' = [count EXCEPT ![j] = @ + 1]
            /\ UNCHANGED <<pc, masks, held, result>>
       ELSE /\ result' = [result EXCEPT ![j] = "failed"]
            /\ Goto(j, "ending")
            /\ Forget(j)
  /\ UNCHANGED <<browser, order, queue, active, seen, files, stalls, lastEnd>>

\* After the last mask: save what is held.
Save(j) ==
  /\ pc[j] = "fetching"
  /\ count[j] = Masks
  /\ files' = [files EXCEPT ![j] = @ \cup held[j]]
  /\ Forget(j)
  /\ result' = [result EXCEPT ![j] = "completed"]
  /\ Goto(j, "ending")
  /\ UNCHANGED <<browser, order, queue, active, seen, stalls, lastEnd>>

\* A throw outside the loop over masks: resolveAdapter or resolveRange before
\* it, the saving of a file or the event log after it.
DownloadThrows(j) ==
  /\ pc[j] = "fetching"
  /\ count[j] \in {0, Masks}
  /\ files' \in {files, [files EXCEPT ![j] = @ \cup held[j]]}
  /\ Forget(j)
  /\ result' = [result EXCEPT ![j] = "failed"]
  /\ Goto(j, "ending")
  /\ UNCHANGED <<browser, order, queue, active, seen, stalls, lastEnd>>

-----------------------------------------------------------------------------
(* The finally of process: endSession unless a pending job needs it.       *)

\* The queue is read; what is enqueued from here on is not seen.
CheckPending(j) ==
  /\ pc[j] = "ending"
  /\ IF SessionNeededByPending(j)
       THEN Finish(j, result[j]) /\ lastEnd' = "kept"
       ELSE Goto(j, "closing") /\ UNCHANGED <<active, lastEnd>>
  /\ UNCHANGED <<browser, order, queue, seen, work, stalls>>

\* endSession: without a tab of the portal there is nothing to do.  The recipe
\* clicks "Sign out"; whether it worked is not looked at.
EndSession(j) ==
  /\ pc[j] = "closing"
  /\ \/ /\ tab
        /\ session' \in {Nobody, session}
        /\ lastEnd' = IF login = Nobody /\ session' = Nobody THEN "closed" ELSE "broken"
        /\ Goto(j, "closingTab")
        /\ UNCHANGED active
     \/ /\ ~tab
        /\ lastEnd' = "broken"
        /\ Finish(j, result[j])
        /\ UNCHANGED session
  /\ UNCHANGED <<tab, login, order, queue, seen, work, stalls>>

\* close_tab, after the logout settled.
CloseTab(j) ==
  /\ pc[j] = "closingTab"
  /\ tab' = FALSE
  /\ login' = Nobody
  /\ Finish(j, result[j])
  /\ UNCHANGED <<session, order, queue, seen, work, stalls, lastEnd>>

\* The end goes wrong.  endSession is best effort: an error of the bridge ends it
\* silently; an error of Redis, before it, replaces the job's own outcome.
EndSessionFails(j) ==
  /\ \/ pc[j] = "ending" /\ Finish(j, "failed")
     \/ pc[j] \in {"closing", "closingTab"} /\ Finish(j, result[j])
  /\ lastEnd' = "broken"
  /\ UNCHANGED <<browser, order, queue, seen, work, stalls>>

-----------------------------------------------------------------------------
(* The bank and the operator's browser.                                    *)

LoginAnswered ==
  /\ login # Nobody
  /\ session' \in {login, session}
  /\ login' = Nobody
  /\ UNCHANGED <<tab, pc, order, queue, active, seen, work, stalls, lastEnd>>

SessionExpires ==
  /\ session # Nobody
  /\ session' = Nobody
  /\ UNCHANGED <<tab, login, pc, order, queue, active, seen, work, stalls, lastEnd>>

TabClosed ==
  /\ tab
  /\ tab' = FALSE
  /\ login' = Nobody
  /\ UNCHANGED <<session, pc, order, queue, active, seen, work, stalls, lastEnd>>

-----------------------------------------------------------------------------
ListStep(p) ==
  GetAllAccounts(p) \/ ProbeFails(p) \/ SubmitLogin(p) \/ ListingThrows(p)

JobStep(j) ==
  \/ ListStep(j) \/ ResolveMasks(j)
  \/ FetchMask(j) \/ FetchFails(j) \/ Save(j) \/ DownloadThrows(j)
  \/ CheckPending(j) \/ EndSession(j) \/ CloseTab(j) \/ EndSessionFails(j)

Request ==
  \/ \E j \in Jobs, o \in Orders : Enqueue(j, o)
  \/ \E l \in Lists, c \in Credentials : CallList(l, c)

Next ==
  \/ Request
  \/ Take
  \/ Restart
  \/ \E j \in Jobs : Recover(j) \/ JobStep(j)
  \/ \E l \in Lists : ListStep(l) \/ RespondList(l)
  \/ LoginAnswered \/ SessionExpires \/ TabClosed

Spec == Init /\ [][Next]_vars

\* The worker goes on: each await of a job ends (a bridge call answers or times
\* out), and a restarted mapi has a worker and its stalled check again.  Nothing is
\* owed by the bank, the browser or HTTP callers.
Fairness == WF_vars(Take) /\ \A j \in Jobs : WF_vars(JobStep(j)) /\ WF_vars(Recover(j))
FairSpec == Spec /\ Fairness

-----------------------------------------------------------------------------
(* Properties.                                                             *)

Idle == active = NoJob /\ queue = <<>>
Untouched == \A l \in Lists : pc[l] = "new"

\* The conditional close of the worker leaks no session: when no HTTP call
\* logged in and the last job went through its finally with a working bridge, a
\* drained queue leaves nobody logged in, however jobs of several credentials,
\* sessions kept for one another, failures of earlier jobs and expiries mix.
NoSessionLeakedByFinally ==
  Idle /\ Untouched /\ lastEnd \in {"closed", "kept"} => session = Nobody

\* A job that was given its masks may run on a session that another job, another
\* client's, left, or that an HTTP call opened between two masks: it writes the
\* accounts of another login only where the last four digits, which is all
\* _getAccountInfoByMask compares, are those of one of its own.
CrossesOnlyByDigits ==
  \A j \in Jobs : ~order[j].all => files[j] \subseteq Showing(CredentialIdOf(j))

\* The jobs seen from the queue; one that was taken is active until it is reported.
JobState == [j \in Jobs |-> IF pc[j] \in Ended \cup {"new", "waiting", "stalled"} THEN pc[j] ELSE "active"]
Queue == INSTANCE JobQueue
  WITH state <- JobState, waiting <- queue, retried <- {j \in Jobs : stalls[j] = 1}

\* Whatever the bank, the bridge and restarts do to it, the worker is a serial
\* queue: no job begins before the one before it was reported or stopped with mapi
\* ("1 session at a time"), is overtaken by one that came later unless it stalled,
\* runs again after its report, or is retried twice.
WorkerIsSerial == Queue!Spec

\* A batch is never stuck: each job that is enqueued is reported, completed or
\* failed, through failures of the bank, of the bridge and restarts of mapi.
EveryJobIsReported == \A j \in Jobs : pc[j] = "waiting" ~> pc[j] \in Ended
=============================================================================
