----------------------------- MODULE SdwanAuth -----------------------------
(***************************************************************************)
(* Authorisation of SDWANCspHttpClient: concurrent requests of one client  *)
(* share a token that is obtained lazily under an asyncio.Lock and dropped *)
(* when the controller answers 401 or 403.                                 *)
(*                                                                         *)
(* A task is one chain of requests, such as one chunk of get_policies_by_  *)
(* ids.  An action is the code between two awaits.                         *)
(***************************************************************************)
EXTENDS Integers, Sequences

CONSTANTS
  Tasks,
  MaxRequests,  \* requests a task makes
  MaxFaults,    \* bound: failed logins, errors other than an expired session
  MaxExpiries,  \* bound: sessions the controller ends
  NoTask

ASSUME AuthAssumption ==
  /\ NoTask \notin Tasks
  /\ MaxRequests \in Nat \ {0}
  /\ MaxFaults \in Nat
  /\ MaxExpiries \in Nat

\* _token is None.
NoToken == 0

VARIABLES
  token,     \* _token: the number of the session, or NoToken
  holder,    \* the task that holds _auth_lock
  waiters,   \* the tasks that wait for _auth_lock, first come, first served
  pc,
  header,    \* task -> the token its request carries
  sent,      \* task -> requests answered
  issued,    \* sessions the controller has opened (external)
  valid,     \* the sessions that are still alive (external)
  clears,    \* how often the token was dropped
  expiries, faults

lockVars == <<holder, waiters>>
serverVars == <<issued, valid, expiries>>
vars == <<token, lockVars, pc, header, sent, serverVars, clears, faults>>

Labels == {"ready", "waiting", "login", "sending", "done", "failed"}

Init ==
  /\ token = NoToken
  /\ holder = NoTask
  /\ waiters = <<>>
  /\ pc = [t \in Tasks |-> "ready"]
  /\ header = [t \in Tasks |-> NoToken]
  /\ sent = [t \in Tasks |-> 0]
  /\ issued = 0
  /\ valid = {}
  /\ clears = 0
  /\ expiries = 0
  /\ faults = 0

Goto(t, label) == pc' = [pc EXCEPT ![t] = label]

Fault == faults < MaxFaults /\ faults' = faults + 1

----------------------------------------------------------------------------
\* asyncio.Lock.acquire does not wait: nobody holds the lock or waits for it.
lock_free == holder = NoTask /\ waiters = <<>>

\* The second look at the token, with the lock held.
token_missing == token = NoToken

\* The request is sent with the token of this moment.
SendWith(t, tok) ==
  /\ header' = [header EXCEPT ![t] = tok]
  /\ Goto(t, "sending")

\* _get_auth_headers: use the token, or take the lock, or wait for it.
Begin(t) ==
  /\ pc[t] = "ready"
  /\ \/ token # NoToken /\ SendWith(t, token) /\ UNCHANGED lockVars
     \/ /\ token = NoToken /\ lock_free
        /\ holder' = t
        /\ Goto(t, "login")
        /\ UNCHANGED <<waiters, header>>
     \/ /\ token = NoToken /\ ~lock_free
        /\ waiters' = Append(waiters, t)
        /\ Goto(t, "waiting")
        /\ UNCHANGED <<holder, header>>
  /\ UNCHANGED <<token, sent, serverVars, clears, faults>>

\* The longest waiting task gets the lock.  It keeps it only to log in.
Enter(t) ==
  /\ pc[t] = "waiting"
  /\ holder = NoTask /\ waiters # <<>> /\ Head(waiters) = t
  /\ waiters' = Tail(waiters)
  /\ \/ token_missing /\ holder' = t /\ Goto(t, "login") /\ UNCHANGED header
     \/ ~token_missing /\ SendWith(t, token) /\ UNCHANGED holder
  /\ UNCHANGED <<token, sent, serverVars, clears, faults>>

\* login is answered with a new session; leaving the lock awaits nothing.
Login(t) ==
  /\ pc[t] = "login"
  /\ issued' = issued + 1
  /\ valid' = valid \cup {issued + 1}
  /\ token' = issued + 1
  /\ holder' = NoTask
  /\ SendWith(t, token')
  /\ UNCHANGED <<waiters, sent, expiries, clears, faults>>

\* Mutant of LoginFails: the lock is not released.
LoginFailsLocked(t) ==
  /\ pc[t] = "login"
  /\ Fault
  /\ Goto(t, "failed")
  /\ UNCHANGED <<token, lockVars, header, sent, serverVars, clears>>

\* login raises: an error status, the network, or an answer of another shape.
LoginFails(t) ==
  /\ pc[t] = "login"
  /\ Fault
  /\ holder' = NoTask
  /\ Goto(t, "failed")
  /\ UNCHANGED <<token, waiters, header, sent, serverVars, clears>>

----------------------------------------------------------------------------

\* authorized_request is answered; the task makes its next request.
Answer(t) ==
  /\ pc[t] = "sending" /\ header[t] \in valid
  /\ sent' = [sent EXCEPT ![t] = @ + 1]
  /\ Goto(t, IF sent[t] + 1 = MaxRequests THEN "done" ELSE "ready")
  /\ UNCHANGED <<token, lockVars, header, serverVars, clears, faults>>

\* 401 for a session that is over, or 403 for one that may not do this: the
\* token is dropped, even when it is not the one the request carried.
Unauthorized(t) ==
  /\ pc[t] = "sending"
  /\ IF header[t] \in valid THEN Fault ELSE UNCHANGED faults
  /\ token' = NoToken
  /\ clears' = clears + 1
  /\ Goto(t, "failed")
  /\ UNCHANGED <<lockVars, header, sent, serverVars>>

\* Mutant of RequestFails: every error drops the token, as 401 and 403 do.
RequestFailsDropping(t) ==
  /\ pc[t] = "sending"
  /\ Fault
  /\ token' = NoToken
  /\ Goto(t, "failed")
  /\ UNCHANGED <<lockVars, header, sent, serverVars, clears>>

\* Any other error status, a timeout or the network: the token is kept.
RequestFails(t) ==
  /\ pc[t] = "sending"
  /\ Fault
  /\ Goto(t, "failed")
  /\ UNCHANGED <<token, lockVars, header, sent, serverVars, clears>>

\* The controller ends a session.
Expire(s) ==
  /\ s \in valid
  /\ expiries < MaxExpiries /\ expiries' = expiries + 1
  /\ valid' = valid \ {s}
  /\ UNCHANGED <<token, lockVars, pc, header, sent, issued, clears, faults>>

Step(t) == Begin(t) \/ Enter(t) \/ Login(t) \/ Answer(t) \/ Unauthorized(t)

Next ==
  \/ \E t \in Tasks : Step(t) \/ LoginFails(t) \/ RequestFails(t)
  \/ \E s \in valid : Expire(s)

Spec == Init /\ [][Next]_vars

\* Every call that is awaited ends, if only by the requester's timeout, and the
\* event loop resumes every task that can run.
FairSpec == Spec /\ \A t \in Tasks : WF_vars(Step(t))

----------------------------------------------------------------------------
\* Every variable has its type.
TypeOK ==
  /\ token \in Nat
  /\ holder \in Tasks \cup {NoTask}
  /\ waiters \in Seq(Tasks)
  /\ pc \in [Tasks -> Labels]
  /\ header \in [Tasks -> Nat]
  /\ sent \in [Tasks -> 0 .. MaxRequests]
  /\ issued \in Nat
  /\ valid \subseteq 1 .. issued
  /\ clears \in Nat
  /\ expiries \in 0 .. MaxExpiries
  /\ faults \in 0 .. MaxFaults

\* No request goes out as "Bearer None": a task that read the token as missing
\* sends what the login of that moment, its own or another's, obtained.
HeaderSet == \A t \in Tasks : pc[t] = "sending" => header[t] \in 1 .. issued

\* The lock does its work: whoever logs in holds it, so two logins never overlap
\* and a login never replaces a token that another one just obtained.
OneLogin == \A t \in Tasks : pc[t] = "login" => holder = t /\ token = NoToken

\* However many tasks find the token missing at once, they log in once: every
\* session but the first was opened after a 401 or 403.
LoginOncePerClear == issued <= clears + 1

\* Every task gets its answers or an error: nobody waits for the lock forever.
TasksEnd == \A t \in Tasks : <>(pc[t] \in {"done", "failed"})

============================================================================
