------------------------------ MODULE LockoutTable -----------------------------
(***************************************************************************)
(* state.lockouts when it is full: getLockout() and pruneLockouts() of     *)
(* lib/store.js under the login handler of api.js.  A handler keeps the    *)
(* row it was given while it waits for the body and for the verification;  *)
(* the table may drop that row meanwhile.  LoginPipeline has the table     *)
(* with room; here the slots of the verification have room.                *)
(***************************************************************************)
EXTENDS Integers, FiniteSets

CONSTANTS
    Ips, Requests,
    Limits,         \* the limits there may be
    LockTime,       \* lockout.lockMinutes, in ticks
    IdleTime,       \* LOCKOUT_IDLE_MS, in ticks
    MaxTime,        \* bound: ticks of the clock
    None

\* rows are objects: of one address the table has one at most, and each request may have another
Rows == 1 .. 1 + Cardinality(Requests)
NoRow == 0

\* lastAttemptAt of a new row is 0, which is further back than any row is kept
Never == -IdleTime
NewRow == [attempts |-> 0, lockedUntil |-> 0, lastAttemptAt |-> Never]
Idle == [phase |-> "idle", ip |-> None, row |-> NoRow, counts |-> FALSE]

VARIABLES
    limits,         \* rows: MAX_LOCKOUTS, attempts: lockout.maxAttempts; they stay as they are
    running,        \* the store is active
    table,          \* of each address the row in state.lockouts
    rows,           \* what is in the rows
    disk,           \* of each address what the file has
    req,            \* requests; counts: the row that was charged still has the charge and its place
    credited,       \* history: of each address the failures that were answered, since its row
                    \* was made, cleared or reset
    now

vars == <<limits, running, table, rows, disk, req, credited, now>>

Row == [attempts : 0 .. limits.attempts, lockedUntil : 0 .. MaxTime + LockTime,
        lastAttemptAt : {Never} \cup 0 .. MaxTime]

\* The table keeps its limit; no row has more attempts than lock it.
TypeOK ==
    /\ limits \in Limits
    /\ running \in BOOLEAN
    /\ table \in [Ips -> Rows \cup {NoRow}]
    /\ Cardinality({i \in Ips : table[i] # NoRow}) <= limits.rows
    /\ rows \in [Ips -> [Rows -> Row]]
    /\ disk \in [Ips -> Row \cup {None}]
    /\ req \in [Requests -> [phase : {"idle", "body", "verify"}, ip : Ips \cup {None},
                             row : Rows \cup {NoRow}, counts : BOOLEAN]]
    /\ credited \in [Ips -> Nat]
    /\ now \in 0 .. MaxTime

Init ==
    /\ limits \in Limits
    /\ running = TRUE
    /\ table = [i \in Ips |-> NoRow]
    /\ rows = [i \in Ips |-> [x \in Rows |-> NewRow]]
    /\ disk = [i \in Ips |-> None]
    /\ req = [r \in Requests |-> Idle]
    /\ credited = [i \in Ips |-> 0]
    /\ now = 0

-----------------------------------------------------------------------------
(* The table *)

Used == {i \in Ips : table[i] # NoRow}
Locked(row) == row.lockedUntil > now
IsIdle(row) == now - row.lastAttemptAt >= IdleTime

\* the order in which a full table gives up its rows; and as it would be by age alone
BeforeByAge(i, j) == rows[i][table[i]].lastAttemptAt <= rows[j][table[j]].lastAttemptAt

Before(i, j) ==
    LET a == rows[i][table[i]]
        b == rows[j][table[j]]
    IN  \/ ~Locked(a) /\ Locked(b)
        \/ Locked(a) = Locked(b) /\ a.lastAttemptAt <= b.lastAttemptAt

\* pruneLockouts(): the addresses that may keep their rows; and as it would be one row too late
PruneLate(kept) ==
    IF Cardinality(Used) <= limits.rows THEN kept = Used ELSE kept = {}

Prune(kept) ==
    LET live == {i \in Used : Locked(rows[i][table[i]]) \/ ~IsIdle(rows[i][table[i]])} IN
    IF Cardinality(Used) < limits.rows THEN kept = Used
    ELSE IF Cardinality(live) < limits.rows THEN kept = live
    ELSE /\ kept \subseteq live /\ Cardinality(kept) = limits.rows - 1
         /\ \A i \in live \ kept, j \in kept : Before(i, j)

\* the one row of address i that request r refers to
Refers(r, i, x) == req[r].ip = i /\ req[r].row = x

FreeRow(i) == CHOOSE x \in Rows : \A r \in Requests : ~Refers(r, i, x)

\* the rows are given values f, those that nothing refers to any more are forgotten
Rewrite(f) ==
    rows' = [i \in Ips |-> [x \in Rows |->
                IF table'[i] = x \/ \E r \in Requests : Refers(r, i, x)' THEN f[i][x] ELSE NewRow]]

\* what the file has once table t is written with rows f
Contents(t, f) == [i \in Ips |-> IF t[i] = NoRow THEN None ELSE f[i][t[i]]]

Saved == disk' = Contents(table', rows')

\* a write fails, with its content in the file or not, or the process dies: what comes next is read
\* from the file
Stops(content, credit) ==
    /\ running' = FALSE
    /\ disk' = content
    /\ table' = [i \in Ips |-> IF content[i] = None THEN NoRow ELSE 1]
    /\ rows' = [i \in Ips |-> [x \in Rows |-> IF x = table'[i] THEN content[i] ELSE NewRow]]
    /\ req' = [r \in Requests |-> Idle]
    /\ credited' = [i \in Ips |-> IF content[i] = None THEN 0 ELSE credit[i]]
    /\ UNCHANGED now

\* the charges on row x of address i count no more
Uncounted(i, x) == [r \in Requests |-> IF Refers(r, i, x) THEN [req[r] EXCEPT !.counts = FALSE] ELSE req[r]]

-----------------------------------------------------------------------------
(* POST auth/login *)

\* checkLockout(), not locked: a lock that is over is cleared
Expired(row) == row.lockedUntil # 0 /\ ~Locked(row)
Cleared(row) == IF Expired(row) THEN [row EXCEPT !.attempts = 0, !.lockedUntil = 0] ELSE row

Waiting(i, x) == [phase |-> "body", ip |-> i, row |-> x, counts |-> FALSE]

\* getLockout() finds a row that is not locked
BeginKnown(r, i) ==
    LET x == table[i] IN
    /\ running /\ req[r] = Idle
    /\ x # NoRow /\ ~Locked(rows[i][x])
    /\ req' = [(IF Expired(rows[i][x]) THEN Uncounted(i, x) ELSE req) EXCEPT ![r] = Waiting(i, x)]
    /\ credited' = IF Expired(rows[i][x]) THEN [credited EXCEPT ![i] = 0] ELSE credited
    /\ rows' = [rows EXCEPT ![i][x] = Cleared(@)]
    /\ UNCHANGED <<running, table, disk, now>>

\* ... or makes one, for which others may have to go
BeginNew(r, i) ==
    /\ running /\ req[r] = Idle
    /\ table[i] = NoRow
    /\ \E kept \in SUBSET Used :
        /\ Prune(kept)
        /\ table' = [j \in Ips |-> IF j = i THEN FreeRow(i) ELSE IF j \in kept THEN table[j] ELSE NoRow]
        /\ credited' = [j \in Ips |-> IF j \in kept THEN credited[j] ELSE 0]
        /\ req' = [q \in Requests |->
                     IF q = r THEN Waiting(i, FreeRow(i))
                     ELSE [req[q] EXCEPT !.counts = @ /\ req[q].ip \in kept]]
    /\ Rewrite([rows EXCEPT ![i][FreeRow(i)] = NewRow])
    /\ UNCHANGED <<running, disk, now>>

\* recordFailedAttempt(), after a second look at the row
Charged(row) ==
    [attempts |-> row.attempts + 1, lastAttemptAt |-> now,
     lockedUntil |-> IF row.attempts + 1 >= limits.attempts THEN now + LockTime ELSE row.lockedUntil]

Charge(r) ==
    LET q == req[r]
        row == rows[q.ip][q.row]
    IN
    /\ running /\ q.phase = "body" /\ ~Locked(row)
    /\ rows' = [rows EXCEPT ![q.ip][q.row] = Charged(Cleared(row))]
    /\ req' = [(IF Expired(row) THEN Uncounted(q.ip, q.row) ELSE req) EXCEPT
                 ![r] = [q EXCEPT !.phase = "verify", !.counts = (table[q.ip] = q.row)]]
    /\ credited' = IF Expired(row) /\ table[q.ip] = q.row THEN [credited EXCEPT ![q.ip] = 0] ELSE credited
    /\ UNCHANGED <<running, table, disk, now>>

\* a wrong password is answered once the table is written; and as it would be without that
WrongUnsaved(r) ==
    /\ running /\ req[r].phase = "verify"
    /\ req' = [req EXCEPT ![r] = Idle]
    /\ credited' = [credited EXCEPT ![req[r].ip] = IF req[r].counts THEN @ + 1 ELSE @]
    /\ UNCHANGED <<running, table, disk, now>>
    /\ Rewrite(rows)

Wrong(r) ==
    LET q == req[r] IN
    /\ running /\ q.phase = "verify"
    /\ req' = [req EXCEPT ![r] = Idle]
    /\ credited' = IF q.counts THEN [credited EXCEPT ![q.ip] = @ + 1] ELSE credited
    /\ UNCHANGED <<running, table, now>>
    /\ Rewrite(rows)
    /\ Saved

\* resetLockout(), and a session
Right(r) ==
    LET q == req[r]
        reset == [rows EXCEPT ![q.ip][q.row].attempts = 0, ![q.ip][q.row].lockedUntil = 0]
        credit == IF table[q.ip] = q.row THEN [credited EXCEPT ![q.ip] = 0] ELSE credited
    IN
    /\ running /\ q.phase = "verify"
    /\ \/ /\ req' = [Uncounted(q.ip, q.row) EXCEPT ![r] = Idle]
          /\ credited' = credit
          /\ UNCHANGED <<running, table, now>>
          /\ Rewrite(reset)
          /\ Saved
       \/ Stops(Contents(table, reset), credit)

\* the row is locked by now, no body comes, revalidate() throws, or the visitor cannot be recorded
Refused(r) ==
    /\ running /\ req[r] # Idle
    /\ req' = [req EXCEPT ![r] = Idle]
    /\ UNCHANGED <<running, table, disk, credited, now>>
    /\ Rewrite(rows)

-----------------------------------------------------------------------------

\* saveState() by another handler
SaveState ==
    /\ running
    /\ UNCHANGED <<running, table, rows, req, credited, now>>
    /\ Saved

Stop == running /\ \E content \in {disk, Contents(table, rows)} : Stops(content, credited)

Restart ==
    /\ ~running
    /\ running' = TRUE
    /\ UNCHANGED <<table, rows, disk, req, credited, now>>

Tick ==
    /\ now < MaxTime
    /\ now' = now + 1
    /\ UNCHANGED <<running, table, rows, disk, req, credited>>

Next ==
    /\ UNCHANGED limits
    /\ \/ \E r \in Requests :
            \/ \E i \in Ips : BeginKnown(r, i) \/ BeginNew(r, i)
            \/ Charge(r) \/ Wrong(r) \/ Right(r) \/ Refused(r)
       \/ SaveState \/ Stop \/ Restart \/ Tick

Spec == Init /\ [][Next]_vars

-----------------------------------------------------------------------------

\* A locked address loses its row to the table only when all the rows that stay are locked too:
\* filling the table with unlocked addresses sets nobody free.
LockedGoLast ==
    running /\ running' => \A i \in Ips :
        table[i] # NoRow /\ Locked(rows[i][table[i]]) /\ table'[i] # table[i] =>
            \A j \in Ips : table'[j] # NoRow /\ table'[j] = table[j] => Locked(rows[j][table[j]])

\* Each failure that was answered is on the row of its address, in memory and in the file, over
\* crashes, failed writes and other handlers, as long as the row is kept, not reset, and its lock
\* not over.
FailuresLast ==
    \A i \in Ips : credited[i] > 0 =>
        /\ table[i] # NoRow /\ rows[i][table[i]].attempts >= credited[i]
        /\ disk[i] # None /\ disk[i].attempts >= credited[i]
================================================================================
