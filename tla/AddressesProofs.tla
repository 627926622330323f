---------------------------- MODULE AddressesProofs ----------------------------
(***************************************************************************)
(* Theorems about addresses, for every number of addresses, rows, attempts *)
(* and requests, all lists, and all widths of a network: what was answered *)
(* stays on its row, who was allowed stays out of the list of visitors,    *)
(* and a request behind a proxy is its client's.                           *)
(***************************************************************************)
EXTENDS Addresses, FiniteSetTheorems, SequenceTheorems, TLAPS

-----------------------------------------------------------------------------
(* The table of lockouts *)

\* A row that no lock is set on has room for one more attempt.
Fits(row) == row \in Table!Row /\ (row.lockedUntil = 0 => row.attempts < limits.attempts)

\* What may be in the file, or is in the rows of the table, with credit c.
Holds(content, c) ==
    /\ content \in [Ips -> Table!Row \cup {None}]
    /\ IsFiniteSet({i \in Ips : content[i] # None}) /\ Cardinality({i \in Ips : content[i] # None}) <= limits.rows
    /\ \A i \in Ips : content[i] # None => Fits(content[i])
    /\ \A i \in Ips : content[i] # None => content[i].attempts >= c[i]

\* The requests whose charge is on the row of address i and not answered yet.
Owed(i) == {r \in Requests : tableReq[r].counts /\ tableReq[r].ip = i}

Request == [phase : {"idle", "body", "verify"}, ip : Ips \cup {None}, row : Table!Rows \cup {Table!NoRow},
            counts : BOOLEAN]

TableTyped ==
    /\ limits \in [rows : Nat \ {0}, attempts : Nat \ {0}] /\ limits \in Limits
    /\ tableRuns \in BOOLEAN /\ now \in 0 .. MaxTime
    /\ table \in [Ips -> Table!Rows \cup {Table!NoRow}]
    /\ rows \in [Ips -> [Table!Rows -> Table!Row]]
    /\ tableReq \in [Requests -> Request]
    /\ credited \in [Ips -> Nat]

\* The table and its rows keep their limits, and so does the file, which has what was answered.
TableBounded ==
    /\ IsFiniteSet(Table!Used) /\ Cardinality(Table!Used) <= limits.rows
    /\ \A i \in Ips, x \in Table!Rows : Fits(rows[i][x])
    /\ Holds(disk, [i \in Ips |-> 0])

\* A charge that counts is one of a request that is being verified, on the row that the table has.
ChargesStand ==
    /\ \A r \in Requests : tableReq[r].phase # "idle" => tableReq[r].ip \in Ips /\ tableReq[r].row \in Table!Rows
    /\ \A r \in Requests : tableReq[r].counts =>
        tableReq[r].phase = "verify" /\ table[tableReq[r].ip] = tableReq[r].row

\* A row has the failures that were answered and the charges that were not, and the file those that
\* were answered.
CreditStands ==
    /\ \A i \in Ips : table[i] # Table!NoRow => rows[i][table[i]].attempts >= credited[i] + Cardinality(Owed(i))
    /\ \A i \in Ips : table[i] = Table!NoRow => credited[i] = 0
    /\ \A i \in Ips : credited[i] > 0 => disk[i] # None /\ disk[i].attempts >= credited[i]

TableInv == TableTyped /\ TableBounded /\ ChargesStand /\ CreditStands

LEMMA TableCounts ==
    ASSUME NEW S
    PROVE  Table!Cardinality(S) = Cardinality(S)
BY DEF Table!Cardinality, Cardinality

\* Rows and their numbers.
LEMMA RowFacts ==
    ASSUME TableTyped
    PROVE  /\ Cardinality(Requests) \in Nat /\ Table!Rows = 1 .. 1 + Cardinality(Requests)
           /\ Table!NoRow \notin Table!Rows /\ 1 \in Table!Rows
           /\ Fits(Table!NewRow) /\ None \notin Table!Row
<1>1. Cardinality(Requests) \in Nat /\ Table!Rows = 1 .. 1 + Cardinality(Requests)
  BY FS_CardinalityType, TableCounts, AddressesAssumption DEF Table!Rows
<1>2. Table!NoRow \notin Table!Rows /\ 1 \in Table!Rows
  BY <1>1 DEF Table!NoRow
<1>3. Fits(Table!NewRow)
  BY AddressesAssumption DEF Fits, Table!NewRow, Table!Row, Table!Never, TableTyped
<1>4. Table!Row \subseteq [attempts : Nat, lockedUntil : Nat, lastAttemptAt : Int]
  BY AddressesAssumption DEF Table!Row, Table!Never, TableTyped
<1> QED BY <1>1, <1>2, <1>3, <1>4, AddressesAssumption

\* There is a row for a new address that no request refers to: there are more rows than requests.
LEMMA FreeRowIsFree ==
    ASSUME TableTyped, NEW i \in Ips
    PROVE  Table!FreeRow(i) \in Table!Rows /\ \A r \in Requests : ~Table!Refers(r, i, Table!FreeRow(i))
<1> SUFFICES \E x \in Table!Rows : \A r \in Requests : ~Table!Refers(r, i, x)
  BY DEF Table!FreeRow
<1> SUFFICES ASSUME \A x \in Table!Rows : \E r \in Requests : Table!Refers(r, i, x)
             PROVE  FALSE
  OBVIOUS
<1> DEFINE f == [x \in Table!Rows |-> CHOOSE r \in Requests : Table!Refers(r, i, x)]
<1>1. f \in [Table!Rows -> Requests] /\ \A x \in Table!Rows : Table!Refers(f[x], i, x)
  OBVIOUS
<1> HIDE DEF f
<1>2. Cardinality(Requests) \in Nat /\ Table!Rows = 1 .. 1 + Cardinality(Requests)
  BY RowFacts
<1>3. IsFiniteSet(Table!Rows) /\ Cardinality(Table!Rows) = 1 + Cardinality(Requests)
  BY <1>2, FS_Interval
<1>4. PICK x \in Table!Rows, y \in Table!Rows : x # y /\ f[x] = f[y]
  BY <1>1, <1>2, <1>3, FS_PigeonHole, AddressesAssumption
<1> QED BY <1>1, <1>4 DEF Table!Refers

\* The requests that are owed something are finitely many.
LEMMA OwedIsFinite ==
    ASSUME NEW i
    PROVE  IsFiniteSet(Owed(i)) /\ Cardinality(Owed(i)) \in Nat
BY FS_Subset, FS_CardinalityType, AddressesAssumption DEF Owed

\* What the run asks of the table, from the invariant.
LEMMA TableInvImplies ==
    ASSUME TableInv
    PROVE  Table!FailuresLast /\ Table!TypeOK
<1>1. Table!FailuresLast
  <2> SUFFICES ASSUME NEW i \in Ips, credited[i] > 0
               PROVE  /\ table[i] # Table!NoRow /\ rows[i][table[i]].attempts >= credited[i]
                      /\ disk[i] # None /\ disk[i].attempts >= credited[i]
    BY DEF Table!FailuresLast
  <2>1. table[i] # Table!NoRow
    BY DEF TableInv, CreditStands, TableTyped
  <2>2. rows[i][table[i]] \in Table!Row /\ credited[i] \in Nat
    BY <2>1 DEF TableInv, TableTyped
  <2>3. rows[i][table[i]].attempts \in Int
    BY <2>2 DEF Table!Row, TableInv, TableTyped
  <2>4. rows[i][table[i]].attempts >= credited[i] + Cardinality(Owed(i))
    BY <2>1 DEF TableInv, CreditStands
  <2> QED BY <2>1, <2>2, <2>3, <2>4, OwedIsFinite DEF TableInv, CreditStands
<1>2. Table!TypeOK
  BY TableCounts DEF Table!TypeOK, TableInv, TableTyped, TableBounded, Table!Used, Holds, Request
<1> QED BY <1>1, <1>2

LEMMA TableInitHolds ==
    ASSUME Table!Init
    PROVE  TableInv
<1>1. TableTyped
  BY AddressesAssumption DEF Table!Init, TableTyped, Table!Rows, Table!NoRow, Table!NewRow, Table!Row,
     Table!Never, Table!Idle, Request
<1>2. TableBounded
  <2>1. Table!Used = {} /\ {i \in Ips : disk[i] # None} = {}
    BY DEF Table!Init, Table!Used, Table!NoRow
  <2>2. IsFiniteSet({}) /\ Cardinality({}) <= limits.rows
    BY <1>1, FS_EmptySet DEF TableTyped
  <2>3. \A i \in Ips, x \in Table!Rows : Fits(rows[i][x])
    BY <1>1, RowFacts DEF Table!Init
  <2>4. Holds(disk, [i \in Ips |-> 0])
    BY <2>1, <2>2 DEF Holds, Table!Init
  <2> QED BY <2>1, <2>2, <2>3, <2>4 DEF TableBounded
<1>3. ChargesStand
  BY DEF ChargesStand, Table!Init, Table!Idle
<1>4. CreditStands
  BY DEF CreditStands, Table!Init
<1> QED BY <1>1, <1>2, <1>3, <1>4 DEF TableInv

\* What comes next reads a file that holds what was answered.
LEMMA StopsKeeps ==
    ASSUME TableInv, NEW content, NEW credit, Table!Stops(content, credit), UNCHANGED limits,
           credit \in [Ips -> Nat], Holds(content, credit)
    PROVE  TableInv'
<1> USE DEF Table!Stops
<1>1. TableTyped
  BY DEF TableInv
<1>2. /\ \A i \in Ips : content[i] # None => table'[i] = 1 /\ content[i] \in Table!Row /\ Fits(content[i])
      /\ \A i \in Ips : content[i] = None => table'[i] = Table!NoRow
  BY DEF Holds, Fits
<1>3. \A i \in Ips, x \in Table!Rows : rows'[i][x] = Table!NewRow \/ (content[i] # None /\ rows'[i][x] = content[i])
  BY <1>1, <1>2, RowFacts
<1>4. Table!Row' = Table!Row /\ \A row : Fits(row)' <=> Fits(row)
  BY DEF Table!Row, Fits
<1>5. TableTyped'
  <2>1. rows' \in [Ips -> [Table!Rows -> Table!Row]]
    BY <1>1, <1>2, <1>3, RowFacts DEF Fits
  <2>2. table' \in [Ips -> Table!Rows \cup {Table!NoRow}]
    BY <1>1, RowFacts
  <2>3. tableReq' \in [Requests -> Request]
    BY DEF Table!Idle, Request, Table!NoRow
  <2>4. credited' \in [Ips -> Nat]
    OBVIOUS
  <2> QED BY <1>1, <1>4, <2>1, <2>2, <2>3, <2>4 DEF TableTyped
<1>6. TableBounded'
  <2>1. Table!Used' = {i \in Ips : content[i] # None}
    BY <1>1, <1>2, RowFacts DEF Table!Used
  <2>2. IsFiniteSet(Table!Used') /\ Cardinality(Table!Used') <= limits'.rows
    BY <2>1 DEF Holds
  <2>3. \A i \in Ips, x \in Table!Rows : Fits(rows[i][x])'
    BY <1>1, <1>2, <1>3, <1>4, RowFacts
  <2>4. Holds(disk, [i \in Ips |-> 0])'
    <3>1. disk' = content /\ limits' = limits
      OBVIOUS
    <3>2. \A i \in Ips : content[i] # None => content[i].attempts >= [j \in Ips |-> 0][i]
      BY <1>1, <1>2 DEF Table!Row, TableTyped
    <3> QED BY <1>4, <3>1, <3>2 DEF Holds
  <2> QED BY <2>2, <2>3, <2>4 DEF TableBounded
<1>7. ChargesStand'
  BY DEF ChargesStand, Table!Idle
<1>8. CreditStands'
  <2>1. \A i \in Ips : Owed(i)' = {}
    BY DEF Owed, Table!Idle
  <2>2. \A i \in Ips : content[i] # None => rows'[i][table'[i]] = content[i]
    BY <1>1, <1>2, RowFacts
  <2>3. \A i \in Ips : content[i] # None => credited'[i] = credit[i] /\ credit[i] \in Nat
    OBVIOUS
  <2>4. \A i \in Ips : content[i] # None => content[i].attempts >= credit[i]
    BY DEF Holds
  <2>5. \A i \in Ips : table'[i] # Table!NoRow => content[i] # None
    BY <1>2
  <2>6. ASSUME NEW i \in Ips, table'[i] # Table!NoRow
        PROVE  rows'[i][table'[i]].attempts >= credited'[i] + Cardinality(Owed(i)')
    <3>1. content[i] # None /\ rows'[i][table'[i]] = content[i] /\ credited'[i] = credit[i] /\ credit[i] \in Nat
      BY <2>2, <2>3, <2>5, <2>6
    <3>2. Cardinality(Owed(i)') = 0
      BY <2>1, FS_EmptySet
    <3> QED BY <2>4, <3>1, <3>2
  <2>7. \A i \in Ips : table'[i] = Table!NoRow => credited'[i] = 0
    BY <1>1, <1>2, RowFacts
  <2>8. \A i \in Ips : credited'[i] > 0 => disk'[i] # None /\ disk'[i].attempts >= credited'[i]
    BY <2>3, <2>4
  <2> QED BY <2>6, <2>7, <2>8 DEF CreditStands
<1> QED BY <1>5, <1>6, <1>7, <1>8 DEF TableInv

\* What is written is what the rows of the table have.
LEMMA ContentsHold ==
    ASSUME TableTyped, IsFiniteSet(Table!Used), Cardinality(Table!Used) <= limits.rows,
           NEW f, \A i \in Ips, x \in Table!Rows : Fits(f[i][x]),
           NEW c, \A i \in Ips : table[i] # Table!NoRow => f[i][table[i]].attempts >= c[i]
    PROVE  /\ Holds(Table!Contents(table, f), c)
           /\ \A i \in Ips : table[i] # Table!NoRow => Table!Contents(table, f)[i] = f[i][table[i]]
           /\ \A i \in Ips : table[i] = Table!NoRow => Table!Contents(table, f)[i] = None
<1> DEFINE content == Table!Contents(table, f)
<1>1. content = [i \in Ips |-> IF table[i] = Table!NoRow THEN None ELSE f[i][table[i]]]
  BY DEF Table!Contents
<1>2. \A i \in Ips : table[i] # Table!NoRow => table[i] \in Table!Rows /\ Fits(f[i][table[i]])
  BY DEF TableTyped
<1>3. \A i \in Ips : content[i] # None <=> table[i] # Table!NoRow
  BY <1>1, <1>2, RowFacts DEF Fits
<1>4. {i \in Ips : content[i] # None} = Table!Used
  BY <1>3 DEF Table!Used
<1> HIDE DEF content
<1>5. content \in [Ips -> Table!Row \cup {None}]
  BY <1>1, <1>2 DEF Fits
<1>6. \A i \in Ips : content[i] # None => Fits(content[i]) /\ content[i].attempts >= c[i]
  BY <1>1, <1>2, <1>3
<1>7. Holds(content, c)
  BY <1>4, <1>5, <1>6 DEF Holds
<1> QED BY <1>1, <1>7 DEF content

\* A step that leaves the table and the file alone, gives the rows values that fit, and keeps the
\* requests in order: what it owes is left to show.
LEMMA RowsMove ==
    ASSUME TableInv, UNCHANGED <<limits, tableRuns, table, now>>,
           \A i \in Ips, x \in Table!Rows : Fits(rows'[i][x]), rows' \in [Ips -> [Table!Rows -> Table!Row]],
           tableReq' \in [Requests -> Request], credited' \in [Ips -> Nat],
           Holds(disk', [i \in Ips |-> 0]), ChargesStand', CreditStands'
    PROVE  TableInv'
<1>1. Table!Row' = Table!Row /\ \A row : Fits(row)' <=> Fits(row)
  BY DEF Table!Row, Fits
<1>2. TableTyped'
  BY <1>1 DEF TableInv, TableTyped
<1>3. Holds(disk, [i \in Ips |-> 0])'
  BY <1>1 DEF Holds
<1>4. TableBounded'
  BY <1>1, <1>3 DEF TableInv, TableBounded, Table!Used
<1> QED BY <1>2, <1>4 DEF TableInv

\* The rows of a Rewrite.
LEMMA RewriteFits ==
    ASSUME TableTyped, NEW f, Table!Rewrite(f), \A i \in Ips, x \in Table!Rows : Fits(f[i][x])
    PROVE  /\ \A i \in Ips, x \in Table!Rows : Fits(rows'[i][x])
           /\ rows' \in [Ips -> [Table!Rows -> Table!Row]]
           /\ \A i \in Ips, x \in Table!Rows : table'[i] = x => rows'[i][x] = f[i][x]
<1>1. \A i \in Ips, x \in Table!Rows : rows'[i][x] \in {f[i][x], Table!NewRow}
  BY DEF Table!Rewrite
<1>2. \A i \in Ips, x \in Table!Rows : Fits(rows'[i][x])
  BY <1>1, RowFacts
<1>3. rows' = [i \in Ips |-> [x \in Table!Rows |-> rows'[i][x]]]
  BY DEF Table!Rewrite
<1>4. \A i \in Ips, x \in Table!Rows : rows'[i][x] \in Table!Row
  BY <1>2 DEF Fits
<1>5. rows' \in [Ips -> [Table!Rows -> Table!Row]]
  BY <1>3, <1>4, Zenon
<1>6. \A i \in Ips, x \in Table!Rows : table'[i] = x => rows'[i][x] = f[i][x]
  BY DEF Table!Rewrite
<1> QED BY <1>2, <1>5, <1>6

\* A row that is cleared fits, and one whose lock is not over is left as it is.
LEMMA ClearedFits ==
    ASSUME TableTyped, NEW row, Fits(row)
    PROVE  /\ Fits(Table!Cleared(row))
           /\ Table!Expired(row) => Table!Cleared(row).attempts = 0
           /\ ~Table!Expired(row) => Table!Cleared(row) = row
           /\ ~Table!Locked(row) => Table!Cleared(row).lockedUntil = 0
<1>1. row \in Table!Row /\ 0 \in 0 .. limits.attempts /\ 0 \in 0 .. MaxTime + LockTime /\ 0 < limits.attempts
  BY AddressesAssumption DEF Fits, TableTyped
<1>2. ASSUME Table!Expired(row)
      PROVE  Table!Cleared(row) = [attempts |-> 0, lockedUntil |-> 0, lastAttemptAt |-> row.lastAttemptAt]
  BY <1>1, <1>2 DEF Table!Cleared, Table!Row
<1>3. ASSUME Table!Expired(row)
      PROVE  Fits(Table!Cleared(row))
  BY <1>1, <1>2, <1>3 DEF Fits, Table!Row
<1>4. ~Table!Expired(row) => Table!Cleared(row) = row
  BY DEF Table!Cleared
<1>5. ~Table!Expired(row) /\ ~Table!Locked(row) => row.lockedUntil = 0
  BY DEF Table!Expired
<1> QED BY <1>2, <1>3, <1>4, <1>5

\* Without the charges on a row.
LEMMA UncountedCounts ==
    ASSUME TableTyped, ChargesStand, NEW i \in Ips, NEW x \in Table!Rows
    PROVE  /\ Table!Uncounted(i, x) \in [Requests -> Request]
           /\ \A r \in Requests : Table!Uncounted(i, x)[r].phase = tableReq[r].phase
           /\ \A r \in Requests : Table!Uncounted(i, x)[r].ip = tableReq[r].ip
           /\ \A r \in Requests : Table!Uncounted(i, x)[r].row = tableReq[r].row
           /\ \A r \in Requests : Table!Uncounted(i, x)[r].counts =>
                tableReq[r].counts /\ ~(tableReq[r].ip = i /\ tableReq[r].row = x)
           /\ \A r \in Requests : tableReq[r].counts /\ ~(tableReq[r].ip = i /\ tableReq[r].row = x) =>
                Table!Uncounted(i, x)[r].counts
<1> DEFINE u == Table!Uncounted(i, x)
<1>1. \A r \in Requests : u[r] = IF tableReq[r].ip = i /\ tableReq[r].row = x
                                 THEN [tableReq[r] EXCEPT !.counts = FALSE] ELSE tableReq[r]
  BY DEF Table!Uncounted, Table!Refers
<1>2. u = [r \in Requests |-> u[r]]
  BY DEF Table!Uncounted
<1> HIDE DEF u
<1>3. ASSUME NEW r \in Requests
      PROVE  /\ u[r] \in Request
             /\ u[r].phase = tableReq[r].phase /\ u[r].ip = tableReq[r].ip /\ u[r].row = tableReq[r].row
             /\ tableReq[r].ip = i /\ tableReq[r].row = x => u[r].counts = FALSE
             /\ ~(tableReq[r].ip = i /\ tableReq[r].row = x) => u[r] = tableReq[r]
  <2>1. tableReq[r] \in Request
    BY DEF TableTyped
  <2> QED BY <1>1, <2>1 DEF Request
<1>4. u \in [Requests -> Request]
  BY <1>2, <1>3
<1>5. /\ \A r \in Requests : u[r].phase = tableReq[r].phase
      /\ \A r \in Requests : u[r].ip = tableReq[r].ip
      /\ \A r \in Requests : u[r].row = tableReq[r].row
  BY <1>3
<1>6. /\ \A r \in Requests : u[r].counts => tableReq[r].counts /\ ~(tableReq[r].ip = i /\ tableReq[r].row = x)
      /\ \A r \in Requests : tableReq[r].counts /\ ~(tableReq[r].ip = i /\ tableReq[r].row = x) => u[r].counts
  BY <1>3
<1> QED BY <1>4, <1>5, <1>6 DEF u

\* What is owed does not grow when no request is charged for the first time.
LEMMA OwedShrinks ==
    ASSUME NEW i, \A r \in Requests : tableReq'[r].counts /\ tableReq'[r].ip = i =>
                                        tableReq[r].counts /\ tableReq[r].ip = i
    PROVE  /\ Cardinality(Owed(i)') \in Nat /\ Cardinality(Owed(i)) \in Nat
           /\ Cardinality(Owed(i)') <= Cardinality(Owed(i))
<1>1. Owed(i)' \subseteq Owed(i)
  BY DEF Owed
<1>2. IsFiniteSet(Owed(i)) /\ Cardinality(Owed(i)) \in Nat
  BY OwedIsFinite
<1> QED BY <1>1, <1>2, FS_Subset, FS_CardinalityType

LEMMA OwedGone ==
    ASSUME NEW i, \A r \in Requests : ~(tableReq'[r].counts /\ tableReq'[r].ip = i)
    PROVE  Cardinality(Owed(i)') = 0
<1>1. Owed(i)' = {}
  BY DEF Owed
<1> QED BY <1>1, FS_EmptySet

\* What a row has and what is owed on it, as numbers.
LEMMA RowNumbers ==
    ASSUME TableInv, NEW i \in Ips, table[i] # Table!NoRow
    PROVE  /\ table[i] \in Table!Rows /\ Fits(rows[i][table[i]]) /\ rows[i][table[i]].attempts \in Nat
           /\ credited[i] \in Nat /\ Cardinality(Owed(i)) \in Nat
           /\ rows[i][table[i]].attempts >= credited[i] + Cardinality(Owed(i))
<1>1. table[i] \in Table!Rows /\ Fits(rows[i][table[i]])
  BY DEF TableInv, TableTyped, TableBounded
<1>2. rows[i][table[i]].attempts \in Nat
  BY <1>1 DEF Fits, Table!Row, TableInv, TableTyped
<1>3. credited[i] \in Nat /\ rows[i][table[i]].attempts >= credited[i] + Cardinality(Owed(i))
  BY DEF TableInv, TableTyped, CreditStands
<1> QED BY <1>1, <1>2, <1>3, OwedIsFinite

\* A step that leaves the file alone and gives no credit.
LEMMA FileStillHas ==
    ASSUME TableInv, UNCHANGED disk, credited' \in [Ips -> Nat], \A i \in Ips : credited'[i] <= credited[i]
    PROVE  /\ \A i \in Ips : credited'[i] > 0 => disk'[i] # None /\ disk'[i].attempts >= credited'[i]
           /\ Holds(disk', [i \in Ips |-> 0])
<1>1. Holds(disk, [i \in Ips |-> 0]) /\ credited \in [Ips -> Nat]
  BY DEF TableInv, TableBounded, TableTyped
<1>2. ASSUME NEW i \in Ips, credited'[i] > 0
      PROVE  disk'[i] # None /\ disk'[i].attempts >= credited'[i]
  <2>1. credited[i] > 0 /\ credited[i] \in Nat /\ credited'[i] \in Nat /\ credited'[i] <= credited[i]
    BY <1>1, <1>2
  <2>2. disk[i] # None /\ disk[i].attempts >= credited[i]
    BY <2>1 DEF TableInv, CreditStands
  <2>3. disk[i].attempts \in Nat
    BY <1>1, <2>2 DEF Holds, Table!Row, TableInv, TableTyped
  <2> QED BY <2>1, <2>2, <2>3
<1> QED BY <1>1, <1>2

LEMMA BeginKnownKeeps ==
    ASSUME TableInv, NEW r \in Requests, NEW i \in Ips, Table!BeginKnown(r, i), UNCHANGED limits
    PROVE  TableInv'
<1> USE DEF TableInv
<1> DEFINE x == table[i]
           expired == Table!Expired(rows[i][x])
           base == IF expired THEN Table!Uncounted(i, x) ELSE tableReq
<1>1. /\ tableReq[r] = Table!Idle /\ x # Table!NoRow /\ ~Table!Locked(rows[i][x])
      /\ tableReq' = [base EXCEPT ![r] = Table!Waiting(i, x)]
      /\ credited' = IF expired THEN [credited EXCEPT ![i] = 0] ELSE credited
      /\ rows' = [rows EXCEPT ![i][x] = Table!Cleared(rows[i][x])]
      /\ UNCHANGED <<limits, tableRuns, table, disk, now>>
  BY DEF Table!BeginKnown
<1>2. x \in Table!Rows /\ Fits(rows[i][x])
  BY <1>1, RowNumbers
<1>3. /\ Fits(Table!Cleared(rows[i][x]))
      /\ expired => Table!Cleared(rows[i][x]).attempts = 0
      /\ ~expired => Table!Cleared(rows[i][x]) = rows[i][x]
  BY <1>2, ClearedFits
<1>4. /\ base \in [Requests -> Request]
      /\ \A q \in Requests : base[q].phase = tableReq[q].phase /\ base[q].ip = tableReq[q].ip
                             /\ base[q].row = tableReq[q].row
      /\ \A q \in Requests : base[q].counts => tableReq[q].counts
      /\ expired => \A q \in Requests : base[q].counts => ~(tableReq[q].ip = i /\ tableReq[q].row = x)
  BY <1>2, UncountedCounts DEF TableTyped
<1> HIDE DEF base, expired
<1>5. /\ \A q \in Requests : q # r => tableReq'[q] = base[q]
      /\ tableReq'[r] = Table!Waiting(i, x)
      /\ tableReq' \in [Requests -> Request]
  BY <1>1, <1>2, <1>4 DEF Table!Waiting, Request
<1>6. /\ \A j \in Ips, y \in Table!Rows : <<j, y>> # <<i, x>> => rows'[j][y] = rows[j][y]
      /\ rows'[i][x] = Table!Cleared(rows[i][x])
      /\ rows' \in [Ips -> [Table!Rows -> Table!Row]]
  BY <1>1, <1>2, <1>3 DEF TableTyped, Fits
<1>7. \A j \in Ips, y \in Table!Rows : Fits(rows'[j][y])
  BY <1>3, <1>6 DEF TableBounded
<1>8. ChargesStand'
  BY <1>1, <1>2, <1>4, <1>5 DEF ChargesStand, Table!Waiting
<1>9. credited' \in [Ips -> Nat] /\ \A j \in Ips : credited'[j] <= credited[j]
  BY <1>1 DEF TableTyped
<1>10. \A q \in Requests : tableReq'[q].counts => tableReq[q].counts /\ tableReq'[q].ip = tableReq[q].ip
  BY <1>4, <1>5 DEF Table!Waiting
<1>11. ASSUME NEW j \in Ips, table'[j] # Table!NoRow
       PROVE  rows'[j][table'[j]].attempts >= credited'[j] + Cardinality(Owed(j)')
  <2>1. table'[j] = table[j] /\ table[j] \in Table!Rows
    BY <1>1, <1>11, RowNumbers
  <2>2. CASE j = i /\ expired
    <3>1. rows'[j][table'[j]].attempts = 0 /\ credited'[j] = 0
      BY <1>1, <1>3, <1>6, <2>1, <2>2 DEF TableTyped
    <3>2. \A q \in Requests : ~(tableReq'[q].counts /\ tableReq'[q].ip = j)
      BY <1>4, <1>5, <1>10, <2>2 DEF ChargesStand, Table!Waiting
    <3> QED BY <3>1, <3>2, OwedGone
  <2>3. CASE ~(j = i /\ expired)
    <3>1. rows'[j][table'[j]] = rows[j][table[j]]
      BY <1>3, <1>6, <2>1, <2>3
    <3>2. credited'[j] = credited[j]
      BY <1>1, <2>3 DEF TableTyped
    <3> QED BY <1>1, <1>10, <1>11, <2>1, <3>1, <3>2, OwedShrinks, RowNumbers
  <2> QED BY <2>2, <2>3
<1>12. CreditStands'
  <2>1. \A j \in Ips : table'[j] = Table!NoRow => credited'[j] = 0
    BY <1>1 DEF CreditStands, TableTyped
  <2> QED BY <1>1, <1>9, <1>11, <2>1, FileStillHas DEF CreditStands
<1> QED BY <1>1, <1>5, <1>6, <1>7, <1>8, <1>9, <1>12, FileStillHas, RowsMove

\* pruneLockouts() leaves a row free, and rows that are locked go last.
LEMMA PruneLeavesRoom ==
    ASSUME TableInv, NEW kept \in SUBSET Table!Used, Table!Prune(kept)
    PROVE  /\ IsFiniteSet(kept) /\ Cardinality(kept) \in Nat /\ Cardinality(kept) < limits.rows
           /\ \A i \in Table!Used \ kept, j \in kept :
                Table!Locked(rows[i][table[i]]) => Table!Locked(rows[j][table[j]])
<1> DEFINE live == {i \in Table!Used : Table!Locked(rows[i][table[i]]) \/ ~Table!IsIdle(rows[i][table[i]])}
<1>1. limits.rows \in Nat \ {0} /\ IsFiniteSet(Table!Used)
  BY DEF TableInv, TableTyped, TableBounded
<1>2. IsFiniteSet(kept) /\ Cardinality(kept) \in Nat
  BY <1>1, FS_Subset, FS_CardinalityType
<1>3. \/ Cardinality(Table!Used) < limits.rows /\ kept = Table!Used
      \/ Cardinality(live) < limits.rows /\ kept = live
      \/ /\ kept \subseteq live /\ Cardinality(kept) = limits.rows - 1
         /\ \A i \in live \ kept, j \in kept : Table!Before(i, j)
  BY TableCounts DEF Table!Prune
<1>4. Cardinality(kept) < limits.rows
  <2> HIDE DEF live
  <2> QED BY <1>1, <1>2, <1>3
<1>5. ASSUME NEW i \in Table!Used \ kept, NEW j \in kept, Table!Locked(rows[i][table[i]])
      PROVE  Table!Locked(rows[j][table[j]])
  <2>1. i \in live
    BY <1>5
  <2>2. Table!Before(i, j)
    BY <1>3, <2>1
  <2> QED BY <1>5, <2>2 DEF Table!Before
<1> QED BY <1>2, <1>4, <1>5

\* What a new row does to the table.
LEMMA BeginNewTable ==
    ASSUME TableInv, NEW i \in Ips, table[i] = Table!NoRow, NEW kept \in SUBSET Table!Used, Table!Prune(kept),
           table' = [j \in Ips |-> IF j = i THEN Table!FreeRow(i)
                                   ELSE IF j \in kept THEN table[j] ELSE Table!NoRow]
    PROVE  /\ table' \in [Ips -> Table!Rows \cup {Table!NoRow}] /\ table'[i] = Table!FreeRow(i)
           /\ i \notin kept /\ Table!Used' = kept \cup {i}
           /\ \A j \in kept : table'[j] = table[j] /\ table[j] \in Table!Rows
           /\ IsFiniteSet(Table!Used') /\ Cardinality(Table!Used') <= limits.rows
<1> USE DEF TableInv
<1>1. Table!FreeRow(i) \in Table!Rows /\ Table!NoRow \notin Table!Rows
  BY FreeRowIsFree, RowFacts
<1>2. i \notin kept /\ \A j \in kept : j \in Ips /\ table[j] \in Table!Rows
  BY DEF Table!Used, TableTyped
<1>3. table' \in [Ips -> Table!Rows \cup {Table!NoRow}] /\ table'[i] = Table!FreeRow(i)
      /\ \A j \in kept : table'[j] = table[j]
  BY <1>1, <1>2
<1>4. Table!Used' = kept \cup {i}
  BY <1>1, <1>2 DEF Table!Used
<1>5. IsFiniteSet(kept) /\ Cardinality(kept) \in Nat /\ Cardinality(kept) < limits.rows /\ limits.rows \in Nat
  BY PruneLeavesRoom DEF TableTyped
<1>6. IsFiniteSet(kept \cup {i}) /\ Cardinality(kept \cup {i}) = Cardinality(kept) + 1
  BY <1>2, <1>5, FS_AddElement
<1> QED BY <1>2, <1>3, <1>4, <1>5, <1>6

LEMMA BeginNewKeeps ==
    ASSUME TableInv, NEW r \in Requests, NEW i \in Ips, Table!BeginNew(r, i), UNCHANGED limits
    PROVE  TableInv'
<1> USE DEF TableInv
<1> DEFINE n == Table!FreeRow(i)
           f == [rows EXCEPT ![i][n] = Table!NewRow]
<1>1. PICK kept \in SUBSET Table!Used :
        /\ Table!Prune(kept)
        /\ table' = [j \in Ips |-> IF j = i THEN n ELSE IF j \in kept THEN table[j] ELSE Table!NoRow]
        /\ credited' = [j \in Ips |-> IF j \in kept THEN credited[j] ELSE 0]
        /\ tableReq' = [q \in Requests |-> IF q = r THEN Table!Waiting(i, n)
                                           ELSE [tableReq[q] EXCEPT !.counts = @ /\ tableReq[q].ip \in kept]]
  BY DEF Table!BeginNew
<1>2. /\ tableReq[r] = Table!Idle /\ table[i] = Table!NoRow
      /\ Table!Rewrite(f) /\ UNCHANGED <<limits, tableRuns, disk, now>>
  BY DEF Table!BeginNew
<1>3. /\ table' \in [Ips -> Table!Rows \cup {Table!NoRow}] /\ table'[i] = n
      /\ i \notin kept /\ Table!Used' = kept \cup {i}
      /\ \A j \in kept : table'[j] = table[j] /\ table[j] \in Table!Rows
      /\ IsFiniteSet(Table!Used') /\ Cardinality(Table!Used') <= limits.rows
  BY <1>1, <1>2, BeginNewTable
<1>4. n \in Table!Rows /\ Fits(Table!NewRow) /\ Table!NoRow \notin Table!Rows
  BY FreeRowIsFree, RowFacts
<1> HIDE DEF n
<1>5. /\ \A j \in Ips, y \in Table!Rows : Fits(f[j][y])
      /\ f[i][n] = Table!NewRow
      /\ \A j \in Ips, y \in Table!Rows : j # i => f[j][y] = rows[j][y]
  BY <1>4 DEF TableBounded, TableTyped
<1> HIDE DEF f
<1>6. /\ \A j \in Ips, y \in Table!Rows : Fits(rows'[j][y])
      /\ rows' \in [Ips -> [Table!Rows -> Table!Row]]
      /\ \A j \in Ips, y \in Table!Rows : table'[j] = y => rows'[j][y] = f[j][y]
  BY <1>2, <1>5, RewriteFits
<1>7. /\ \A q \in Requests : q # r => /\ tableReq'[q].phase = tableReq[q].phase
                                      /\ tableReq'[q].ip = tableReq[q].ip /\ tableReq'[q].row = tableReq[q].row
                                      /\ tableReq'[q].counts => tableReq[q].counts /\ tableReq[q].ip \in kept
      /\ tableReq'[r] = Table!Waiting(i, n) /\ ~tableReq'[r].counts
      /\ tableReq' \in [Requests -> Request]
  <2>1. ASSUME NEW q \in Requests, q # r
        PROVE  /\ tableReq'[q].phase = tableReq[q].phase
               /\ tableReq'[q].ip = tableReq[q].ip /\ tableReq'[q].row = tableReq[q].row
               /\ tableReq'[q].counts => tableReq[q].counts /\ tableReq[q].ip \in kept
               /\ tableReq'[q] \in Request
    <3>1. tableReq[q] \in Request
      BY DEF TableTyped
    <3> DEFINE c == tableReq[q].counts /\ tableReq[q].ip \in kept
    <3>2. tableReq'[q] = [tableReq[q] EXCEPT !.counts = c] /\ c \in BOOLEAN
      BY <1>1, <2>1, <3>1 DEF Request
    <3> HIDE DEF c
    <3>3. /\ tableReq'[q].phase = tableReq[q].phase /\ tableReq'[q].ip = tableReq[q].ip
          /\ tableReq'[q].row = tableReq[q].row /\ tableReq'[q].counts = c /\ tableReq'[q] \in Request
      BY <3>1, <3>2 DEF Request
    <3> QED BY <3>3 DEF c
  <2>2. tableReq'[r] = Table!Waiting(i, n) /\ Table!Waiting(i, n) \in Request /\ ~Table!Waiting(i, n).counts
    BY <1>1, <1>4 DEF Table!Waiting, Request
  <2>3. tableReq' = [q \in Requests |-> tableReq'[q]]
    BY <1>1
  <2>4. \A q \in Requests : tableReq'[q] \in Request
    BY <2>1, <2>2
  <2>5. tableReq' \in [Requests -> Request]
    BY <2>3, <2>4, Zenon
  <2> QED BY <2>1, <2>2, <2>5
<1>9. credited' \in [Ips -> Nat] /\ \A j \in Ips : credited'[j] <= credited[j]
  BY <1>1 DEF TableTyped
<1>8. TableTyped'
  <2>1. Table!Row' = Table!Row
    BY <1>2 DEF Table!Row
  <2> QED BY <1>2, <1>3, <1>6, <1>7, <1>9, <2>1 DEF TableTyped
<1>10. TableBounded'
  <2>1. Table!Row' = Table!Row /\ \A row : Fits(row)' <=> Fits(row)
    BY <1>2 DEF Table!Row, Fits
  <2>2. Holds(disk, [j \in Ips |-> 0])'
    BY <1>2, <2>1 DEF TableBounded, Holds
  <2> QED BY <1>2, <1>3, <1>6, <2>1, <2>2 DEF TableBounded
<1>11. ChargesStand'
  <2>1. \A q \in Requests : tableReq'[q].phase # "idle" => tableReq'[q].ip \in Ips /\ tableReq'[q].row \in Table!Rows
    BY <1>4, <1>7 DEF ChargesStand, Table!Waiting
  <2>2. \A q \in Requests : tableReq'[q].counts =>
            tableReq'[q].phase = "verify" /\ table'[tableReq'[q].ip] = tableReq'[q].row
    BY <1>3, <1>7 DEF ChargesStand
  <2> QED BY <2>1, <2>2 DEF ChargesStand
<1>12. ASSUME NEW j \in Ips, table'[j] # Table!NoRow
       PROVE  rows'[j][table'[j]].attempts >= credited'[j] + Cardinality(Owed(j)')
  <2>1. table'[j] \in Table!Rows /\ (j = i \/ j \in kept)
    BY <1>1, <1>3, <1>4, <1>12
  <2>2. CASE j = i
    <3>1. rows'[j][table'[j]] = Table!NewRow /\ credited'[j] = 0
      BY <1>1, <1>3, <1>5, <1>6, <2>1, <2>2
    <3>2. \A q \in Requests : ~(tableReq'[q].counts /\ tableReq'[q].ip = j)
      BY <1>3, <1>7, <2>2
    <3> QED BY <3>1, <3>2, OwedGone DEF Table!NewRow
  <2>3. CASE j \in kept
    <3>1. j # i /\ table'[j] = table[j] /\ table[j] # Table!NoRow
      BY <1>3, <1>4, <2>3
    <3>2. rows'[j][table'[j]] = rows[j][table[j]] /\ credited'[j] = credited[j]
      BY <1>1, <1>5, <1>6, <2>1, <2>3, <3>1
    <3>3. \A q \in Requests : tableReq'[q].counts /\ tableReq'[q].ip = j =>
                tableReq[q].counts /\ tableReq[q].ip = j
      BY <1>7
    <3> QED BY <3>1, <3>2, <3>3, OwedShrinks, RowNumbers
  <2> QED BY <2>1, <2>2, <2>3
<1>13. CreditStands'
  <2>1. \A j \in Ips : table'[j] = Table!NoRow => credited'[j] = 0
    BY <1>1, <1>3, <1>4
  <2> QED BY <1>2, <1>9, <1>12, <2>1, FileStillHas DEF CreditStands
<1> QED BY <1>8, <1>10, <1>11, <1>13

\* A charge fits on a row that is not locked: if it is the last, the row is locked with it.
LEMMA ChargedFits ==
    ASSUME TableTyped, NEW row, Fits(row), ~Table!Locked(row)
    PROVE  /\ Fits(Table!Charged(Table!Cleared(row)))
           /\ row.attempts \in Nat
           /\ Table!Charged(Table!Cleared(row)).attempts = IF Table!Expired(row) THEN 1 ELSE row.attempts + 1
<1> DEFINE c == Table!Cleared(row)
<1>1. /\ Fits(c) /\ c.lockedUntil = 0
      /\ Table!Expired(row) => c.attempts = 0
      /\ ~Table!Expired(row) => c = row
  BY ClearedFits
<1> HIDE DEF c
<1>2. /\ c.attempts \in Nat /\ c.attempts < limits.attempts /\ limits.attempts \in Nat /\ row.attempts \in Nat
      /\ c.lockedUntil \in 0 .. MaxTime + LockTime
  BY <1>1 DEF Fits, Table!Row, TableTyped
<1>3. c.attempts + 1 \in 0 .. limits.attempts /\ now \in 0 .. MaxTime
      /\ now + LockTime \in 0 .. MaxTime + LockTime /\ now + LockTime # 0
  BY <1>2, AddressesAssumption DEF TableTyped
<1>4. Fits(Table!Charged(c))
  BY <1>1, <1>2, <1>3 DEF Fits, Table!Charged, Table!Row
<1>5. Table!Charged(c).attempts = c.attempts + 1
  BY DEF Table!Charged
<1> QED BY <1>1, <1>2, <1>4, <1>5 DEF c

LEMMA ChargeKeeps ==
    ASSUME TableInv, NEW r \in Requests, Table!Charge(r), UNCHANGED limits
    PROVE  TableInv'
<1> USE DEF TableInv
<1> DEFINE i == tableReq[r].ip
           x == tableReq[r].row
           expired == Table!Expired(rows[i][x])
           base == IF expired THEN Table!Uncounted(i, x) ELSE tableReq
           charged == Table!Charged(Table!Cleared(rows[i][x]))
           mine == table[i] = x
           asked == [tableReq[r] EXCEPT !.phase = "verify", !.counts = mine]
<1>1. /\ tableReq[r].phase = "body" /\ ~Table!Locked(rows[i][x])
      /\ rows' = [rows EXCEPT ![i][x] = charged]
      /\ tableReq' = [base EXCEPT ![r] = asked]
      /\ credited' = IF expired /\ mine THEN [credited EXCEPT ![i] = 0] ELSE credited
      /\ UNCHANGED <<limits, tableRuns, table, disk, now>>
  BY DEF Table!Charge
<1>2. i \in Ips /\ x \in Table!Rows /\ Fits(rows[i][x]) /\ tableReq[r] \in Request /\ ~tableReq[r].counts
  BY <1>1 DEF ChargesStand, TableBounded, TableTyped
<1>3. /\ Fits(charged) /\ rows[i][x].attempts \in Nat
      /\ charged.attempts = IF expired THEN 1 ELSE rows[i][x].attempts + 1
  BY <1>1, <1>2, ChargedFits
<1>4. /\ base \in [Requests -> Request]
      /\ \A q \in Requests : base[q].phase = tableReq[q].phase /\ base[q].ip = tableReq[q].ip
                             /\ base[q].row = tableReq[q].row
      /\ \A q \in Requests : base[q].counts => tableReq[q].counts
      /\ expired => \A q \in Requests : base[q].counts => ~(tableReq[q].ip = i /\ tableReq[q].row = x)
  BY <1>2, UncountedCounts DEF TableTyped
<1>5. mine \in BOOLEAN
  OBVIOUS
<1> HIDE DEF base, expired, charged, mine
<1>6. asked \in Request /\ asked.ip = i /\ asked.row = x /\ asked.phase = "verify" /\ asked.counts = mine
  BY <1>2, <1>5 DEF Request
<1> HIDE DEF asked
<1>7. /\ \A q \in Requests : q # r => tableReq'[q] = base[q]
      /\ tableReq'[r] = asked
      /\ tableReq' \in [Requests -> Request]
  BY <1>1, <1>4, <1>6
<1>8. /\ \A j \in Ips, y \in Table!Rows : <<j, y>> # <<i, x>> => rows'[j][y] = rows[j][y]
      /\ rows'[i][x] = charged
      /\ rows' \in [Ips -> [Table!Rows -> Table!Row]]
  BY <1>1, <1>2, <1>3 DEF TableTyped, Fits
<1>9. \A j \in Ips, y \in Table!Rows : Fits(rows'[j][y])
  BY <1>3, <1>8 DEF TableBounded
<1>10. ChargesStand'
  <2>1. \A q \in Requests : tableReq'[q].phase # "idle" => tableReq'[q].ip \in Ips /\ tableReq'[q].row \in Table!Rows
    BY <1>2, <1>4, <1>6, <1>7 DEF ChargesStand
  <2>2. \A q \in Requests : q # r /\ tableReq'[q].counts =>
            tableReq'[q].phase = "verify" /\ table'[tableReq'[q].ip] = tableReq'[q].row
    BY <1>1, <1>4, <1>7 DEF ChargesStand
  <2>3. tableReq'[r].counts => tableReq'[r].phase = "verify" /\ table'[tableReq'[r].ip] = tableReq'[r].row
    BY <1>1, <1>6, <1>7 DEF mine
  <2> QED BY <2>1, <2>2, <2>3 DEF ChargesStand
<1>11. credited' \in [Ips -> Nat] /\ \A j \in Ips : credited'[j] <= credited[j]
  BY <1>1, <1>2 DEF TableTyped
<1>12. ASSUME NEW j \in Ips, table'[j] # Table!NoRow
       PROVE  rows'[j][table'[j]].attempts >= credited'[j] + Cardinality(Owed(j)')
  <2>1. /\ table'[j] = table[j] /\ table[j] \in Table!Rows /\ rows[j][table[j]].attempts \in Nat
        /\ credited[j] \in Nat /\ Cardinality(Owed(j)) \in Nat
        /\ rows[j][table[j]].attempts >= credited[j] + Cardinality(Owed(j))
    BY <1>1, <1>12, RowNumbers
  <2>2. CASE j = i /\ mine
    <3>1. table[j] = x /\ rows'[j][table'[j]] = charged
      BY <1>8, <2>1, <2>2 DEF mine
    <3>2. CASE expired
      <4>1. Owed(j)' \subseteq {} \cup {r}
        <5>1. \A q \in Requests : q # r => ~(tableReq'[q].counts /\ tableReq'[q].ip = j)
          BY <1>4, <1>7, <2>2, <3>1, <3>2 DEF ChargesStand
        <5> QED BY <5>1 DEF Owed
      <4>2. Cardinality(Owed(j)') \in Nat /\ Cardinality(Owed(j)') <= 1
        BY <4>1, FS_AddElement, FS_EmptySet, FS_Subset, FS_CardinalityType
      <4>3. credited'[j] = 0
        BY <1>1, <1>2, <2>2, <3>2 DEF TableTyped
      <4> QED BY <1>3, <3>1, <3>2, <4>2, <4>3
    <3>3. CASE ~expired
      <4>1. Owed(j)' \subseteq Owed(j) \cup {r}
        BY <1>4, <1>7 DEF Owed
      <4>2. IsFiniteSet(Owed(j) \cup {r}) /\ Cardinality(Owed(j) \cup {r}) <= Cardinality(Owed(j)) + 1
            /\ Cardinality(Owed(j) \cup {r}) \in Nat
        <5>1. IsFiniteSet(Owed(j)) /\ Cardinality(Owed(j)) \in Nat
          BY OwedIsFinite
        <5>2. /\ IsFiniteSet(Owed(j) \cup {r})
              /\ Cardinality(Owed(j) \cup {r}) =
                    IF r \in Owed(j) THEN Cardinality(Owed(j)) ELSE Cardinality(Owed(j)) + 1
          BY <5>1, FS_AddElement
        <5> QED BY <5>1, <5>2
      <4>3. Cardinality(Owed(j)') \in Nat /\ Cardinality(Owed(j)') <= Cardinality(Owed(j) \cup {r})
        BY <4>1, <4>2, FS_Subset, FS_CardinalityType
      <4>4. credited'[j] = credited[j] /\ charged.attempts = rows[j][table[j]].attempts + 1
        BY <1>1, <1>3, <2>2, <3>1, <3>3
      <4> QED BY <2>1, <3>1, <4>2, <4>3, <4>4
    <3> QED BY <3>2, <3>3
  <2>3. CASE ~(j = i /\ mine)
    <3>1. rows'[j][table'[j]] = rows[j][table[j]]
      BY <1>8, <2>1, <2>3 DEF mine
    <3>2. credited'[j] = credited[j]
      BY <1>1, <1>2, <2>3 DEF TableTyped
    <3>3. \A q \in Requests : tableReq'[q].counts /\ tableReq'[q].ip = j =>
                tableReq[q].counts /\ tableReq[q].ip = j
      BY <1>4, <1>6, <1>7, <2>3
    <3> QED BY <2>1, <3>1, <3>2, <3>3, OwedShrinks
  <2> QED BY <2>2, <2>3
<1>13. CreditStands'
  <2>1. \A j \in Ips : table'[j] = Table!NoRow => credited'[j] = 0
    BY <1>1, <1>2 DEF CreditStands, TableTyped
  <2> QED BY <1>1, <1>11, <1>12, <2>1, FileStillHas DEF CreditStands
<1> QED BY <1>1, <1>7, <1>8, <1>9, <1>10, <1>11, <1>13, FileStillHas, RowsMove

\* The end of a request, whose charge is owed no more.
LEMMA EndsRequest ==
    ASSUME TableInv, NEW r \in Requests, NEW base \in [Requests -> Request],
           \A q \in Requests : base[q].phase = tableReq[q].phase /\ base[q].ip = tableReq[q].ip
                               /\ base[q].row = tableReq[q].row,
           \A q \in Requests : base[q].counts => tableReq[q].counts,
           tableReq' = [base EXCEPT ![r] = Table!Idle], UNCHANGED table
    PROVE  /\ tableReq' \in [Requests -> Request] /\ ChargesStand'
           /\ ~tableReq'[r].counts
           /\ \A q \in Requests : tableReq'[q].counts => /\ q # r /\ base[q].counts /\ tableReq[q].counts
                                                         /\ tableReq'[q].ip = tableReq[q].ip
<1>1. tableReq'[r] = Table!Idle /\ \A q \in Requests : q # r => tableReq'[q] = base[q]
  OBVIOUS
<1>2. Table!Idle \in Request /\ Table!Idle.phase = "idle" /\ Table!Idle.counts = FALSE
  BY DEF Table!Idle, Request
<1>3. tableReq' \in [Requests -> Request]
  BY <1>2
<1>4. ChargesStand'
  BY <1>1, <1>2 DEF ChargesStand, TableInv
<1> QED BY <1>1, <1>2, <1>3, <1>4

\* A saved table is in the file with all that its rows have.
LEMMA SavedHas ==
    ASSUME TableInv, UNCHANGED <<limits, tableRuns, table, now>>, Table!Saved,
           \A i \in Ips, x \in Table!Rows : Fits(rows'[i][x]), rows' \in [Ips -> [Table!Rows -> Table!Row]],
           credited' \in [Ips -> Nat], \A i \in Ips : table[i] = Table!NoRow => credited'[i] = 0,
           \A i \in Ips : table[i] # Table!NoRow =>
                rows'[i][table[i]].attempts >= credited'[i] + Cardinality(Owed(i)')
    PROVE  CreditStands' /\ Holds(disk', [i \in Ips |-> 0])
<1>1. disk' = Table!Contents(table, rows')
  BY DEF Table!Saved
<1>2. ASSUME NEW i \in Ips, table[i] # Table!NoRow
      PROVE  rows'[i][table[i]].attempts >= credited'[i] /\ rows'[i][table[i]].attempts >= 0
  <2>1. table[i] \in Table!Rows /\ Cardinality(Owed(i)') \in Nat
    BY <1>2, RowNumbers, FS_Subset, FS_CardinalityType, AddressesAssumption DEF Owed
  <2>2. rows'[i][table[i]].attempts \in Nat /\ credited'[i] \in Nat
    BY <2>1 DEF Table!Row, TableInv, TableTyped
  <2> QED BY <1>2, <2>1, <2>2
<1>3. /\ Holds(disk', [i \in Ips |-> 0])
      /\ \A i \in Ips : table[i] # Table!NoRow => disk'[i] = rows'[i][table[i]]
  BY <1>1, <1>2, ContentsHold DEF TableInv, TableBounded
<1>4. ASSUME NEW i \in Ips, credited'[i] > 0
      PROVE  disk'[i] # None /\ disk'[i].attempts >= credited'[i]
  <2>1. table[i] # Table!NoRow
    BY <1>4
  <2>2. table[i] \in Table!Rows /\ disk'[i] = rows'[i][table[i]]
    BY <1>3, <2>1, RowNumbers
  <2>3. disk'[i] # None
    BY <2>2, RowFacts DEF Fits, TableInv
  <2> QED BY <1>2, <2>1, <2>2, <2>3
<1> QED BY <1>3, <1>4 DEF CreditStands

LEMMA WrongKeeps ==
    ASSUME TableInv, NEW r \in Requests, Table!Wrong(r), UNCHANGED limits
    PROVE  TableInv'
<1> USE DEF TableInv
<1> DEFINE i == tableReq[r].ip
<1>1. /\ tableReq[r].phase = "verify" /\ tableReq' = [tableReq EXCEPT ![r] = Table!Idle]
      /\ credited' = IF tableReq[r].counts THEN [credited EXCEPT ![i] = credited[i] + 1] ELSE credited
      /\ UNCHANGED <<limits, tableRuns, table, now>>
      /\ Table!Rewrite(rows) /\ Table!Saved
  BY DEF Table!Wrong
<1>2. /\ tableReq' \in [Requests -> Request] /\ ChargesStand' /\ ~tableReq'[r].counts
      /\ \A q \in Requests : tableReq'[q].counts => q # r /\ tableReq[q].counts /\ tableReq'[q].ip = tableReq[q].ip
  BY <1>1, EndsRequest DEF TableTyped
<1>3. /\ \A j \in Ips, x \in Table!Rows : Fits(rows'[j][x])
      /\ rows' \in [Ips -> [Table!Rows -> Table!Row]]
      /\ \A j \in Ips, x \in Table!Rows : table'[j] = x => rows'[j][x] = rows[j][x]
  BY <1>1, RewriteFits DEF TableBounded
<1>4. i \in Ips /\ (tableReq[r].counts => table[i] # Table!NoRow)
  BY <1>1, RowFacts DEF ChargesStand
<1>5. credited' \in [Ips -> Nat] /\ \A j \in Ips : table[j] = Table!NoRow => credited'[j] = 0
  BY <1>1, <1>4 DEF TableTyped, CreditStands
<1>6. ASSUME NEW j \in Ips, table[j] # Table!NoRow
      PROVE  rows'[j][table[j]].attempts >= credited'[j] + Cardinality(Owed(j)')
  <2>1. /\ table[j] \in Table!Rows /\ rows[j][table[j]].attempts \in Nat
        /\ credited[j] \in Nat /\ Cardinality(Owed(j)) \in Nat
        /\ rows[j][table[j]].attempts >= credited[j] + Cardinality(Owed(j))
    BY <1>6, RowNumbers
  <2>2. rows'[j][table[j]] = rows[j][table[j]]
    BY <1>1, <1>3, <2>1
  <2>3. Cardinality(Owed(j)') \in Nat /\ Cardinality(Owed(j)') <= Cardinality(Owed(j))
    BY <1>2, OwedShrinks
  <2>4. CASE j = i /\ tableReq[r].counts
    <3>1. Owed(j)' \subseteq Owed(j) \ {r} /\ r \in Owed(j)
      BY <1>2, <2>4 DEF Owed
    <3>2. IsFiniteSet(Owed(j) \ {r}) /\ Cardinality(Owed(j) \ {r}) = Cardinality(Owed(j)) - 1
      BY <3>1, OwedIsFinite, FS_RemoveElement
    <3>3. Cardinality(Owed(j)') <= Cardinality(Owed(j)) - 1
      BY <3>1, <3>2, FS_Subset
    <3>4. credited'[j] = credited[j] + 1
      BY <1>1, <2>4 DEF TableTyped
    <3> QED BY <2>1, <2>2, <2>3, <3>3, <3>4
  <2>5. CASE ~(j = i /\ tableReq[r].counts)
    <3>1. credited'[j] = credited[j]
      BY <1>1, <1>4, <2>5 DEF TableTyped
    <3> QED BY <2>1, <2>2, <2>3, <3>1
  <2> QED BY <2>4, <2>5
<1>7. CreditStands' /\ Holds(disk', [j \in Ips |-> 0])
  BY <1>1, <1>3, <1>5, <1>6, SavedHas
<1> QED BY <1>1, <1>2, <1>3, <1>5, <1>7, RowsMove


\* A row that is reset.
LEMMA ResetFits ==
    ASSUME TableTyped, NEW row, Fits(row)
    PROVE  LET reset == [row EXCEPT !.attempts = 0, !.lockedUntil = 0]
           IN  Fits(reset) /\ reset.attempts = 0
<1>1. row \in Table!Row /\ 0 \in 0 .. limits.attempts /\ 0 \in 0 .. MaxTime + LockTime /\ 0 < limits.attempts
  BY AddressesAssumption DEF Fits, TableTyped
<1>2. PICK a \in 0 .. limits.attempts, l \in 0 .. MaxTime + LockTime, t \in {Table!Never} \cup 0 .. MaxTime :
        row = [attempts |-> a, lockedUntil |-> l, lastAttemptAt |-> t]
  BY <1>1 DEF Table!Row
<1> DEFINE once == [row EXCEPT !.attempts = 0]
<1>3. once = [attempts |-> 0, lockedUntil |-> l, lastAttemptAt |-> t]
  BY <1>2
<1> HIDE DEF once
<1>4. [once EXCEPT !.lockedUntil = 0] = [attempts |-> 0, lockedUntil |-> 0, lastAttemptAt |-> t]
  BY <1>3
<1>5. [row EXCEPT !.attempts = 0, !.lockedUntil = 0] = [once EXCEPT !.lockedUntil = 0]
  BY DEF once
<1> QED BY <1>1, <1>4, <1>5 DEF Fits, Table!Row

LEMMA RightKeeps ==
    ASSUME TableInv, NEW r \in Requests, Table!Right(r), UNCHANGED limits
    PROVE  TableInv'
<1> USE DEF TableInv
<1> DEFINE i == tableReq[r].ip
           x == tableReq[r].row
           clean == [rows[i][x] EXCEPT !.attempts = 0, !.lockedUntil = 0]
           reset == [rows EXCEPT ![i][x].attempts = 0, ![i][x].lockedUntil = 0]
           mine == table[i] = x
           credit == IF mine THEN [credited EXCEPT ![i] = 0] ELSE credited
           base == Table!Uncounted(i, x)
<1>1. /\ tableReq[r].phase = "verify"
      /\ \/ /\ tableReq' = [base EXCEPT ![r] = Table!Idle]
            /\ credited' = credit
            /\ UNCHANGED <<tableRuns, table, now>>
            /\ Table!Rewrite(reset) /\ Table!Saved
         \/ Table!Stops(Table!Contents(table, reset), credit)
  BY DEF Table!Right
<1>2. i \in Ips /\ x \in Table!Rows /\ Fits(rows[i][x]) /\ rows[i] \in [Table!Rows -> Table!Row]
  BY <1>1 DEF ChargesStand, TableBounded, TableTyped
<1>3. Fits(clean) /\ clean.attempts = 0
  BY <1>2, ResetFits
<1>4. /\ reset[i][x] = clean
      /\ \A j \in Ips, y \in Table!Rows : <<j, y>> # <<i, x>> => reset[j][y] = rows[j][y]
  BY <1>2 DEF TableTyped
<1>5. base \in [Requests -> Request]
      /\ (\A q \in Requests : base[q].phase = tableReq[q].phase /\ base[q].ip = tableReq[q].ip
                              /\ base[q].row = tableReq[q].row)
      /\ (\A q \in Requests : base[q].counts => tableReq[q].counts)
      /\ (\A q \in Requests : base[q].counts => ~(tableReq[q].ip = i /\ tableReq[q].row = x))
  BY <1>2, UncountedCounts DEF TableTyped
<1>6. credit \in [Ips -> Nat] /\ (mine => credit[i] = 0) /\ \A j \in Ips : ~(j = i /\ mine) => credit[j] = credited[j]
  BY <1>2 DEF TableTyped
<1> HIDE DEF base, clean, reset, credit, mine
<1>7. \A j \in Ips, y \in Table!Rows : Fits(reset[j][y])
  BY <1>3, <1>4 DEF TableBounded
<1>8. \A j \in Ips : table[j] = Table!NoRow => credit[j] = 0
  BY <1>6 DEF CreditStands
<1>9. \A j \in Ips : table[j] # Table!NoRow =>
            /\ j = i /\ mine => reset[j][table[j]].attempts = 0
            /\ ~(j = i /\ mine) => reset[j][table[j]] = rows[j][table[j]]
  BY <1>3, <1>4 DEF mine, TableTyped
<1>10. CASE /\ tableReq' = [base EXCEPT ![r] = Table!Idle]
            /\ credited' = credit
            /\ UNCHANGED <<tableRuns, table, now>>
            /\ Table!Rewrite(reset) /\ Table!Saved
  <2>1. /\ tableReq' \in [Requests -> Request] /\ ChargesStand'
        /\ \A q \in Requests : tableReq'[q].counts => q # r /\ base[q].counts /\ tableReq[q].counts
                                                       /\ tableReq'[q].ip = tableReq[q].ip
    BY <1>5, <1>10, EndsRequest
  <2>2. /\ \A j \in Ips, y \in Table!Rows : Fits(rows'[j][y])
        /\ rows' \in [Ips -> [Table!Rows -> Table!Row]]
        /\ \A j \in Ips, y \in Table!Rows : table'[j] = y => rows'[j][y] = reset[j][y]
    BY <1>7, <1>10, RewriteFits
  <2>3. ASSUME NEW j \in Ips, table[j] # Table!NoRow
        PROVE  rows'[j][table[j]].attempts >= credited'[j] + Cardinality(Owed(j)')
    <3>1. /\ table[j] \in Table!Rows /\ rows[j][table[j]].attempts \in Nat
          /\ credited[j] \in Nat /\ Cardinality(Owed(j)) \in Nat
          /\ rows[j][table[j]].attempts >= credited[j] + Cardinality(Owed(j))
      BY <2>3, RowNumbers
    <3>2. rows'[j][table[j]] = reset[j][table[j]]
      BY <1>10, <2>2, <3>1
    <3>3. CASE j = i /\ mine
      <4>1. \A q \in Requests : ~(tableReq'[q].counts /\ tableReq'[q].ip = j)
        BY <1>5, <2>1, <3>3 DEF mine, ChargesStand
      <4>2. Cardinality(Owed(j)') = 0
        BY <4>1, OwedGone
      <4> QED BY <1>6, <1>9, <1>10, <2>3, <3>2, <3>3, <4>2
    <3>4. CASE ~(j = i /\ mine)
      <4>1. Cardinality(Owed(j)') \in Nat /\ Cardinality(Owed(j)') <= Cardinality(Owed(j))
        BY <2>1, OwedShrinks
      <4>2. credited'[j] = credited[j] /\ reset[j][table[j]] = rows[j][table[j]]
        BY <1>6, <1>9, <1>10, <2>3, <3>4
      <4> QED BY <3>1, <3>2, <4>1, <4>2
    <3> QED BY <3>3, <3>4
  <2>4. CreditStands' /\ Holds(disk', [j \in Ips |-> 0])
    BY <1>6, <1>8, <1>10, <2>2, <2>3, SavedHas
  <2> QED BY <1>6, <1>10, <2>1, <2>2, <2>4, RowsMove
<1>11. CASE Table!Stops(Table!Contents(table, reset), credit)
  <2>1. ASSUME NEW j \in Ips, table[j] # Table!NoRow
        PROVE  reset[j][table[j]].attempts >= credit[j]
    <3>1. /\ rows[j][table[j]].attempts \in Nat
          /\ credited[j] \in Nat /\ Cardinality(Owed(j)) \in Nat
          /\ rows[j][table[j]].attempts >= credited[j] + Cardinality(Owed(j))
      BY <2>1, RowNumbers
    <3> QED BY <1>6, <1>9, <2>1, <3>1
  <2>2. Holds(Table!Contents(table, reset), credit)
    BY <1>7, <2>1, ContentsHold DEF TableBounded
  <2> QED BY <1>6, <1>11, <2>2, StopsKeeps
<1> QED BY <1>1, <1>10, <1>11

LEMMA RefusedKeeps ==
    ASSUME TableInv, NEW r \in Requests, Table!Refused(r), UNCHANGED limits
    PROVE  TableInv'
<1> USE DEF TableInv
<1>1. /\ tableReq' = [tableReq EXCEPT ![r] = Table!Idle] /\ Table!Rewrite(rows)
      /\ UNCHANGED <<limits, tableRuns, table, disk, credited, now>>
  BY DEF Table!Refused
<1>2. /\ tableReq' \in [Requests -> Request] /\ ChargesStand'
      /\ \A q \in Requests : tableReq'[q].counts => tableReq[q].counts /\ tableReq'[q].ip = tableReq[q].ip
  BY <1>1, EndsRequest DEF TableTyped
<1>3. /\ \A j \in Ips, x \in Table!Rows : Fits(rows'[j][x])
      /\ rows' \in [Ips -> [Table!Rows -> Table!Row]]
      /\ \A j \in Ips, x \in Table!Rows : table'[j] = x => rows'[j][x] = rows[j][x]
  BY <1>1, RewriteFits DEF TableBounded
<1>4. credited' \in [Ips -> Nat] /\ \A j \in Ips : credited'[j] <= credited[j]
  BY <1>1 DEF TableTyped
<1>5. ASSUME NEW j \in Ips, table'[j] # Table!NoRow
      PROVE  rows'[j][table'[j]].attempts >= credited'[j] + Cardinality(Owed(j)')
  <2>1. /\ table'[j] = table[j] /\ table[j] \in Table!Rows /\ rows[j][table[j]].attempts \in Nat
        /\ credited[j] \in Nat /\ Cardinality(Owed(j)) \in Nat
        /\ rows[j][table[j]].attempts >= credited[j] + Cardinality(Owed(j))
    BY <1>1, <1>5, RowNumbers
  <2>2. rows'[j][table'[j]] = rows[j][table[j]]
    BY <1>3, <2>1
  <2>3. Cardinality(Owed(j)') \in Nat /\ Cardinality(Owed(j)') <= Cardinality(Owed(j))
    BY <1>2, OwedShrinks
  <2> QED BY <1>1, <2>1, <2>2, <2>3
<1>6. CreditStands'
  BY <1>1, <1>4, <1>5, FileStillHas DEF CreditStands
<1> QED BY <1>1, <1>2, <1>3, <1>4, <1>6, FileStillHas, RowsMove

LEMMA SaveStateKeeps ==
    ASSUME TableInv, Table!SaveState, UNCHANGED limits
    PROVE  TableInv'
<1> USE DEF TableInv
<1>1. UNCHANGED <<limits, tableRuns, table, rows, tableReq, credited, now>> /\ Table!Saved
  BY DEF Table!SaveState
<1>2. /\ \A j \in Ips, x \in Table!Rows : Fits(rows'[j][x])
      /\ rows' \in [Ips -> [Table!Rows -> Table!Row]]
      /\ tableReq' \in [Requests -> Request] /\ credited' \in [Ips -> Nat]
      /\ \A j \in Ips : table[j] = Table!NoRow => credited'[j] = 0
  BY <1>1 DEF TableBounded, TableTyped, CreditStands
<1>3. ChargesStand'
  BY <1>1 DEF ChargesStand
<1>4. \A j \in Ips : table[j] # Table!NoRow => rows'[j][table[j]].attempts >= credited'[j] + Cardinality(Owed(j)')
  BY <1>1 DEF CreditStands, Owed
<1>5. CreditStands' /\ Holds(disk', [j \in Ips |-> 0])
  BY <1>1, <1>2, <1>4, SavedHas
<1> QED BY <1>1, <1>2, <1>3, <1>5, RowsMove

LEMMA StopKeeps ==
    ASSUME TableInv, Table!Stop, UNCHANGED limits
    PROVE  TableInv'
<1> USE DEF TableInv
<1>1. PICK content \in {disk, Table!Contents(table, rows)} : Table!Stops(content, credited)
  BY DEF Table!Stop
<1>2. credited \in [Ips -> Nat]
  BY DEF TableTyped
<1>3. CASE content = disk
  <2>1. ASSUME NEW j \in Ips, disk[j] # None
        PROVE  disk[j].attempts >= credited[j]
    <3>1. disk[j].attempts \in Nat
      BY <2>1 DEF TableBounded, Holds, Fits, Table!Row, TableTyped
    <3> QED BY <1>2, <3>1 DEF CreditStands
  <2>2. Holds(disk, credited)
    BY <2>1 DEF TableBounded, Holds
  <2> QED BY <1>1, <1>2, <1>3, <2>2, StopsKeeps
<1>4. CASE content = Table!Contents(table, rows)
  <2>1. \A j \in Ips : table[j] # Table!NoRow => rows[j][table[j]].attempts >= credited[j]
    BY RowNumbers
  <2>2. Holds(content, credited)
    BY <1>4, <2>1, ContentsHold DEF TableBounded
  <2> QED BY <1>1, <1>2, <2>2, StopsKeeps
<1> QED BY <1>1, <1>3, <1>4

\* Neither the clock, nor a new process, nor a step of another part changes any of it.
LEMMA RestKeeps ==
    ASSUME TableInv, UNCHANGED <<limits, table, rows, disk, tableReq, credited>>,
           tableRuns' \in BOOLEAN, now' \in 0 .. MaxTime
    PROVE  TableInv'
<1> USE DEF TableInv
<1>1. Table!Row' = Table!Row /\ \A row : Fits(row)' <=> Fits(row)
  BY DEF Table!Row, Fits
<1>2. TableTyped'
  BY <1>1 DEF TableTyped
<1>3. Holds(disk, [i \in Ips |-> 0])'
  BY <1>1 DEF Holds, TableBounded
<1>4. TableBounded'
  BY <1>1, <1>3 DEF TableBounded, Table!Used
<1>5. ChargesStand' /\ CreditStands'
  BY DEF ChargesStand, CreditStands, Owed
<1> QED BY <1>2, <1>4, <1>5

LEMMA TableStepHolds ==
    ASSUME TableInv, Table!Next
    PROVE  TableInv'
<1>1. CASE \E r \in Requests : \/ \E i \in Ips : Table!BeginKnown(r, i) \/ Table!BeginNew(r, i)
                               \/ Table!Charge(r) \/ Table!Wrong(r) \/ Table!Right(r) \/ Table!Refused(r)
  BY <1>1, BeginKnownKeeps, BeginNewKeeps, ChargeKeeps, WrongKeeps, RightKeeps, RefusedKeeps DEF Table!Next
<1>2. CASE Table!SaveState \/ Table!Stop
  BY <1>2, SaveStateKeeps, StopKeeps DEF Table!Next
<1>3. CASE Table!Restart \/ Table!Tick
  <2>1. now \in 0 .. MaxTime /\ tableRuns \in BOOLEAN /\ MaxTime \in Nat
    BY AddressesAssumption DEF TableInv, TableTyped
  <2>2. UNCHANGED <<limits, table, rows, disk, tableReq, credited>>
    BY <1>3 DEF Table!Next, Table!Restart, Table!Tick
  <2>3. tableRuns' \in BOOLEAN
    BY <1>3, <2>1 DEF Table!Restart, Table!Tick
  <2>4. now' \in 0 .. MaxTime
    BY <1>3, <2>1 DEF Table!Restart, Table!Tick
  <2> QED BY <2>2, <2>3, <2>4, RestKeeps
<1> QED BY <1>1, <1>2, <1>3 DEF Table!Next

\* A step that makes a row for a new address takes none from a locked one while one that is not locked
\* keeps its own; no other step of a store that goes on takes any.
LEMMA LockedRowsGoLast ==
    ASSUME TableInv, Table!Next
    PROVE  Table!LockedGoLast
<1> SUFFICES ASSUME tableRuns, tableRuns'
             PROVE  \A i \in Ips :
                        table[i] # Table!NoRow /\ Table!Locked(rows[i][table[i]]) /\ table'[i] # table[i] =>
                            \A j \in Ips : table'[j] # Table!NoRow /\ table'[j] = table[j] =>
                                Table!Locked(rows[j][table[j]])
  BY DEF Table!LockedGoLast
<1>1. CASE UNCHANGED table
  BY <1>1
<1>2. CASE \E r \in Requests, i \in Ips : Table!BeginNew(r, i)
  <2>1. PICK r \in Requests, n \in Ips : Table!BeginNew(r, n)
    BY <1>2
  <2>2. table[n] = Table!NoRow
    BY <2>1 DEF Table!BeginNew
  <2>3. PICK kept \in SUBSET Table!Used :
          /\ Table!Prune(kept)
          /\ table' = [j \in Ips |-> IF j = n THEN Table!FreeRow(n)
                                     ELSE IF j \in kept THEN table[j] ELSE Table!NoRow]
    BY <2>1 DEF Table!BeginNew
  <2>4. \A i \in Table!Used \ kept, j \in kept :
            Table!Locked(rows[i][table[i]]) => Table!Locked(rows[j][table[j]])
    BY <2>3, PruneLeavesRoom
  <2>5. n \notin Table!Used
    BY <2>2 DEF Table!Used
  <2>6. ASSUME NEW i \in Ips, table[i] # Table!NoRow, table'[i] # table[i]
        PROVE  i \in Table!Used \ kept
    BY <2>2, <2>3, <2>6 DEF Table!Used
  <2>7. ASSUME NEW j \in Ips, table'[j] # Table!NoRow, table'[j] = table[j]
        PROVE  j \in kept
    BY <2>2, <2>3, <2>7
  <2> QED BY <2>4, <2>6, <2>7
<1>3. Table!Next /\ tableRuns /\ tableRuns' => UNCHANGED table \/ \E r \in Requests, i \in Ips : Table!BeginNew(r, i)
  BY DEF Table!Next, Table!BeginKnown, Table!Charge, Table!Wrong, Table!Right, Table!Refused, Table!SaveState,
         Table!Stop, Table!Stops, Table!Restart, Table!Tick
<1> QED BY <1>1, <1>2, <1>3

LEMMA AddressesTable == Spec => []TableInv
<1>1. Init => TableInv
  BY TableInitHolds DEF Init
<1>2. TableInv /\ [Next]_<<atWork, lockouts, policy, probe>> => TableInv'
  <2> SUFFICES ASSUME TableInv, [Next]_<<atWork, lockouts, policy, probe>>
               PROVE  TableInv'
    OBVIOUS
  <2>1. CASE Table!Next
    BY <2>1, TableStepHolds
  <2>2. CASE UNCHANGED lockouts
    BY <2>2, RestKeeps DEF lockouts, TableInv, TableTyped
  <2> QED BY <2>1, <2>2 DEF Next
<1> QED BY <1>1, <1>2, PTL DEF Spec

\* What was answered stays on its row, in memory and in the file, over crashes, failed writes and other
\* handlers; a locked address loses its row only to other locked ones; and the table keeps its limit.
THEOREM AddressesKeepFailures == Spec => AnsweredFailuresLast
<1>1. TableInv /\ TableInv' /\ [Next]_<<atWork, lockouts, policy, probe>> =>
        [Table!FailuresLast' /\ Table!LockedGoLast /\ Table!TypeOK']_<<atWork, lockouts, policy, probe>>
  <2> SUFFICES ASSUME TableInv, TableInv', Next
               PROVE  Table!FailuresLast' /\ Table!LockedGoLast /\ Table!TypeOK'
    OBVIOUS
  <2>1. Table!FailuresLast' /\ Table!TypeOK'
    BY TableInvImplies, PTL
  <2>2. Table!Next => Table!LockedGoLast
    BY LockedRowsGoLast
  <2>3. UNCHANGED lockouts => Table!LockedGoLast
    BY DEF lockouts, Table!LockedGoLast
  <2> QED BY <2>1, <2>2, <2>3 DEF Next
<1> QED BY <1>1, AddressesTable, PTL DEF Spec, AnsweredFailuresLast

-----------------------------------------------------------------------------
(* The lists and the visitors *)

Distinct(s) == \A i, j \in 1 .. Len(s) : s[i] = s[j] => i = j

\* A list of visitors.
Kept(s) == s \in Seq(Lists!Clients) /\ Distinct(s) /\ Len(s) <= MaxVisitors

\* A configuration that is in force.
Proper(c) ==
    /\ c \in Lists!Config(Lists!Entry)
    /\ c.allow \cap c.deny = {} /\ Lists!Loopback \subseteq c.allow

\* Who is on a list of visitors has not been allowed.
Unsettled(s) == \A i \in 1 .. Len(s) : s[i] \notin settled

Login == [ip : Lists!Clients \cup {None}, whitelisted : BOOLEAN]

\* What is in force is what the file says, also while nothing runs.
ListsInv ==
    /\ world \in Worlds /\ running \in BOOLEAN
    /\ Proper(cfg) /\ file \in Lists!Config(Lists!Raw) /\ Lists!Loaded(file) = cfg
    /\ Kept(visitors) /\ Kept(visitorsFile)
    /\ req \in [Logins -> Login]
    /\ \A r \in Logins : req[r].ip = None => req[r] = Lists!Idle
    /\ settled \subseteq cfg.allow \cap Lists!Clients
    /\ Unsettled(visitors) /\ Unsettled(visitorsFile)

\* The members of a list of visitors.
LEMMA KeptTypes ==
    ASSUME NEW s, Kept(s)
    PROVE  /\ Lists!ToSet(s) = {s[i] : i \in 1 .. Len(s)} /\ Lists!ToSet(s) \subseteq Lists!Clients
           /\ Lists!IsInjective(s)
<1>1. DOMAIN s = 1 .. Len(s) /\ \A i \in 1 .. Len(s) : s[i] \in Lists!Clients
  BY LenProperties, ElementOfSeq DEF Kept
<1>2. Lists!ToSet(s) = {s[i] : i \in 1 .. Len(s)}
  BY <1>1 DEF Lists!ToSet
<1>3. Lists!IsInjective(s)
  BY <1>1 DEF Kept, Distinct, Lists!IsInjective
<1> QED BY <1>1, <1>2, <1>3

\* A visitor that is removed is gone, the others stay, in their order.
LEMMA VisitorRemoved ==
    ASSUME NEW s, Kept(s), NEW e
    PROVE  LET t == Lists!RemoveFirst(s, e) IN
           Kept(t) /\ \A k \in 1 .. Len(t) : t[k] # e /\ \E j \in 1 .. Len(s) : t[k] = s[j]
<1>1. CASE \E k \in 1 .. Len(s) : s[k] = e
  <2>1. PICK k \in 1 .. Len(s) : s[k] = e
    BY <1>1
  <2>2. Len(s) \in Nat /\ s \in Seq(Lists!Clients) /\ \A i \in 1 .. Len(s) : s[i] \in Lists!Clients
    BY LenProperties, ElementOfSeq DEF Kept
  <2>3. Lists!RemoveFirst(s, e) = Lists!RemoveAt(s, k)
    <3>1. {i \in 1 .. Len(s) : s[i] = e} = {k}
      BY <2>1 DEF Kept, Distinct
    <3>2. Lists!Min({k}) = k
      BY <2>2 DEF Lists!Min
    <3> QED BY <1>1, <3>1, <3>2 DEF Lists!RemoveFirst, Lists!SelectInSeq
  <2> DEFINE a == SubSeq(s, 1, k - 1)
             b == SubSeq(s, k + 1, Len(s))
             t == a \o b
  <2>4. a \in Seq(Lists!Clients) /\ Len(a) = k - 1 /\ \A i \in 1 .. k - 1 : a[i] = s[i]
    <3>1. \A i \in 1 .. k - 1 : s[i] \in Lists!Clients
      BY <2>2
    <3> QED BY <2>2, <3>1, SubSeqProperties
  <2>5. b \in Seq(Lists!Clients) /\ Len(b) = Len(s) - k /\ \A i \in 1 .. Len(s) - k : b[i] = s[k + i]
    <3>1. \A i \in k + 1 .. Len(s) : s[i] \in Lists!Clients
      BY <2>2
    <3> QED BY <2>2, <3>1, SubSeqProperties
  <2> HIDE DEF a, b
  <2>6. t \in Seq(Lists!Clients) /\ Len(t) = Len(s) - 1
        /\ \A i \in 1 .. Len(s) - 1 : t[i] = IF i <= k - 1 THEN a[i] ELSE b[i - (k - 1)]
    BY <2>2, <2>4, <2>5, ConcatProperties
  <2> HIDE DEF t
  <2>7. \A i \in 1 .. Len(s) - 1 : t[i] = IF i <= k - 1 THEN s[i] ELSE s[i + 1]
    <3> SUFFICES ASSUME NEW i \in 1 .. Len(s) - 1
                 PROVE  t[i] = IF i <= k - 1 THEN s[i] ELSE s[i + 1]
      OBVIOUS
    <3>1. CASE i <= k - 1
      BY <2>2, <2>4, <2>6, <3>1
    <3>2. CASE i > k - 1
      <4>1. i - (k - 1) \in 1 .. Len(s) - k /\ k + (i - (k - 1)) = i + 1
        BY <2>2, <3>2
      <4> QED BY <2>2, <2>5, <2>6, <3>2, <4>1
    <3> QED BY <2>2, <3>1, <3>2
  <2>8. Distinct(t)
    <3> SUFFICES ASSUME NEW i \in 1 .. Len(s) - 1, NEW j \in 1 .. Len(s) - 1, t[i] = t[j]
                 PROVE  i = j
      BY <2>6 DEF Distinct
    <3>1. \A x, y \in 1 .. Len(s) : s[x] = s[y] => x = y
      BY DEF Kept, Distinct
    <3>2. ASSUME NEW n \in 1 .. Len(s) - 1
          PROVE  \E x \in 1 .. Len(s) : (n <= k - 1 => x = n) /\ (n > k - 1 => x = n + 1) /\ t[n] = s[x]
      <4>1. CASE n <= k - 1
        <5>1. n \in 1 .. Len(s) /\ t[n] = s[n]
          BY <2>2, <2>7, <4>1
        <5> QED BY <4>1, <5>1
      <4>2. CASE n > k - 1
        <5>1. n + 1 \in 1 .. Len(s) /\ t[n] = s[n + 1]
          BY <2>2, <2>7, <4>2
        <5> QED BY <4>2, <5>1
      <4> QED BY <2>2, <4>1, <4>2
    <3>3. PICK x \in 1 .. Len(s) : (i <= k - 1 => x = i) /\ (i > k - 1 => x = i + 1) /\ t[i] = s[x]
      BY <3>2
    <3>4. PICK y \in 1 .. Len(s) : (j <= k - 1 => y = j) /\ (j > k - 1 => y = j + 1) /\ t[j] = s[y]
      BY <3>2
    <3>5. x = y
      BY <3>1, <3>3, <3>4
    <3> QED BY <2>2, <3>3, <3>4, <3>5
  <2>9. \A i \in 1 .. Len(t) : t[i] # e /\ \E j \in 1 .. Len(s) : t[i] = s[j]
    <3>1. \A x, y \in 1 .. Len(s) : s[x] = s[y] => x = y
      BY DEF Kept, Distinct
    <3> QED BY <2>1, <2>2, <2>6, <2>7, <3>1
  <2>10. Kept(t)
    BY <2>2, <2>6, <2>8, AddressesAssumption DEF Kept
  <2> QED BY <2>3, <2>9, <2>10 DEF t, a, b, Lists!RemoveAt
<1>2. CASE ~\E k \in 1 .. Len(s) : s[k] = e
  BY <1>2 DEF Lists!RemoveFirst
<1> QED BY <1>1, <1>2

\* A visitor that is recorded is the last of the list, which keeps its limit.
LEMMA VisitorRecorded ==
    ASSUME Kept(visitors), NEW ip \in Lists!Clients
    PROVE  LET t == Lists!Recorded(ip) IN
           Kept(t) /\ \A k \in 1 .. Len(t) : t[k] = ip \/ \E j \in 1 .. Len(visitors) : t[k] = visitors[j]
<1> DEFINE s == Lists!RemoveFirst(visitors, ip)
           seen == Append(s, ip)
<1>1. /\ s \in Seq(Lists!Clients) /\ Len(s) \in Nat /\ Len(s) <= MaxVisitors /\ Distinct(s)
      /\ \A k \in 1 .. Len(s) : s[k] # ip /\ \E j \in 1 .. Len(visitors) : s[k] = visitors[j]
  BY VisitorRemoved, LenProperties DEF Kept
<1> HIDE DEF s
<1>2. /\ seen \in Seq(Lists!Clients) /\ Len(seen) = Len(s) + 1 /\ seen # <<>>
      /\ \A i \in 1 .. Len(s) : seen[i] = s[i]
      /\ seen[Len(s) + 1] = ip
  BY <1>1, AppendProperties
<1> HIDE DEF seen
<1>3. Distinct(seen)
  <2> SUFFICES ASSUME NEW i \in 1 .. Len(s) + 1, NEW j \in 1 .. Len(s) + 1, seen[i] = seen[j]
               PROVE  i = j
    BY <1>2 DEF Distinct
  <2>1. \A x, y \in 1 .. Len(s) : s[x] = s[y] => x = y
    BY <1>1 DEF Distinct
  <2> QED BY <1>1, <1>2, <2>1
<1>4. \A k \in 1 .. Len(seen) : seen[k] = ip \/ \E j \in 1 .. Len(visitors) : seen[k] = visitors[j]
  BY <1>1, <1>2
<1>5. CASE Len(seen) > MaxVisitors
  <2>1. /\ Tail(seen) \in Seq(Lists!Clients) /\ Len(Tail(seen)) = Len(s)
        /\ \A i \in 1 .. Len(s) : Tail(seen)[i] = seen[i + 1]
    BY <1>1, <1>2, HeadTailProperties
  <2>2. Distinct(Tail(seen))
    <3> SUFFICES ASSUME NEW i \in 1 .. Len(s), NEW j \in 1 .. Len(s), Tail(seen)[i] = Tail(seen)[j]
                 PROVE  i = j
      BY <2>1 DEF Distinct
    <3>1. \A x, y \in 1 .. Len(s) + 1 : seen[x] = seen[y] => x = y
      BY <1>2, <1>3 DEF Distinct
    <3>2. seen[i + 1] = seen[j + 1] /\ i + 1 \in 1 .. Len(s) + 1 /\ j + 1 \in 1 .. Len(s) + 1
      BY <1>1, <2>1
    <3>3. i + 1 = j + 1
      BY <3>1, <3>2
    <3> QED BY <1>1, <3>3
  <2>3. Lists!Recorded(ip) = Tail(seen)
    BY <1>5 DEF Lists!Recorded, seen, s
  <2>4. \A i \in 1 .. Len(s) : i + 1 \in 1 .. Len(seen)
    BY <1>1, <1>2
  <2> QED BY <1>1, <1>4, <2>1, <2>2, <2>3, <2>4 DEF Kept
<1>6. CASE Len(seen) <= MaxVisitors
  <2>1. Lists!Recorded(ip) = seen
    BY <1>1, <1>2, <1>6, AddressesAssumption DEF Lists!Recorded, seen, s
  <2> QED BY <1>2, <1>3, <1>4, <1>6, <2>1 DEF Kept
<1> QED BY <1>1, <1>2, <1>5, <1>6, AddressesAssumption

\* A configuration with other lists.
WithLists(c, a, d) == [c EXCEPT !.allow = a, !.deny = d]

LEMMA WithListsFields ==
    ASSUME NEW E, NEW c \in Lists!Config(E), NEW a, NEW d
    PROVE  /\ WithLists(c, a, d) = [allow |-> a, deny |-> d, ipLimit |-> c.ipLimit, operator |-> c.operator]
           /\ c.allow \in SUBSET E /\ c.deny \in SUBSET E /\ c.ipLimit \in BOOLEAN /\ c.operator \in BOOLEAN
           /\ c = [allow |-> c.allow, deny |-> c.deny, ipLimit |-> c.ipLimit, operator |-> c.operator]
<1>1. PICK a0 \in SUBSET E, d0 \in SUBSET E, l \in BOOLEAN, o \in BOOLEAN :
        c = [allow |-> a0, deny |-> d0, ipLimit |-> l, operator |-> o]
  BY DEF Lists!Config
<1> DEFINE once == [c EXCEPT !.allow = a]
<1>2. once = [allow |-> a, deny |-> d0, ipLimit |-> l, operator |-> o]
  BY <1>1
<1> HIDE DEF once
<1>3. [once EXCEPT !.deny = d] = [allow |-> a, deny |-> d, ipLimit |-> l, operator |-> o]
  BY <1>2
<1>4. WithLists(c, a, d) = [once EXCEPT !.deny = d]
  BY DEF once, WithLists
<1> QED BY <1>1, <1>3, <1>4

\* Entries as they are cleaned.
LEMMA CleanLists ==
    ASSUME NEW list \in SUBSET Lists!Raw
    PROVE  /\ Lists!SanitizeIpList(list) \subseteq Lists!Entry
           /\ Lists!SanitizeDenyList(list) \subseteq Lists!Entry \ Lists!Loopback
<1>1. \A raw \in Lists!Raw : raw.entry \in Lists!Entry \cup {Invalid}
  <2>1. Mapped \subseteq Lists!Entry
    BY AddressesAssumption DEF Lists!Entry, Lists!Clients
  <2>2. \A raw \in [entry : Lists!Entry, mapped : {FALSE}] : raw.entry \in Lists!Entry
    OBVIOUS
  <2>3. \A raw \in [entry : Mapped, mapped : {TRUE}] : raw.entry \in Lists!Entry
    BY <2>1
  <2>4. \A raw \in {[entry |-> Invalid, mapped |-> FALSE]} : raw.entry = Invalid
    OBVIOUS
  <2> QED BY <2>2, <2>3, <2>4 DEF Lists!Raw
<1> QED BY <1>1 DEF Lists!SanitizeIpList, Lists!SanitizeDenyList

\* With lists that are clean, a configuration is one that may be in force.
LEMMA ListsProper ==
    ASSUME NEW allow \in SUBSET Lists!Entry, NEW deny \in SUBSET (Lists!Entry \ Lists!Loopback),
           NEW l \in BOOLEAN, NEW o \in BOOLEAN
    PROVE  Proper([allow |-> Lists!EnsureLoopbackAllow(allow \ deny, deny), deny |-> deny,
                   ipLimit |-> l, operator |-> o])
<1>1. Lists!EnsureLoopbackAllow(allow \ deny, deny) = ((allow \ deny) \cup Lists!Loopback) \ deny
  BY DEF Lists!EnsureLoopbackAllow
<1>2. Lists!Loopback \subseteq Lists!Entry
  BY AddressesAssumption DEF Lists!Loopback, Lists!Entry, Lists!Clients
<1> QED BY <1>1, <1>2 DEF Proper, Lists!Config

LEMMA LoadedProper ==
    ASSUME NEW f \in Lists!Config(Lists!Raw)
    PROVE  /\ Proper(Lists!Loaded(f))
           /\ LET deny == Lists!SanitizeDenyList(f.deny)
                  allow == Lists!SanitizeIpList(f.allow)
              IN  Lists!Loaded(f) = [allow |-> Lists!EnsureLoopbackAllow(allow \ deny, deny), deny |-> deny,
                                     ipLimit |-> f.ipLimit, operator |-> f.operator]
<1> DEFINE deny == Lists!SanitizeDenyList(f.deny)
           allow == Lists!EnsureLoopbackAllow(Lists!SanitizeIpList(f.allow) \ deny, deny)
<1>1. Lists!Loaded(f) = WithLists(f, allow, deny)
  BY DEF Lists!Loaded, WithLists
<1> HIDE DEF deny, allow
<1>2. /\ f.allow \in SUBSET Lists!Raw /\ f.deny \in SUBSET Lists!Raw /\ f.ipLimit \in BOOLEAN /\ f.operator \in BOOLEAN
      /\ WithLists(f, allow, deny)
            = [allow |-> allow, deny |-> deny, ipLimit |-> f.ipLimit, operator |-> f.operator]
  BY WithListsFields
<1>3. Lists!SanitizeIpList(f.allow) \subseteq Lists!Entry /\ deny \subseteq Lists!Entry \ Lists!Loopback
  BY <1>2, CleanLists DEF deny
<1>4. Proper([allow |-> allow, deny |-> deny, ipLimit |-> f.ipLimit, operator |-> f.operator])
  BY <1>2, <1>3, ListsProper DEF allow
<1> QED BY <1>1, <1>2, <1>4 DEF allow, deny

\* What is written is read again.
LEMMA SavedIsLoaded ==
    ASSUME NEW c, Proper(c)
    PROVE  Lists!Saved(c) \in Lists!Config(Lists!Raw) /\ Lists!Loaded(Lists!Saved(c)) = c
<1> DEFINE s == [allow |-> Lists!Plain(c.allow), deny |-> Lists!Plain(c.deny), ipLimit |-> c.ipLimit, operator |-> c.operator]
<1>1. /\ c.allow \in SUBSET Lists!Entry /\ c.deny \in SUBSET Lists!Entry /\ c.ipLimit \in BOOLEAN /\ c.operator \in BOOLEAN
      /\ c = [allow |-> c.allow, deny |-> c.deny, ipLimit |-> c.ipLimit, operator |-> c.operator]
      /\ WithLists(c, Lists!Plain(c.allow), Lists!Plain(c.deny)) = s
  <2> DEFINE a == Lists!Plain(c.allow)
             d == Lists!Plain(c.deny)
  <2>1. c \in Lists!Config(Lists!Entry)
    BY DEF Proper
  <2> HIDE DEF a, d, s
  <2>2. /\ c.allow \in SUBSET Lists!Entry /\ c.deny \in SUBSET Lists!Entry /\ c.ipLimit \in BOOLEAN /\ c.operator \in BOOLEAN
        /\ c = [allow |-> c.allow, deny |-> c.deny, ipLimit |-> c.ipLimit, operator |-> c.operator]
        /\ WithLists(c, a, d) = [allow |-> a, deny |-> d, ipLimit |-> c.ipLimit, operator |-> c.operator]
    BY <2>1, WithListsFields
  <2> QED BY <2>2 DEF a, d, s
<1>2. Lists!Saved(c) = WithLists(c, Lists!Plain(c.allow), Lists!Plain(c.deny))
  <2>1. c = [allow |-> c.allow, deny |-> c.deny, ipLimit |-> c.ipLimit, operator |-> c.operator]
    BY <1>1
  <2> QED BY <2>1 DEF Lists!Saved, WithLists
<1>3. ASSUME NEW list \in SUBSET Lists!Entry
      PROVE  Lists!Plain(list) \in SUBSET Lists!Raw /\ Lists!SanitizeIpList(Lists!Plain(list)) = list
  <2>1. Lists!Plain(list) = {[entry |-> e, mapped |-> FALSE] : e \in list}
    BY DEF Lists!Plain
  <2>2. \A e \in list : [entry |-> e, mapped |-> FALSE] \in Lists!Raw
    BY DEF Lists!Raw
  <2>3. {raw.entry : raw \in Lists!Plain(list)} = list
    <3>1. \A e \in list : [entry |-> e, mapped |-> FALSE] \in Lists!Plain(list)
      BY <2>1
    <3>2. \A raw \in Lists!Plain(list) : raw.entry \in list
      BY <2>1
    <3>3. \A e : [entry |-> e, mapped |-> FALSE].entry = e
      OBVIOUS
    <3>4. \A e \in list : e \in {raw.entry : raw \in Lists!Plain(list)}
      BY <3>1, <3>3, Zenon
    <3> QED BY <3>2, <3>4
  <2> QED BY <2>1, <2>2, <2>3, AddressesAssumption DEF Lists!SanitizeIpList
<1>4. s \in Lists!Config(Lists!Raw)
  BY <1>1, <1>3 DEF Lists!Config
<1>5. s.allow = Lists!Plain(c.allow) /\ s.deny = Lists!Plain(c.deny) /\ s.ipLimit = c.ipLimit /\ s.operator = c.operator
  OBVIOUS
<1>6. c.deny \cap Lists!Loopback = {} /\ c.allow \cap c.deny = {} /\ Lists!Loopback \subseteq c.allow
  BY DEF Proper
<1>7. Lists!SanitizeDenyList(s.deny) = c.deny /\ Lists!SanitizeIpList(s.allow) = c.allow
  BY <1>1, <1>3, <1>5, <1>6 DEF Lists!SanitizeDenyList
<1>8. Lists!EnsureLoopbackAllow(c.allow \ c.deny, c.deny) = c.allow
  BY <1>6 DEF Lists!EnsureLoopbackAllow
<1> HIDE DEF s
<1>9. Lists!Loaded(s) = [allow |-> c.allow, deny |-> c.deny, ipLimit |-> c.ipLimit, operator |-> c.operator]
  BY <1>4, <1>5, <1>7, <1>8, LoadedProper
<1> QED BY <1>1, <1>2, <1>4, <1>9

\* The configuration with which a list is changed, or both.
LEMMA PatchedProper ==
    ASSUME Proper(cfg), NEW allow \in SUBSET Lists!Entry, NEW deny \in SUBSET (Lists!Entry \ Lists!Loopback)
    PROVE  /\ Proper(Lists!Patched(allow, deny))
           /\ Lists!Patched(allow, deny).allow = ((allow \ deny) \cup Lists!Loopback) \ deny
<1> DEFINE a == Lists!EnsureLoopbackAllow(allow \ deny, deny)
<1>1. cfg \in Lists!Config(Lists!Entry)
  BY DEF Proper
<1>2. a = ((allow \ deny) \cup Lists!Loopback) \ deny
  BY DEF Lists!EnsureLoopbackAllow
<1>3. ASSUME NEW l \in BOOLEAN, NEW o \in BOOLEAN
      PROVE  Proper([allow |-> a, deny |-> deny, ipLimit |-> l, operator |-> o])
  BY ListsProper
<1>4. Lists!Patched(allow, deny) = WithLists(cfg, a, deny)
  BY DEF Lists!Patched, WithLists
<1> HIDE DEF a
<1>5. /\ cfg.ipLimit \in BOOLEAN /\ cfg.operator \in BOOLEAN
      /\ WithLists(cfg, a, deny)
            = [allow |-> a, deny |-> deny, ipLimit |-> cfg.ipLimit, operator |-> cfg.operator]
  BY ONLY <1>1, WithListsFields
<1> QED BY <1>2, <1>3, <1>4, <1>5

LEMMA ListsInvImplies ==
    ASSUME ListsInv
    PROVE  Lists!ListsExclude /\ Lists!ReloadKeepsPolicy /\ Lists!AllowedLeavesNoTrace /\ Lists!TypeOK
<1>1. Lists!ListsExclude /\ Lists!ReloadKeepsPolicy
  BY DEF ListsInv, Proper, Lists!ListsExclude, Lists!ReloadKeepsPolicy
<1>2. Lists!AllowedLeavesNoTrace
  BY KeptTypes DEF ListsInv, Unsettled, Lists!AllowedLeavesNoTrace
<1>3. Lists!TypeOK
  <2>1. \A v \in {visitors, visitorsFile} :
          Lists!ToSet(v) \subseteq Lists!Clients /\ Lists!IsInjective(v) /\ Len(v) <= MaxVisitors
    BY KeptTypes DEF ListsInv, Kept
  <2> QED BY <2>1 DEF ListsInv, Proper, Lists!TypeOK, Login
<1> QED BY <1>1, <1>2, <1>3

LEMMA ListsInitHolds ==
    ASSUME Lists!Init
    PROVE  ListsInv
<1>1. world \in Worlds /\ running \in BOOLEAN
  BY DEF Lists!Init
<1>2. file \in Lists!Config(Lists!Raw)
  BY <1>1, AddressesAssumption DEF Lists!Init, Lists!Config
<1>3. Lists!Loaded(file) = cfg /\ Proper(cfg)
  BY <1>2, LoadedProper DEF Lists!Init
<1>4. Kept(<<>>) /\ Unsettled(<<>>)
  BY AddressesAssumption, EmptySeq DEF Kept, Distinct, Unsettled
<1>5. req \in [Logins -> Login] /\ \A r \in Logins : req[r] = Lists!Idle
  BY DEF Lists!Init, Lists!Idle, Login
<1> QED BY <1>1, <1>2, <1>3, <1>4, <1>5 DEF ListsInv, Lists!Init

\* A configuration that could not be saved, or was: what comes next reads it.
LEMMA StoreFailsKeeps ==
    ASSUME ListsInv, NEW c, Proper(c), Lists!StoreFails(c), settled' = Lists!StillSettled, UNCHANGED world
    PROVE  ListsInv'
<1>1. /\ running' = FALSE /\ file' \in {file, Lists!Saved(c)} /\ cfg' = Lists!Loaded(file')
      /\ visitors' = visitorsFile /\ visitorsFile' = visitorsFile
      /\ req' = [r \in Logins |-> Lists!Idle]
  BY DEF Lists!StoreFails
<1>2. file' \in Lists!Config(Lists!Raw) /\ Proper(cfg')
  BY <1>1, SavedIsLoaded, LoadedProper DEF ListsInv
<1>3. settled' = {ip \in settled : ip \in cfg'.allow}
  BY DEF Lists!StillSettled
<1>4. settled' \subseteq cfg'.allow \cap Lists!Clients /\ settled' \subseteq settled
  BY <1>3 DEF ListsInv
<1>5. Unsettled(visitors)' /\ Unsettled(visitorsFile)'
  BY <1>1, <1>4 DEF ListsInv, Unsettled
<1>6. req' \in [Logins -> Login] /\ \A r \in Logins : req'[r] = Lists!Idle
  BY <1>1 DEF Lists!Idle, Login
<1> QED BY <1>1, <1>2, <1>4, <1>5, <1>6 DEF ListsInv

\* A configuration that is saved.
LEMMA StoreKeeps ==
    ASSUME ListsInv, NEW c, Proper(c), Lists!Store(c), UNCHANGED <<world, req>>,
           Kept(visitors'), Kept(visitorsFile'), Unsettled(visitors)', Unsettled(visitorsFile)',
           settled' \subseteq c.allow \cap Lists!Clients
    PROVE  ListsInv'
<1>1. cfg' = c /\ file' = Lists!Saved(c) /\ running' = running
  BY DEF Lists!Store
<1>2. file' \in Lists!Config(Lists!Raw) /\ Lists!Loaded(file') = cfg'
  BY <1>1, SavedIsLoaded
<1> QED BY <1>1, <1>2 DEF ListsInv

LEMMA UpdateKeeps ==
    ASSUME ListsInv, NEW c, Proper(c), Lists!Update(c), UNCHANGED world
    PROVE  ListsInv'
<1>1. settled' = Lists!StillSettled
  BY DEF Lists!Update
<1>2. CASE Lists!Store(c) /\ UNCHANGED <<visitors, visitorsFile, req>>
  <2>1. settled' = {ip \in settled : ip \in c.allow}
    BY <1>1, <1>2 DEF Lists!StillSettled, Lists!Store
  <2>2. settled' \subseteq c.allow \cap Lists!Clients /\ settled' \subseteq settled
    BY <2>1 DEF ListsInv
  <2>3. Unsettled(visitors)' /\ Unsettled(visitorsFile)' /\ Kept(visitors') /\ Kept(visitorsFile')
    BY <1>2, <2>2 DEF ListsInv, Unsettled
  <2> QED BY <1>2, <2>2, <2>3, StoreKeeps
<1>3. CASE Lists!StoreFails(c)
  BY <1>1, <1>3, StoreFailsKeeps
<1> QED BY <1>2, <1>3 DEF Lists!Update

\* What an administrator sends, whatever it is.
LEMMA UpdatesKeep ==
    ASSUME ListsInv, UNCHANGED world, NEW allow \in SUBSET Lists!Raw, NEW deny \in SUBSET Lists!Raw,
           \/ Lists!UpdateLists(allow, deny) \/ Lists!UpdateAllow(allow) \/ Lists!UpdateDeny(deny)
           \/ \E limit, operator \in BOOLEAN : Lists!UpdateFlags(limit, operator)
    PROVE  ListsInv'
<1>1. /\ Lists!SanitizeIpList(allow) \in SUBSET Lists!Entry
      /\ Lists!SanitizeDenyList(deny) \in SUBSET (Lists!Entry \ Lists!Loopback)
  BY CleanLists
<1>2. cfg.allow \in SUBSET Lists!Entry /\ cfg.deny \in SUBSET (Lists!Entry \ Lists!Loopback) /\ Proper(cfg)
  BY DEF ListsInv, Proper, Lists!Config
<1>3. CASE Lists!UpdateLists(allow, deny)
  BY <1>1, <1>2, <1>3, PatchedProper, UpdateKeeps DEF Lists!UpdateLists
<1>4. CASE Lists!UpdateAllow(allow)
  BY <1>1, <1>2, <1>4, PatchedProper, UpdateKeeps DEF Lists!UpdateAllow
<1>5. CASE Lists!UpdateDeny(deny)
  BY <1>1, <1>2, <1>5, PatchedProper, UpdateKeeps DEF Lists!UpdateDeny
<1>6. CASE \E limit, operator \in BOOLEAN : Lists!UpdateFlags(limit, operator)
  <2>1. PICK limit \in BOOLEAN, operator \in BOOLEAN :
          Lists!Update([cfg EXCEPT !.ipLimit = limit, !.operator = operator])
    BY <1>6 DEF Lists!UpdateFlags
  <2> DEFINE once == [cfg EXCEPT !.ipLimit = limit]
             c == [cfg EXCEPT !.ipLimit = limit, !.operator = operator]
  <2>2. PICK a \in SUBSET Lists!Entry, d \in SUBSET Lists!Entry, l \in BOOLEAN, o \in BOOLEAN :
          cfg = [allow |-> a, deny |-> d, ipLimit |-> l, operator |-> o]
    BY <1>2 DEF Proper, Lists!Config
  <2>3. once = [allow |-> a, deny |-> d, ipLimit |-> limit, operator |-> o]
    BY <2>2
  <2>4. c = [once EXCEPT !.operator = operator]
    OBVIOUS
  <2> HIDE DEF once, c
  <2>5. c = [allow |-> a, deny |-> d, ipLimit |-> limit, operator |-> operator]
    BY <2>3, <2>4
  <2>6. Proper(c)
    BY <1>2, <2>2, <2>5 DEF Proper, Lists!Config
  <2> QED BY <2>1, <2>6, UpdateKeeps DEF c
<1> QED BY <1>3, <1>4, <1>5, <1>6

\* A client that is allowed is on the list by its name, so that it is found there.
LEMMA AllowedIsFound ==
    ASSUME NEW ip \in Lists!Clients, NEW list, ip \in list
    PROVE  Lists!InList(ip, list)
BY AddressesAssumption DEF Lists!InList

\* A step that changes the visitors and the logins only, and records nobody who was allowed.
LEMMA VisitorsKeep ==
    ASSUME ListsInv, UNCHANGED <<world, running, cfg, file, settled>>,
           Kept(visitors'), visitorsFile' \in {visitorsFile, visitors'},
           \A k \in 1 .. Len(visitors') : visitors'[k] \notin settled,
           req' \in [Logins -> Login], \A r \in Logins : req'[r].ip = None => req'[r] = Lists!Idle
    PROVE  ListsInv'
<1>1. Kept(visitorsFile')
  BY DEF ListsInv
<1>2. Unsettled(visitors)' /\ Unsettled(visitorsFile)'
  BY DEF ListsInv, Unsettled
<1> QED BY <1>1, <1>2 DEF ListsInv

\* recordIfSuspicious() records nobody who was allowed, whatever the verdict of the arrival was.
LEMMA RecordKeeps ==
    ASSUME ListsInv, NEW ip \in Lists!Clients, NEW white, Lists!RecordIfSuspicious(ip, white),
           UNCHANGED <<world, running, cfg, file, settled>>,
           req' \in [Logins -> Login], \A r \in Logins : req'[r].ip = None => req'[r] = Lists!Idle
    PROVE  ListsInv'
<1>1. CASE UNCHANGED <<visitors, visitorsFile>>
  BY <1>1, VisitorsKeep DEF ListsInv, Unsettled
<1>2. CASE ~Lists!InList(ip, cfg.allow) /\ visitors' = Lists!Recorded(ip) /\ Lists!SaveVisitors
  <2>1. ip \notin settled
    BY <1>2, AllowedIsFound DEF ListsInv
  <2>2. /\ Kept(visitors')
        /\ \A k \in 1 .. Len(visitors') : visitors'[k] = ip \/ \E j \in 1 .. Len(visitors) : visitors'[k] = visitors[j]
    BY <1>2, VisitorRecorded DEF ListsInv
  <2>3. \A k \in 1 .. Len(visitors') : visitors'[k] \notin settled
    BY <2>1, <2>2 DEF ListsInv, Unsettled
  <2> QED BY <1>2, <2>2, <2>3, VisitorsKeep DEF Lists!SaveVisitors
<1> QED BY <1>1, <1>2 DEF Lists!RecordIfSuspicious

\* An administrator answers for a visitor.
LEMMA AllowVisitorKeeps ==
    ASSUME ListsInv, NEW ip \in Lists!Clients, Lists!AllowVisitor(ip), UNCHANGED world
    PROVE  ListsInv'
<1> DEFINE c == Lists!Patched(cfg.allow \cup {ip}, cfg.deny \ {ip})
<1>1. \/ /\ Lists!Store(c)
         /\ Lists!Dismissed(ip) /\ Lists!SaveVisitors
         /\ settled' = Lists!StillSettled \cup (IF visitorsFile' = visitors' THEN {ip} ELSE {})
         /\ UNCHANGED req
      \/ Lists!StoreFails(c) /\ settled' = Lists!StillSettled
  BY DEF Lists!AllowVisitor
<1>2. /\ cfg.allow \cup {ip} \in SUBSET Lists!Entry
      /\ cfg.deny \ {ip} \in SUBSET (Lists!Entry \ Lists!Loopback) /\ Proper(cfg)
  BY DEF ListsInv, Proper, Lists!Config, Lists!Entry
<1>3. Proper(c) /\ c.allow = (((cfg.allow \cup {ip}) \ (cfg.deny \ {ip})) \cup Lists!Loopback) \ (cfg.deny \ {ip})
  BY <1>2, PatchedProper
<1>4. ip \in c.allow
  BY <1>3
<1> HIDE DEF c
<1>5. CASE /\ Lists!Store(c)
           /\ Lists!Dismissed(ip) /\ Lists!SaveVisitors
           /\ settled' = Lists!StillSettled \cup (IF visitorsFile' = visitors' THEN {ip} ELSE {})
           /\ UNCHANGED req
  <2>1. /\ Kept(visitors')
        /\ \A k \in 1 .. Len(visitors') : visitors'[k] # ip /\ \E j \in 1 .. Len(visitors) : visitors'[k] = visitors[j]
    BY <1>5, VisitorRemoved DEF ListsInv, Lists!Dismissed
  <2>2. visitorsFile' \in {visitorsFile, visitors'} /\ Kept(visitorsFile')
    BY <1>5, <2>1 DEF ListsInv, Lists!SaveVisitors
  <2>3. settled' \subseteq {s \in settled : s \in c.allow} \cup (IF visitorsFile' = visitors' THEN {ip} ELSE {})
    BY <1>5 DEF Lists!StillSettled, Lists!Store
  <2>4. settled' \subseteq c.allow \cap Lists!Clients
    BY <1>4, <2>3 DEF ListsInv
  <2>5. Unsettled(visitors)'
    BY <2>1, <2>3 DEF ListsInv, Unsettled
  <2>6. Unsettled(visitorsFile)'
    <3>1. CASE visitorsFile' = visitors'
      BY <2>5, <3>1 DEF Unsettled
    <3>2. CASE visitorsFile' # visitors'
      BY <2>2, <2>3, <3>2 DEF ListsInv, Unsettled
    <3> QED BY <3>1, <3>2
  <2> QED BY <1>3, <1>5, <2>1, <2>2, <2>4, <2>5, <2>6, StoreKeeps
<1>6. CASE Lists!StoreFails(c) /\ settled' = Lists!StillSettled
  BY <1>3, <1>6, StoreFailsKeeps
<1> QED BY <1>1, <1>5, <1>6

LEMMA DenyVisitorKeeps ==
    ASSUME ListsInv, NEW ip \in Lists!Clients, Lists!DenyVisitor(ip), UNCHANGED world
    PROVE  ListsInv'
<1> DEFINE c == Lists!Patched(cfg.allow \ {ip}, cfg.deny \cup {ip})
<1>1. /\ ip \notin Lists!Loopback
      /\ \/ Lists!Store(c) /\ Lists!Dismissed(ip) /\ Lists!SaveVisitors /\ UNCHANGED req
         \/ Lists!StoreFails(c)
      /\ settled' = Lists!StillSettled
  BY DEF Lists!DenyVisitor
<1>2. /\ cfg.allow \ {ip} \in SUBSET Lists!Entry
      /\ cfg.deny \cup {ip} \in SUBSET (Lists!Entry \ Lists!Loopback) /\ Proper(cfg)
  BY <1>1 DEF ListsInv, Proper, Lists!Config, Lists!Entry
<1>3. Proper(c)
  BY <1>2, PatchedProper
<1> HIDE DEF c
<1>4. CASE Lists!Store(c) /\ Lists!Dismissed(ip) /\ Lists!SaveVisitors /\ UNCHANGED req
  <2>1. /\ Kept(visitors')
        /\ \A k \in 1 .. Len(visitors') : visitors'[k] # ip /\ \E j \in 1 .. Len(visitors) : visitors'[k] = visitors[j]
    BY <1>4, VisitorRemoved DEF ListsInv, Lists!Dismissed
  <2>2. visitorsFile' \in {visitorsFile, visitors'} /\ Kept(visitorsFile')
    BY <1>4, <2>1 DEF ListsInv, Lists!SaveVisitors
  <2>3. settled' = {s \in settled : s \in c.allow}
    BY <1>1, <1>4 DEF Lists!StillSettled, Lists!Store
  <2>4. settled' \subseteq c.allow \cap Lists!Clients /\ settled' \subseteq settled
    BY <2>3 DEF ListsInv
  <2>5. Unsettled(visitors)'
    BY <2>1, <2>4 DEF ListsInv, Unsettled
  <2>6. Unsettled(visitorsFile)'
    BY <2>2, <2>4, <2>5 DEF ListsInv, Unsettled
  <2> QED BY <1>3, <1>4, <2>1, <2>2, <2>4, <2>5, <2>6, StoreKeeps
<1>5. CASE Lists!StoreFails(c)
  BY <1>1, <1>3, <1>5, StoreFailsKeeps
<1> QED BY <1>1, <1>4, <1>5

LEMMA DismissVisitorKeeps ==
    ASSUME ListsInv, NEW ip \in Lists!Clients, Lists!DismissVisitor(ip), UNCHANGED world
    PROVE  ListsInv'
<1>1. UNCHANGED <<running, cfg, file, req, settled>> /\ Lists!Dismissed(ip) /\ Lists!SaveVisitors
  BY DEF Lists!DismissVisitor
<1>2. /\ Kept(visitors')
      /\ \A k \in 1 .. Len(visitors') : visitors'[k] # ip /\ \E j \in 1 .. Len(visitors) : visitors'[k] = visitors[j]
  BY <1>1, VisitorRemoved DEF ListsInv, Lists!Dismissed
<1>3. \A k \in 1 .. Len(visitors') : visitors'[k] \notin settled
  BY <1>2 DEF ListsInv, Unsettled
<1> QED BY <1>1, <1>2, <1>3, VisitorsKeep DEF ListsInv, Lists!SaveVisitors

\* Requests that the gate refuses, and logins.
LEMMA RequestsKeep ==
    ASSUME ListsInv, UNCHANGED world,
           \/ \E ip \in Lists!Clients : Lists!Refuse(ip)
           \/ \E r \in Logins : Lists!LoginFails(r) \/ \E ip \in Lists!Clients : Lists!BeginLogin(r, ip)
    PROVE  ListsInv'
<1> USE DEF ListsInv
<1>1. ASSUME NEW ip \in Lists!Clients, Lists!Refuse(ip)
      PROVE  ListsInv'
  BY <1>1, RecordKeeps DEF Lists!Refuse
<1>2. ASSUME NEW r \in Logins, NEW ip \in Lists!Clients, Lists!BeginLogin(r, ip)
      PROVE  ListsInv'
  <2>1. /\ req' = [req EXCEPT ![r] = [ip |-> ip, whitelisted |-> Lists!Whitelisted(ip)]]
        /\ UNCHANGED <<running, cfg, file, visitors, visitorsFile, settled>>
    BY <1>2 DEF Lists!BeginLogin
  <2>2. Lists!Whitelisted(ip) \in BOOLEAN
    BY DEF Lists!Whitelisted
  <2>3. [ip |-> ip, whitelisted |-> Lists!Whitelisted(ip)] \in Login
    BY <2>2 DEF Login
  <2>4. req' \in [Logins -> Login] /\ \A q \in Logins : req'[q].ip = None => req'[q] = Lists!Idle
    BY <2>1, <2>3, AddressesAssumption
  <2> QED BY <2>1, <2>4, VisitorsKeep DEF Unsettled
<1>3. ASSUME NEW r \in Logins, Lists!LoginFails(r)
      PROVE  ListsInv'
  <2>1. /\ req[r] # Lists!Idle /\ req' = [req EXCEPT ![r] = Lists!Idle]
        /\ UNCHANGED <<running, cfg, file, settled>>
        /\ UNCHANGED <<visitors, visitorsFile>> \/ Lists!RecordIfSuspicious(req[r].ip, req[r].whitelisted)
    BY <1>3 DEF Lists!LoginFails
  <2>2. req[r].ip \in Lists!Clients
    BY <2>1 DEF Login
  <2>3. Lists!Idle \in Login
    BY DEF Lists!Idle, Login
  <2>4. req' \in [Logins -> Login] /\ \A q \in Logins : req'[q].ip = None => req'[q] = Lists!Idle
    BY <2>1, <2>3
  <2>5. CASE UNCHANGED <<visitors, visitorsFile>>
    BY <2>1, <2>4, <2>5, VisitorsKeep DEF Unsettled
  <2>6. CASE Lists!RecordIfSuspicious(req[r].ip, req[r].whitelisted)
    BY <2>1, <2>2, <2>4, <2>6, RecordKeeps
  <2> QED BY <2>1, <2>5, <2>6
<1> QED BY <1>1, <1>2, <1>3

LEMMA ListsStepHolds ==
    ASSUME ListsInv, Lists!Next
    PROVE  ListsInv'
<1>1. UNCHANGED world /\ world.clients \subseteq Lists!Clients /\ world.lists \subseteq SUBSET Lists!Raw
  BY AddressesAssumption DEF Lists!Next, ListsInv
<1>2. CASE \E list \in world.lists : Lists!UpdateAllow(list) \/ Lists!UpdateDeny(list)
  BY <1>1, <1>2, UpdatesKeep
<1>3. CASE \E allow, deny \in world.lists : Lists!UpdateLists(allow, deny)
  BY <1>1, <1>3, UpdatesKeep
<1>4. CASE \E limit, operator \in BOOLEAN : Lists!UpdateFlags(limit, operator)
  BY <1>1, <1>4, UpdatesKeep
<1>5. CASE \E ip \in world.clients : Lists!AllowVisitor(ip) \/ Lists!DenyVisitor(ip) \/ Lists!DismissVisitor(ip)
  BY <1>1, <1>5, AllowVisitorKeeps, DenyVisitorKeeps, DismissVisitorKeeps
<1>6. CASE \E ip \in world.clients : Lists!Refuse(ip)
  BY <1>1, <1>6, RequestsKeep
<1>7. CASE \E r \in Logins : Lists!LoginFails(r) \/ \E ip \in world.clients : Lists!BeginLogin(r, ip)
  BY <1>1, <1>7, RequestsKeep
<1>8. CASE Lists!Stop
  <2>1. /\ running' = FALSE /\ visitors' = visitorsFile /\ req' = [r \in Logins |-> Lists!Idle]
        /\ UNCHANGED <<cfg, file, visitorsFile, settled>>
    BY <1>8 DEF Lists!Stop
  <2>2. req' \in [Logins -> Login]
    BY <2>1 DEF Lists!Idle, Login
  <2> QED BY <1>1, <2>1, <2>2 DEF ListsInv, Unsettled
<1>9. CASE Lists!Restart
  BY <1>1, <1>9 DEF ListsInv, Unsettled, Lists!Restart
<1> QED BY <1>2, <1>3, <1>4, <1>5, <1>6, <1>7, <1>8, <1>9 DEF Lists!Next

LEMMA AddressesLists == Spec => []ListsInv
<1>1. Init => ListsInv
  BY ListsInitHolds DEF Init
<1>2. ListsInv /\ [Next]_<<atWork, lockouts, policy, probe>> => ListsInv'
  <2> SUFFICES ASSUME ListsInv, [Next]_<<atWork, lockouts, policy, probe>>
               PROVE  ListsInv'
    OBVIOUS
  <2>1. CASE Lists!Next
    BY <2>1, ListsStepHolds
  <2>2. CASE UNCHANGED policy
    BY <2>2 DEF policy, ListsInv, Unsettled
  <2> QED BY <2>1, <2>2 DEF Next
<1> QED BY <1>1, <1>2, PTL DEF Spec

\* No entry is on two lists, and what is in force is what a new process would read; an address that was
\* allowed from the list of visitors does not return to it, not even with a login that was under way;
\* and that list keeps its limit.
THEOREM AddressesKeepLists == Spec => []AllowedLeavesNoTrace
<1>1. ListsInv => AllowedLeavesNoTrace
  BY ListsInvImplies DEF AllowedLeavesNoTrace
<1> QED BY <1>1, AddressesLists, PTL

-----------------------------------------------------------------------------
(* Whose request it is *)

Usable == Hosts \ {LocalHost}

Headers == [real : Usable \cup {LocalHost, Junk, None}, hops : Seq(Usable \cup {LocalHost, Junk}),
            other : BOOLEAN, localHost : BOOLEAN]

\* What is asked about.
Asked ==
    \/ probe = [kind |-> "start"]
    \/ \E ip, base \in SUBSET (0 .. Width - 1), bits \in -1 .. Width + 1 :
        probe = [kind |-> "network", ip |-> ip, base |-> base, bits |-> bits]
    \/ \E proxy \in Whose!Proxies, client \in Usable, q \in Headers :
        probe = [kind |-> "proxied", proxy |-> proxy, client |-> client, q |-> q]
    \/ \E q \in Headers, remote \in Usable \cup {LocalHost}, trust \in BOOLEAN :
        probe = [kind |-> "direct", q |-> q, remote |-> remote, trust |-> trust]

\* The bits of a mask: the shift does not wrap where the code shifts.
LEMMA MaskIsPrefix ==
    ASSUME NEW bits \in 0 .. Width
    PROVE  Whose!Mask(bits) = Width - bits .. Width - 1
<1>1. Width \in Nat \ {0} /\ Whose!Bits = 0 .. Width - 1
  BY AddressesAssumption DEF Whose!Bits
<1>2. CASE bits = 0
  BY <1>1, <1>2 DEF Whose!Mask
<1>3. CASE bits # 0
  <2> DEFINE n == Width - bits
  <2>1. n \in 0 .. Width - 1
    BY <1>1, <1>3
  <2>2. n % Width = n
    BY <1>1, <2>1
  <2>3. Whose!Mask(bits) = {k + n : k \in 0 .. Width - 1} \cap (0 .. Width - 1)
    BY <1>1, <1>3, <2>2 DEF Whose!Mask, Whose!Shl
  <2> HIDE DEF n
  <2>4. ASSUME NEW j \in n .. Width - 1
        PROVE  j \in {k + n : k \in 0 .. Width - 1}
    <3>1. j - n \in 0 .. Width - 1 /\ j = (j - n) + n
      BY <1>1, <2>1
    <3> QED BY <3>1
  <2>5. {k + n : k \in 0 .. Width - 1} \cap (0 .. Width - 1) = n .. Width - 1
    BY <1>1, <2>1, <2>4
  <2> QED BY <2>3, <2>5 DEF n
<1> QED BY <1>2, <1>3

\* The greatest of a set of numbers.
LEMMA MaxIs ==
    ASSUME NEW I \in SUBSET Nat, NEW m \in I, \A k \in I : k <= m
    PROVE  Whose!Max(I) = m
<1>1. m \in Nat /\ \A y \in I : y \in Nat /\ m >= y
  OBVIOUS
<1>2. Whose!Max(I) \in I /\ \A y \in I : Whose!Max(I) >= y
  BY <1>1 DEF Whose!Max
<1>3. Whose!Max(I) \in Nat /\ Whose!Max(I) >= m /\ m >= Whose!Max(I)
  BY <1>1, <1>2
<1> QED BY <1>1, <1>3

\* The last hop that is not local, whatever hops the client claimed.
Others(hops) == {k \in DOMAIN hops : hops[k] # LocalHost}

LEMMA LastHopAppended ==
    ASSUME NEW S, NEW claimed \in Seq(S), NEW client \in S, client # LocalHost
    PROVE  LET hops == Append(claimed, client) IN
           /\ Whose!Max(Others(hops)) = Len(claimed) + 1 /\ Others(hops) # {}
           /\ hops[Len(claimed) + 1] = client /\ hops # <<>>
<1> DEFINE hops == Append(claimed, client)
           I == Others(hops)
           n == Len(claimed)
<1>1. n \in Nat
  BY LenProperties
<1>2. hops \in Seq(S) /\ hops # <<>> /\ DOMAIN hops = 1 .. n + 1 /\ hops[n + 1] = client
  BY <1>1, AppendProperties, LenProperties
<1> HIDE DEF hops
<1>3. n + 1 \in I /\ I \in SUBSET Nat /\ \A k \in I : k <= n + 1
  BY <1>1, <1>2 DEF Others
<1> HIDE DEF I, n
<1>4. Whose!Max(I) = n + 1
  BY <1>3, MaxIs
<1> QED BY <1>2, <1>3, <1>4 DEF hops, I, n

\* ... and a local proxy behind it.
LEMMA LastHopReported ==
    ASSUME NEW S, NEW claimed \in Seq(S), NEW client \in S, client # LocalHost,
           NEW tail \in Seq(S), Len(tail) = 2, tail[1] = client, tail[2] = LocalHost
    PROVE  LET hops == claimed \o tail IN
           /\ Whose!Max(Others(hops)) = Len(claimed) + 1 /\ Others(hops) # {}
           /\ hops[Len(claimed) + 1] = client /\ hops # <<>>
<1> DEFINE hops == claimed \o tail
           I == Others(hops)
           n == Len(claimed)
<1>1. n \in Nat
  BY LenProperties
<1>2. /\ hops \in Seq(S) /\ Len(hops) = n + Len(tail)
      /\ \A k \in 1 .. n + Len(tail) : hops[k] = IF k <= n THEN claimed[k] ELSE tail[k - n]
  BY ConcatProperties
<1> HIDE DEF hops, n
<1>3. DOMAIN hops = 1 .. n + 2 /\ hops # <<>>
  BY <1>1, <1>2, LenProperties, EmptySeq
<1>4. hops[n + 1] = client /\ hops[n + 2] = LocalHost
  <2>1. (n + 1) - n = 1 /\ (n + 2) - n = 2 /\ n + 1 \in 1 .. n + 2 /\ n + 2 \in 1 .. n + 2
    BY <1>1
  <2>2. ~(n + 1 <= n) /\ ~(n + 2 <= n)
    BY <1>1
  <2> QED BY <1>2, <2>1, <2>2
<1>5. n + 1 \in I /\ I \in SUBSET Nat /\ \A k \in I : k <= n + 1
  BY <1>1, <1>3, <1>4 DEF Others
<1> HIDE DEF I
<1>6. Whose!Max(I) = n + 1
  BY <1>5, MaxIs
<1> QED BY <1>3, <1>4, <1>5, <1>6 DEF hops, I, n

\* What the headers say is a usable address, or nothing.
LEMMA ForwardedIsUsable ==
    ASSUME NEW q
    PROVE  Whose!ForwardedClientIp(q) \in Usable \cup {None}
<1>1. Whose!XRealIp(q) \in Usable \cup {None}
  BY DEF Whose!XRealIp, Usable
<1>2. Whose!XForwardedForClient(q) \in Usable \cup {None}
  BY DEF Whose!XForwardedForClient, Usable
<1> QED BY <1>1, <1>2 DEF Whose!ForwardedClientIp

LEMMA NetworksCover ==
    ASSUME Asked
    PROVE  Whose!CidrIsPrefix
<1> SUFFICES ASSUME probe.kind = "network"
             PROVE  Whose!MatchCidr(probe.ip, probe.base, probe.bits) <=>
                        /\ probe.bits \in 0 .. Width
                        /\ \A k \in Width - probe.bits .. Width - 1 : k \in probe.ip <=> k \in probe.base
  BY DEF Whose!CidrIsPrefix
<1>1. PICK ip \in SUBSET (0 .. Width - 1), base \in SUBSET (0 .. Width - 1), bits \in -1 .. Width + 1 :
        probe = [kind |-> "network", ip |-> ip, base |-> base, bits |-> bits]
  BY DEF Asked
<1>2. probe.ip = ip /\ probe.base = base /\ probe.bits = bits
  BY <1>1
<1>3. CASE bits \in 0 .. Width
  <2>1. Whose!MatchCidr(ip, base, bits) <=> ip \cap (Width - bits .. Width - 1) = base \cap (Width - bits .. Width - 1)
    BY <1>3, MaskIsPrefix DEF Whose!MatchCidr
  <2>2. ip \cap (Width - bits .. Width - 1) = base \cap (Width - bits .. Width - 1)
        <=> \A k \in Width - bits .. Width - 1 : k \in ip <=> k \in base
    OBVIOUS
  <2> QED BY <1>2, <1>3, <2>1, <2>2
<1>4. CASE bits \notin 0 .. Width
  BY <1>2, <1>4 DEF Whose!MatchCidr
<1> QED BY <1>3, <1>4

LEMMA OperatorsAreDirect ==
    ASSUME Asked
    PROVE  Whose!OperatorIsDirect
<1> SUFFICES ASSUME probe.kind = "direct"
             PROVE  LET ip == Whose!ResolveClientIp(probe.q, probe.remote, probe.trust) IN
                    /\ ip = LocalHost => probe.remote = LocalHost /\ (probe.trust => ~Whose!Evidence(probe.q))
                    /\ probe.remote # LocalHost => ip = probe.remote
  BY DEF Whose!OperatorIsDirect
<1>1. Whose!ForwardedClientIp(probe.q) # None => Whose!ForwardedClientIp(probe.q) \in Usable
  BY ForwardedIsUsable
<1>2. LocalHost \notin Usable /\ Unresolved # LocalHost
  BY AddressesAssumption DEF Usable
<1> QED BY <1>1, <1>2 DEF Whose!ResolveClientIp

\* What a proxy makes of a request, and what is read from it.
LEMMA ProxiedHeaders ==
    ASSUME NEW proxy \in Whose!Proxies, NEW client \in Usable, NEW q \in Headers
    PROVE  LET t == Whose!Through(proxy, client, q) IN
           /\ proxy \in {"snippet", "real"} => t.real = client
           /\ proxy = "chain" => t.real = LocalHost
           /\ proxy = "appends" => t.real = q.real
           /\ proxy \in {"snippet", "appends", "chain"} => t.hops # <<>> /\ Whose!XForwardedForClient(t) = client
<1>1. PICK real \in Usable \cup {LocalHost, Junk, None}, claimed \in Seq(Usable \cup {LocalHost, Junk}),
           other \in BOOLEAN, localHost \in BOOLEAN :
        q = [real |-> real, hops |-> claimed, other |-> other, localHost |-> localHost]
  BY DEF Headers
<1>2. client # LocalHost
  BY DEF Usable
<1> DEFINE S == Usable \cup {LocalHost, Junk}
           tail == <<client, LocalHost>>
           appended == Append(claimed, client)
           reported == claimed \o tail
<1>3. ASSUME NEW r, NEW hops \in {appended, reported}
      PROVE  /\ hops # <<>>
             /\ Whose!XForwardedForClient([real |-> r, hops |-> hops, other |-> other, localHost |-> localHost]) = client
  <2>1. claimed \in Seq(S) /\ client \in S
    OBVIOUS
  <2>2. tail \in Seq(S) /\ Len(tail) = 2 /\ tail[1] = client /\ tail[2] = LocalHost
    OBVIOUS
  <2> HIDE DEF S, tail
  <2>3. /\ Whose!Max(Others(appended)) = Len(claimed) + 1 /\ Others(appended) # {}
        /\ appended[Len(claimed) + 1] = client /\ appended # <<>>
    BY <1>2, <2>1, LastHopAppended
  <2>4. /\ Whose!Max(Others(reported)) = Len(claimed) + 1 /\ Others(reported) # {}
        /\ reported[Len(claimed) + 1] = client /\ reported # <<>>
    BY <1>2, <2>1, <2>2, LastHopReported
  <2> HIDE DEF appended, reported
  <2>5. /\ Whose!Max(Others(hops)) = Len(claimed) + 1 /\ Others(hops) # {}
        /\ hops[Len(claimed) + 1] = client /\ hops # <<>>
    BY <2>3, <2>4
  <2> QED BY <2>5 DEF Whose!XForwardedForClient, Usable, Others
<1>4. CASE proxy = "snippet"
  <2> DEFINE once == [q EXCEPT !.real = client]
  <2>1. once = [real |-> client, hops |-> claimed, other |-> other, localHost |-> localHost]
    BY <1>1
  <2>2. Whose!Through(proxy, client, q) = [once EXCEPT !.hops = Append(once.hops, client)]
    BY <1>4 DEF Whose!Through
  <2> HIDE DEF once
  <2>3. Whose!Through(proxy, client, q)
          = [real |-> client, hops |-> Append(claimed, client), other |-> other, localHost |-> localHost]
    BY <2>1, <2>2
  <2>4. Append(claimed, client) # <<>> /\ Whose!XForwardedForClient(Whose!Through(proxy, client, q)) = client
    BY <1>3, <2>3
  <2> QED BY <1>4, <2>3, <2>4
<1>5. CASE proxy = "appends"
  <2>1. Whose!Through(proxy, client, q)
          = [real |-> real, hops |-> Append(claimed, client), other |-> other, localHost |-> localHost]
    BY <1>1, <1>5 DEF Whose!Through
  <2>2. Append(claimed, client) # <<>> /\ Whose!XForwardedForClient(Whose!Through(proxy, client, q)) = client
    BY <1>3, <2>1
  <2> QED BY <1>1, <1>5, <2>1, <2>2
<1>6. CASE proxy = "chain"
  <2> DEFINE once == [q EXCEPT !.real = LocalHost]
  <2>1. once = [real |-> LocalHost, hops |-> claimed, other |-> other, localHost |-> localHost]
    BY <1>1
  <2>2. Whose!Through(proxy, client, q) = [once EXCEPT !.hops = once.hops \o <<client, LocalHost>>]
    BY <1>6 DEF Whose!Through
  <2> HIDE DEF once
  <2>3. Whose!Through(proxy, client, q)
          = [real |-> LocalHost, hops |-> claimed \o <<client, LocalHost>>, other |-> other, localHost |-> localHost]
    BY <2>1, <2>2
  <2>4. /\ claimed \o <<client, LocalHost>> # <<>>
        /\ Whose!XForwardedForClient(Whose!Through(proxy, client, q)) = client
    BY <1>3, <2>3
  <2> QED BY <1>6, <2>3, <2>4
<1>7. CASE proxy = "real"
  <2>1. Whose!Through(proxy, client, q)
          = [real |-> client, hops |-> claimed, other |-> other, localHost |-> localHost]
    BY <1>1, <1>7 DEF Whose!Through
  <2> QED BY <1>7, <2>1
<1> QED BY <1>4, <1>5, <1>6, <1>7 DEF Whose!Proxies

LEMMA ProxiedAreTheClients ==
    ASSUME Asked
    PROVE  Whose!ProxiedIsTheClients
<1> SUFFICES ASSUME probe.kind = "proxied"
             PROVE  LET q == Whose!Through(probe.proxy, probe.client, probe.q)
                        ip == Whose!ResolveClientIp(q, LocalHost, TRUE)
                    IN  /\ ip \in {probe.client, Unresolved}
                        /\ probe.proxy \in {"snippet", "chain"} =>
                            ip = probe.client /\ ~Whose!NginxMisconfigured(q, LocalHost)
  BY DEF Whose!ProxiedIsTheClients
<1>1. PICK proxy \in Whose!Proxies, client \in Usable, q \in Headers :
        probe = [kind |-> "proxied", proxy |-> proxy, client |-> client, q |-> q]
  BY DEF Asked
<1>2. probe.proxy = proxy /\ probe.client = client /\ probe.q = q
  BY <1>1
<1> DEFINE t == Whose!Through(proxy, client, q)
<1>3. /\ proxy \in {"snippet", "real"} => t.real = client
      /\ proxy = "chain" => t.real = LocalHost
      /\ proxy \in {"snippet", "appends", "chain"} => t.hops # <<>> /\ Whose!XForwardedForClient(t) = client
  BY ProxiedHeaders
<1> HIDE DEF t
<1>4. client \in Usable /\ client # None /\ None \notin Usable /\ LocalHost \notin Usable /\ LocalHost # None
  BY AddressesAssumption DEF Usable, Lists!Clients
<1>5. Whose!XRealIp(t) = IF t.real \in Usable THEN t.real ELSE None
  BY DEF Whose!XRealIp, Usable
<1>6. Whose!Evidence(t)
  BY <1>3, <1>4 DEF Whose!Evidence, Whose!Proxies
<1>7. proxy \in {"snippet", "chain"} => Whose!ForwardedClientIp(t) = client
  BY <1>3, <1>4, <1>5 DEF Whose!ForwardedClientIp
<1>8. Whose!ForwardedClientIp(t) \in {client, None}
  <2>1. CASE Whose!XRealIp(t) = client
    BY <1>4, <2>1 DEF Whose!ForwardedClientIp
  <2>2. CASE Whose!XForwardedForClient(t) = client
    BY <1>4, <2>2 DEF Whose!ForwardedClientIp
  <2> QED BY <1>3, <1>4, <1>5, <2>1, <2>2 DEF Whose!Proxies
<1>9. Whose!ResolveClientIp(t, LocalHost, TRUE)
        = IF Whose!ForwardedClientIp(t) # None THEN Whose!ForwardedClientIp(t) ELSE Unresolved
  BY <1>6 DEF Whose!ResolveClientIp
<1>10. ~Whose!NginxMisconfigured(t, LocalHost) \/ Whose!ForwardedClientIp(t) = None
  BY DEF Whose!NginxMisconfigured
<1> QED BY <1>2, <1>4, <1>7, <1>8, <1>9, <1>10 DEF t

\* Nothing is asked but what the module asks.
LEMMA AddressesAsked == Spec => []Asked
<1>1. Init => Asked
  BY DEF Init, Whose!Init, Whose!Start, Asked
<1>2. Asked /\ [Next]_<<atWork, lockouts, policy, probe>> => Asked'
  <2> SUFFICES ASSUME Asked, [Next]_<<atWork, lockouts, policy, probe>>
               PROVE  Asked'
    OBVIOUS
  <2>1. CASE UNCHANGED probe
    BY <2>1 DEF Asked
  <2>2. CASE Whose!AskNetwork
    BY <2>2 DEF Asked, Whose!AskNetwork, Whose!Addresses, Whose!Bits
  <2>3. Whose!Claims \subseteq Headers
    <3>1. \A S : \A m \in Nat : [1 .. m -> S] \subseteq Seq(S)
      OBVIOUS
    <3>2. \A S : Whose!SeqOf(S, MaxHops + 1) \subseteq Seq(S)
      BY <3>1, AddressesAssumption DEF Whose!SeqOf
    <3> QED BY <3>2 DEF Whose!Claims, Whose!Headers, Headers, Usable
  <2>4. CASE Whose!AskProxied
    BY <2>3, <2>4 DEF Asked, Whose!AskProxied, Usable
  <2>5. CASE Whose!AskDirect
    BY <2>3, <2>5 DEF Asked, Whose!AskDirect, Usable
  <2> QED BY <2>1, <2>2, <2>4, <2>5 DEF Next, Whose!Next
<1> QED BY <1>1, <1>2, PTL DEF Spec

\* Behind a proxy a request is its client's or nobody's, whatever the client claims and however many
\* hops; only a request without a trace of a proxy is the local operator's; and a network covers the
\* addresses that begin with its bits, for every width.
THEOREM AddressesKnowTheClient == Spec => []RequestIsTheClients
<1>1. Asked => RequestIsTheClients
  BY NetworksCover, OperatorsAreDirect, ProxiedAreTheClients DEF RequestIsTheClients
<1> QED BY <1>1, AddressesAsked, PTL
================================================================================
