------------------------------ MODULE DbListProofs ------------------------------
(***************************************************************************)
(* The lists in the index file of the database library (module Db): every   *)
(* hash chain and the free list ends, no record is on two of them, and no   *)
(* record is lost.                                                          *)
(*                                                                          *)
(* The invariant ListInv names the lists instead of following pointers: for *)
(* some lengths n and walks w, the walk of each head leads along the        *)
(* pointers in the files to a null pointer and meets no place twice.  Each  *)
(* step of the library either leaves the lists alone, puts a record in      *)
(* front of one (Pushed: DeleteFree, Link), or leads the pointer behind one *)
(* record around it (Cut: DeleteUnlink, FreeTake).  To say that, ListInv    *)
(* also has to know what each process has read: the place on its list it    *)
(* stands at (db[p].ptroff, off and ptrval), that no record it passed has   *)
(* its key, and that what it read is still so because of the lock it holds. *)
(*                                                                          *)
(* The assumption NoKillDeleting excludes one crash, the one the library    *)
(* does not survive: between the two pointer writes of _db_dodelete         *)
(* (db.c:514 and 520) the record is the head of the free list and still on  *)
(* its chain.  Processes may be killed anywhere else.                       *)
(***************************************************************************)
EXTENDS DbFileProofs, FiniteSetTheorems

(***************************************************************************)
(* Walks along pointers.  P is a pointer function; v leads in m steps from  *)
(* the head h along P to the last place, whose pointer is null.             *)
(***************************************************************************)
Walk(P, h, m, v) ==
    /\ m \in Nat
    /\ v \in [0..m -> DOMAIN P]
    /\ v[0] = h
    /\ \A k \in 0..m : P[v[k]] = IF k < m THEN v[k + 1] ELSE 0
    /\ \A j, k \in 0..m : v[j] = v[k] => j = k
Members(m, v) == {v[k] : k \in 1..m}
\* The walk with a put behind its head, and with its place j left out.
Pushed(m, v, a) ==
    [k \in 0..(m + 1) |-> IF k = 0 THEN v[0] ELSE IF k = 1 THEN a ELSE v[k - 1]]
Cut(m, v, j) == [k \in 0..(m - 1) |-> IF k < j THEN v[k] ELSE v[k + 1]]

\* Induction on the naturals below a bound, from the pigeonhole principle.
LEMMA SetInduction ==
    ASSUME NEW N \in Nat, NEW S, 0 \in S, \A n \in 0 .. N - 1 : n \in S => n + 1 \in S
    PROVE  0 .. N \subseteq S
<1>1. SUFFICES ASSUME NEW m \in 0 .. N, m \notin S
               PROVE  FALSE
  OBVIOUS
<1> DEFINE A == S \cap (0 .. m)
           B == A \ {0}
           f == [n \in A |-> n + 1]
<1>a. A \in SUBSET (0 .. m) /\ 0 \in A /\ m \notin A
  BY <1>1
<1>4. f \in [A -> B] /\ \A n \in A : f[n] = n + 1
  BY <1>1
<1>b. B = A \ {0}
  OBVIOUS
<1> HIDE DEF A, B, f
<1>2. IsFiniteSet(A)
  <2>1. IsFiniteSet(0 .. m)
    BY FS_Interval
  <2> QED BY <2>1, FS_Subset, <1>a
<1>3. IsFiniteSet(B) /\ Cardinality(B) = Cardinality(A) - 1 /\ Cardinality(A) \in Nat
  BY <1>2, FS_RemoveElement, FS_CardinalityType, <1>a, <1>b
<1>6. Cardinality(B) < Cardinality(A)
  BY <1>3
<1>5. \E x, y \in A : x # y /\ f[x] = f[y]
  BY <1>2, <1>3, <1>4, <1>6, FS_PigeonHole
<1> QED BY <1>5, <1>4, <1>a

\* A walk depends on the pointers of its own places only.
LEMMA WalkKept ==
    ASSUME NEW P, NEW Q, NEW h, NEW m, NEW v, Walk(P, h, m, v),
           DOMAIN P \subseteq DOMAIN Q,
           \A k \in 0..m : Q[v[k]] = P[v[k]]
    PROVE  Walk(Q, h, m, v)
BY DEF Walk

\* Led to a new place and on from there, a pointer gives the pushed walk.
LEMMA WalkPushed ==
    ASSUME NEW P, NEW Q, NEW h, NEW m, NEW v, NEW a, Walk(P, h, m, v),
           DOMAIN P = DOMAIN Q, a \in DOMAIN P,
           \A k \in 0..m : v[k] # a,
           Q[h] = a, Q[a] = P[h],
           \A k \in 1..m : Q[v[k]] = P[v[k]]
    PROVE  /\ Walk(Q, h, m + 1, Pushed(m, v, a))
           /\ Members(m + 1, Pushed(m, v, a)) = {a} \cup Members(m, v)
<1> DEFINE u == Pushed(m, v, a)
<1>1. m \in Nat /\ v \in [0..m -> DOMAIN P]
    BY DEF Walk
<1>2. u \in [0..(m + 1) -> DOMAIN P]
    BY <1>1 DEF Pushed
<1>3. /\ u[0] = h /\ u[1] = a
      /\ \A k \in 1..m : u[k + 1] = v[k]
    BY <1>1 DEF Pushed, Walk
<1>4. \A k \in 2..(m + 1) : k - 1 \in 1..m /\ u[k] = v[k - 1]
    BY <1>1, <1>3
<1> HIDE DEF u
<1>5. \A k \in 0..(m + 1) : k = 0 \/ k = 1 \/ k \in 2..(m + 1)
    BY <1>1
<1>6. \A k \in 0..(m + 1) : Q[u[k]] = IF k < m + 1 THEN u[k + 1] ELSE 0
    <2>1. Q[u[0]] = u[1]
        BY <1>3
    <2>2. Q[u[1]] = IF 1 < m + 1 THEN u[2] ELSE 0
        <3>1. Q[u[1]] = P[v[0]] /\ P[v[0]] = IF 0 < m THEN v[1] ELSE 0
            BY <1>1, <1>3 DEF Walk
        <3> QED BY <1>1, <1>3, <3>1
    <2>3. ASSUME NEW k \in 2..(m + 1)
          PROVE  Q[u[k]] = IF k < m + 1 THEN u[k + 1] ELSE 0
        <3>1. k - 1 \in 1..m /\ k - 1 \in 0..m /\ u[k] = v[k - 1]
            BY <1>1, <1>4
        <3>2. Q[u[k]] = IF k - 1 < m THEN v[(k - 1) + 1] ELSE 0
            BY <3>1 DEF Walk
        <3>3. k - 1 < m <=> k < m + 1
            BY <1>1
        <3>4. k < m + 1 => u[k + 1] = v[k] /\ (k - 1) + 1 = k
            BY <1>1, <1>3
        <3> QED BY <3>2, <3>3, <3>4
    <2> QED BY <1>1, <1>5, <2>1, <2>2, <2>3
<1>7. \A j, k \in 0..(m + 1) : u[j] = u[k] => j = k
    <2>1. \A k \in 0..m : v[k] # a
        OBVIOUS
    <2>2. \A j, k \in 0..m : v[j] = v[k] => j = k
        BY DEF Walk
    <2>3. h = v[0]
        BY DEF Walk
    <2> QED BY <1>1, <1>3, <1>4, <1>5, <2>1, <2>2, <2>3
<1>8. Members(m + 1, u) = {a} \cup Members(m, v)
    <2>1. \A k \in 1..(m + 1) : u[k] \in {a} \cup Members(m, v)
        <3>1. \A k \in 1..(m + 1) : k = 1 \/ k \in 2..(m + 1)
            BY <1>1
        <3> QED BY <1>3, <1>4, <3>1 DEF Members
    <2>2. \A k \in 1..m : k + 1 \in 1..(m + 1) /\ v[k] = u[k + 1]
        BY <1>1, <1>3
    <2>3. 1 \in 1..(m + 1)
        BY <1>1
    <2> QED BY <1>3, <2>1, <2>2, <2>3 DEF Members
<1> QED BY <1>1, <1>2, <1>3, <1>6, <1>7, <1>8 DEF Walk, u

\* Led around a place, a pointer gives the walk without it.
LEMMA WalkCut ==
    ASSUME NEW P, NEW Q, NEW h, NEW m, NEW v, NEW j \in 1..m, Walk(P, h, m, v),
           DOMAIN P = DOMAIN Q,
           Q[v[j - 1]] = P[v[j]],
           \A k \in 0..m : k # j - 1 /\ k # j => Q[v[k]] = P[v[k]]
    PROVE  /\ Walk(Q, h, m - 1, Cut(m, v, j))
           /\ Members(m - 1, Cut(m, v, j)) = Members(m, v) \ {v[j]}
<1> DEFINE u == Cut(m, v, j)
<1>1. m \in Nat /\ m - 1 \in Nat /\ j \in Nat /\ v \in [0..m -> DOMAIN P]
    BY DEF Walk
<1>2. u \in [0..(m - 1) -> DOMAIN P]
    BY <1>1 DEF Cut
<1>3. /\ \A k \in 0..(j - 1) : u[k] = v[k]
      /\ \A k \in j..(m - 1) : u[k] = v[k + 1]
    BY <1>1 DEF Cut
<1> HIDE DEF u
<1>4. \A k \in 0..(m - 1) : Q[u[k]] = IF k < m - 1 THEN u[k + 1] ELSE 0
    <2> TAKE k \in 0..(m - 1)
    <2>1. CASE k < j - 1
        <3>1. u[k] = v[k] /\ u[k + 1] = v[k + 1]
            BY <1>1, <1>3, <2>1
        <3>2. Q[v[k]] = P[v[k]] /\ P[v[k]] = v[k + 1]
            BY <1>1, <2>1 DEF Walk
        <3> QED BY <1>1, <2>1, <3>1, <3>2
    <2>2. CASE k = j - 1
        <3>1. u[k] = v[j - 1]
            BY <1>1, <1>3, <2>2
        <3>2. P[v[j]] = IF j < m THEN v[j + 1] ELSE 0
            BY <1>1 DEF Walk
        <3>3. j < m => u[j] = v[j + 1]
            BY <1>1, <1>3
        <3> QED BY <1>1, <2>2, <3>1, <3>2, <3>3
    <2>3. CASE k >= j
        <3>1. u[k] = v[k + 1] /\ k + 1 \in 0..m /\ k + 1 # j - 1 /\ k + 1 # j
            BY <1>1, <1>3, <2>3
        <3>2. Q[v[k + 1]] = IF k + 1 < m THEN v[(k + 1) + 1] ELSE 0
            BY <3>1 DEF Walk
        <3>3. k < m - 1 => u[k + 1] = v[(k + 1) + 1] /\ k + 1 < m
            BY <1>1, <1>3, <2>3
        <3> QED BY <1>1, <3>1, <3>2, <3>3
    <2> QED BY <1>1, <2>1, <2>2, <2>3
<1>5. \A i, k \in 0..(m - 1) : u[i] = u[k] => i = k
    <2>1. \A i, k \in 0..m : v[i] = v[k] => i = k
        BY DEF Walk
    <2> QED BY <1>1, <1>3, <2>1
<1>6. Members(m - 1, u) = Members(m, v) \ {v[j]}
    <2>1. \A i, k \in 0..m : v[i] = v[k] => i = k
        BY DEF Walk
    <2>2. \A k \in 1..(m - 1) : u[k] \in Members(m, v) /\ u[k] # v[j]
        BY <1>1, <1>3, <2>1 DEF Members
    <2>3. ASSUME NEW k \in 1..m, k # j
          PROVE  v[k] \in Members(m - 1, u)
        <3>1. CASE k < j
            BY <1>1, <1>3, <3>1 DEF Members
        <3>2. CASE k > j
            <4>1. k - 1 \in 1..(m - 1) /\ u[k - 1] = v[k]
                BY <1>1, <1>3, <3>2
            <4> QED BY <4>1 DEF Members
        <3> QED BY <1>1, <2>3, <3>1, <3>2
    <2> QED BY <2>2, <2>3 DEF Members
<1>7. u[0] = h
    BY <1>1, <1>3 DEF Walk
<1> QED BY <1>1, <1>2, <1>4, <1>5, <1>6, <1>7 DEF Walk, u

\* Q is P with the pointer of place j - 1 of a walk led around its place j.
Without(A, B, x) == A = B \ {x}
LedAround(P, Q, h, m, v, j, u) ==
    /\ j \in 1..m /\ Walk(P, h, m, v) /\ u = Cut(m, v, j)
    /\ DOMAIN P = DOMAIN Q /\ Q[v[j - 1]] = P[v[j]]
    /\ \A k \in 0..m : k # j - 1 /\ k # j => Q[v[k]] = P[v[k]]

LEMMA WalkLedAround ==
    ASSUME NEW P, NEW Q, NEW h, NEW m, NEW v, NEW j, NEW u, LedAround(P, Q, h, m, v, j, u)
    PROVE  Walk(Q, h, m - 1, u) /\ Without(Members(m - 1, u), Members(m, v), v[j])
BY WalkCut DEF LedAround, Without

\* Following pointers from a head that a walk starts at runs along the walk.
LEMMA FollowsWalk ==
    ASSUME NEW P, NEW h, NEW m, NEW v, Walk(P, h, m, v), NEW N \in Nat,
           \A k \in 1..m : v[k] # 0,
           NEW f,
           f = [k \in 0..N |->
                  IF k = 0 THEN P[h] ELSE IF f[k - 1] = 0 THEN 0 ELSE P[f[k - 1]]]
    PROVE  \A k \in 0..N : f[k] = IF k < m THEN v[k + 1] ELSE 0
<1>1. m \in Nat
    BY DEF Walk
<1>2. f[0] = P[h] /\ \A k \in 0..N : k # 0 => f[k] = IF f[k - 1] = 0 THEN 0 ELSE P[f[k - 1]]
    <2> DEFINE G(k) == IF k = 0 THEN P[h] ELSE IF f[k - 1] = 0 THEN 0 ELSE P[f[k - 1]]
    <2>1. f = [k \in 0..N |-> G(k)]
        OBVIOUS
    <2> HIDE DEF G
    <2>2. \A k \in 0..N : f[k] = G(k)
        BY <2>1
    <2> QED BY <2>2 DEF G
<1> DEFINE S == {k \in 0..N : f[k] = IF k < m THEN v[k + 1] ELSE 0}
<1>3. 0 \in S
    BY <1>1, <1>2 DEF Walk
<1>4. ASSUME NEW k \in 0..N - 1, k \in S
      PROVE  k + 1 \in S
    <2>1. k + 1 \in 0..N /\ k + 1 # 0 /\ (k + 1) - 1 = k
        OBVIOUS
    <2>2. f[k + 1] = IF f[k] = 0 THEN 0 ELSE P[f[k]]
        BY <1>2, <2>1
    <2>3. CASE k < m
        <3>1. k + 1 \in 1..m /\ k + 1 \in 0..m
            BY <1>1, <2>3
        <3>2. f[k] = v[k + 1] /\ v[k + 1] # 0
            BY <1>4, <2>3, <3>1
        <3>3. P[v[k + 1]] = IF k + 1 < m THEN v[(k + 1) + 1] ELSE 0
            BY <3>1 DEF Walk
        <3> QED BY <2>1, <2>2, <3>2, <3>3
    <2>4. CASE ~(k < m)
        BY <1>1, <1>4, <2>1, <2>2, <2>4
    <2> QED BY <2>3, <2>4
<1> HIDE DEF S
<1>5. 0..N \subseteq S
    BY <1>3, <1>4, SetInduction
<1> QED BY <1>5 DEF S

\* The places of a walk satisfy the recursion of Nth (DbSpec).
LEMMA WalkFollowed ==
    ASSUME NEW P, NEW h, NEW m, NEW v, Walk(P, h, m, v), NEW N \in Nat,
           \A k \in 1..m : v[k] # 0
    PROVE  LET g == [k \in 0..N |-> IF k < m THEN v[k + 1] ELSE 0]
           IN  g = [k \in 0..N |->
                  IF k = 0 THEN P[h] ELSE IF g[k - 1] = 0 THEN 0 ELSE P[g[k - 1]]]
<1> DEFINE g == [k \in 0..N |-> IF k < m THEN v[k + 1] ELSE 0]
           G(k) == IF k = 0 THEN P[h] ELSE IF g[k - 1] = 0 THEN 0 ELSE P[g[k - 1]]
<1>1. m \in Nat
    BY DEF Walk
<1>2. ASSUME NEW k \in 0..N
      PROVE  (IF k < m THEN v[k + 1] ELSE 0) = G(k)
    <2>1. CASE k = 0
        BY <1>1, <2>1 DEF Walk
    <2>2. CASE k # 0
        <3>1. k - 1 \in 0..N /\ (k - 1) + 1 = k
            BY <2>2
        <3>2. g[k - 1] = IF k - 1 < m THEN v[k] ELSE 0
            BY <3>1
        <3>3. CASE k - 1 < m
            <4>1. k \in 1..m /\ k \in 0..m
                BY <1>1, <2>2, <3>3
            <4>2. P[v[k]] = IF k < m THEN v[k + 1] ELSE 0
                BY <4>1 DEF Walk
            <4> QED BY <2>2, <3>2, <3>3, <4>1, <4>2
        <3>4. CASE ~(k - 1 < m)
            BY <1>1, <2>2, <3>2, <3>4
        <3> QED BY <3>3, <3>4
    <2> QED BY <2>1, <2>2
<1> HIDE DEF G
<1>3. g = [k \in 0..N |-> G(k)]
    BY <1>2
<1> QED BY <1>3 DEF G

\* A walk over distinct numbers is no longer than there are numbers.
LEMMA WalkShort ==
    ASSUME NEW P, NEW h, NEW m, NEW v, Walk(P, h, m, v), NEW N \in Nat,
           \A k \in 1..m : v[k] \in 1..N
    PROVE  m <= N
<1> SUFFICES ASSUME N < m
             PROVE  FALSE
    BY DEF Walk
<1>1. m \in Nat
    BY DEF Walk
<1> DEFINE A == 1..m
           B == 1..N
           f == [k \in A |-> v[k]]
<1>2. f \in [A -> B] /\ \A k \in A : f[k] = v[k]
    OBVIOUS
<1>3. /\ IsFiniteSet(A) /\ Cardinality(A) = m
      /\ IsFiniteSet(B) /\ Cardinality(B) = N
    BY <1>1, FS_Interval
<1> HIDE DEF f, A, B
<1>4. \E j, k \in A : j # k /\ f[j] = f[k]
    <2>1. Cardinality(B) < Cardinality(A)
        BY <1>3
    <2> QED BY <1>2, <1>3, <2>1, FS_PigeonHole
<1>5. \A j, k \in 1..m : v[j] = v[k] => j = k
    BY <1>1 DEF Walk
<1> QED BY <1>2, <1>4, <1>5 DEF A

(***************************************************************************)
(* The lists and what each process knows of them.                           *)
(***************************************************************************)
\* n[h] records are on the list of head h; w[h] leads from h (at 0) along them.
Links(h) == IF h \in Chains THEN ChainPtrs ELSE FreePtrs
After(n, w, h, k) == IF k < n[h] THEN w[h][k + 1] ELSE 0

Listed(n, w, h) == Members(n[h], w[h])

Keyed(n, w) ==
    \A c \in Chains :
        /\ \A i \in Listed(n, w, c) \ BeingDeleted :
              idx[i].key \in Keys /\ Hash[idx[i].key] = c
        /\ \A i, j \in Listed(n, w, c) : idx[i].key = idx[j].key => i = j

FreeBlank(n, w) == \A i \in Listed(n, w, FREE_OFF) : idx[i].key = Blank

\* A record is on two lists only between DeleteFree and DeleteUnlink.
Unlinking == {db[p].off : p \in {q \in Procs : pc[q] = "d_unlink"}}
Apart(n, w) ==
    \A g, h \in Heads : g # h =>
        \A i \in Listed(n, w, g) \cap Listed(n, w, h) :
            i \in Unlinking /\ FREE_OFF \in {g, h}

Hands(n, w) ==
    \A p \in Procs : \A i \in InHand(p) :
        /\ i \in DOMAIN idx
        /\ \A h \in Heads : i \notin Listed(n, w, h)
        /\ \A q \in Procs : q # p => i \notin InHand(q)

Covered(n, w) ==
    (\A p \in Procs : pc[p] \notin Ended) =>
        \A i \in DOMAIN idx :
            (\E h \in Heads : i \in Listed(n, w, h)) \/ (\E p \in Procs : i \in InHand(p))

\* The key of the call is on no record of the chain.
Missing == {"r_head", "i_head", "ff_lock", "ff_scan", "ff_take", "u_dat", "u_idx",
    "a_dat", "a_dat_write", "a_idx", "a_idx_write", "link"}
HeadRead == {"ff_lock", "ff_scan", "ff_take", "u_dat", "u_idx",
    "a_dat", "a_dat_write", "a_idx", "a_idx_write"}

\* p stands between places j - 1 and j of the list of head h.
Stands(p, n, w, h, j) ==
    /\ j \in 1..(n[h] + 1)
    /\ db[p].ptroff = w[h][j - 1]
    /\ db[p].off = After(n, w, h, j - 1)
StandsAt(p, n, w, h, j) ==
    /\ j \in 1..n[h]
    /\ db[p].ptroff = w[h][j - 1]
    /\ db[p].off = w[h][j]
    /\ db[p].ptrval = After(n, w, h, j)

\* A call looking for its key has passed no record that has it.
Scans(p, n, w) ==
    pc[p] = "scan" =>
        \E j \in 1..(n[Chain(p)] + 1) :
            /\ Stands(p, n, w, Chain(p), j)
            /\ \A k \in 1..(j - 1) : idx[w[Chain(p)][k]].key # req[p].key

\* _db_dodelete knows the place of the record, and no other has its key.
Deletes(p, n, w) ==
    pc[p] \in DeleteOrStore =>
        \E j \in 1..n[Chain(p)] :
            /\ StandsAt(p, n, w, Chain(p), j)
            /\ \A k \in 1..n[Chain(p)] :
                  k # j => idx[w[Chain(p)][k]].key # req[p].key

\* It has blanked the record and put it in front of the free list.
Frees(p) ==
    /\ Deleting(p) => idx[db[p].off].key = Blank
    /\ pc[p] = "d_free" => idx[db[p].off].ptr = table[FREE_OFF]
    /\ pc[p] = "d_unlink" => table[FREE_OFF] = db[p].off

\* db_store has made sure that no record of the chain has its key, and knows
\* the first record of the chain.
Inserts(p, n, w) ==
    /\ pc[p] \in Missing => \A i \in Listed(n, w, Chain(p)) : idx[i].key # req[p].key
    /\ pc[p] \in HeadRead => db[p].next = table[Chain(p)]
    /\ pc[p] = "link" =>
          idx[db[p].off].ptr = table[Chain(p)] /\ idx[db[p].off].key = req[p].key

\* _db_findfree knows its place on the free list.
FindsFree(p, n, w) ==
    /\ pc[p] = "ff_scan" => \E j \in 1..(n[FREE_OFF] + 1) : Stands(p, n, w, FREE_OFF, j)
    /\ pc[p] = "ff_take" => \E j \in 1..n[FREE_OFF] : StandsAt(p, n, w, FREE_OFF, j)

Place(p, n, w) ==
    /\ Scans(p, n, w) /\ Deletes(p, n, w) /\ Frees(p)
    /\ Inserts(p, n, w) /\ FindsFree(p, n, w)

Lists(n, w) ==
    /\ n \in [Heads -> Nat]
    /\ \A h \in Heads : Walk(Links(h), h, n[h], w[h])
    /\ \A h \in Heads : Listed(n, w, h) \subseteq DOMAIN idx
    /\ Keyed(n, w) /\ FreeBlank(n, w) /\ Apart(n, w) /\ Hands(n, w) /\ Covered(n, w)
    /\ \A p \in Procs : Place(p, n, w)

ListInv == \E n, w : Lists(n, w)

\* Nth finds the walk.
LEMMA NthIsWalk ==
    ASSUME NEW P, NEW h, NEW m, NEW v, Walk(P, h, m, v), Len(idx) \in Nat,
           \A k \in 1..m : v[k] \in 1..Len(idx)
    PROVE  /\ Nth(P, h) = [k \in 0..Len(idx) |-> IF k < m THEN v[k + 1] ELSE 0]
           /\ m <= Len(idx)
<1> DEFINE N == Len(idx)
           g == [k \in 0..N |-> IF k < m THEN v[k + 1] ELSE 0]
           Eq(f) == f = [k \in 0..N |->
                  IF k = 0 THEN P[h] ELSE IF f[k - 1] = 0 THEN 0 ELSE P[f[k - 1]]]
<1>1. Eq(g)
    BY WalkFollowed
<1>2. ASSUME NEW f, Eq(f)
      PROVE  f = g
    <2>1. \A k \in 0..N : f[k] = IF k < m THEN v[k + 1] ELSE 0
        BY <1>2, FollowsWalk
    <2>2. f = [k \in 0..N |-> f[k]]
        BY <1>2
    <2> QED BY <2>1, <2>2
<1>3. Nth(P, h) = CHOOSE f : Eq(f)
    BY DEF Nth
<1> HIDE DEF Eq, g
<1>4. Nth(P, h) = g
    BY <1>1, <1>2, <1>3
<1>5. m <= N
    BY WalkShort
<1> QED BY <1>4, <1>5 DEF g

(***************************************************************************)
(* The pointers along which a chain runs on while a record is deleted.      *)
(***************************************************************************)
PtrsKnown ==
    /\ (\A p \in Procs : ~Deleting(p)) =>
          BeingDeleted = {} /\ \A loc : ChainPtr(loc) = ReadPtr(loc)
    /\ \A p \in Procs : Deleting(p) =>
          /\ BeingDeleted = {db[p].off}
          /\ \A loc : ChainPtr(loc) =
                IF loc = db[p].off THEN db[p].ptrval ELSE ReadPtr(loc)
          /\ \A q \in Procs : Deleting(q) => q = p

LEMMA PtrsAre == LockInv => PtrsKnown
<1> SUFFICES ASSUME LockInv
             PROVE  PtrsKnown
    OBVIOUS
<1>1. ASSUME \A p \in Procs : ~Deleting(p)
      PROVE  BeingDeleted = {} /\ \A loc : ChainPtr(loc) = ReadPtr(loc)
    BY <1>1 DEF BeingDeleted, ChainPtr
<1>2. ASSUME NEW p \in Procs, Deleting(p)
      PROVE  /\ BeingDeleted = {db[p].off}
             /\ \A loc : ChainPtr(loc) =
                   IF loc = db[p].off THEN db[p].ptrval ELSE ReadPtr(loc)
             /\ \A q \in Procs : Deleting(q) => q = p
    <2>1. ASSUME NEW q \in Procs, Deleting(q)
          PROVE  q = p
        BY <1>2, <2>1, CriticalSectionsHeld DEF CriticalSections, Deleting, OnFreeList
    <2>2. BeingDeleted = {db[p].off}
        BY <1>2, <2>1 DEF BeingDeleted
    <2>3. ASSUME NEW loc, loc = db[p].off
          PROVE  ChainPtr(loc) = db[p].ptrval
        <3> DEFINE r == CHOOSE q \in Procs : Deleting(q) /\ db[q].off = loc
        <3>1. r \in Procs /\ Deleting(r)
            BY <1>2, <2>3
        <3>2. r = p
            BY <2>1, <3>1
        <3>3. ChainPtr(loc) = db[r].ptrval
            BY <2>2, <2>3 DEF ChainPtr
        <3> QED BY <3>2, <3>3
    <2>4. ASSUME NEW loc, loc # db[p].off
          PROVE  ChainPtr(loc) = ReadPtr(loc)
        BY <2>2, <2>4 DEF ChainPtr
    <2> QED BY <2>1, <2>2, <2>3, <2>4
<1> QED BY <1>1, <1>2 DEF PtrsKnown

LEMMA SoundPtrs == ASSUME LockInv' PROVE PtrsKnown'
BY PtrsAre, PTL

(***************************************************************************)
(* The other processes: what they know stays true.                          *)
(***************************************************************************)
StandStill(p) ==
    \A q \in Procs \ {p} : pc'[q] = pc[q] /\ req'[q] = req[q] /\ db'[q] = db[q]

UpdatesChain(p, c) == OnChain(p, c) /\ Op(p) # "fetch"

\* What p may change between the lists (n, w) and (m, v).
KeepsToItsOwn(p, n, w, m, v) ==
    /\ \A c \in Chains : ~UpdatesChain(p, c) =>
          /\ m[c] = n[c] /\ v[c] = w[c] /\ table'[c] = table[c]
          /\ \A i \in Listed(n, w, c) : idx'[i].key = idx[i].key
    /\ ~OnFreeList(p) =>
          /\ m[FREE_OFF] = n[FREE_OFF] /\ v[FREE_OFF] = w[FREE_OFF]
          /\ table'[FREE_OFF] = table[FREE_OFF]
    /\ \A q \in Procs \ {p} : pc[q] \in {"d_free", "d_unlink", "link"} =>
          /\ idx'[db[q].off].key = idx[db[q].off].key
          /\ idx'[db[q].off].ptr = idx[db[q].off].ptr

LEMMA OthersPlaced ==
    ASSUME LockInv, NEW p \in Procs, NEW q \in Procs, q # p,
           NEW n, NEW w, NEW m, NEW v, n \in [Heads -> Nat],
           Place(q, n, w), StandStill(p), KeepsToItsOwn(p, n, w, m, v)
    PROVE  Place(q, m, v)'
<1> USE DEF KeyedCall, InCall, StoreOnly, DeleteOrStore
<1>1. /\ pc'[q] = pc[q] /\ req'[q] = req[q] /\ db'[q] = db[q]
      /\ Op(q)' = Op(q) /\ Chain(q)' = Chain(q)
    BY DEF StandStill, Op, Chain
<1>2. OnFreeList(q) => ~OnFreeList(p)
    BY CriticalSectionsHeld DEF CriticalSections
<1>3. ASSUME pc[q] \in KeyedCall \ {"find"}
      PROVE  /\ Chain(q) \in Heads /\ n[Chain(q)] \in Nat
             /\ m[Chain(q)] = n[Chain(q)] /\ v[Chain(q)] = w[Chain(q)]
             /\ table'[Chain(q)] = table[Chain(q)]
             /\ \A i \in Listed(n, w, Chain(q)) : idx'[i].key = idx[i].key
    <2>1. Chain(q) \in Chains
        BY <1>3, MyChain
    <2>2. ~UpdatesChain(p, Chain(q))
        BY <1>3, <2>1, CriticalSectionsHeld DEF CriticalSections, OnChain, UpdatesChain
    <2> QED BY <2>1, <2>2 DEF KeepsToItsOwn, Heads
<1>4. pc[q] \in Missing \cup DeleteOrStore => pc[q] \in KeyedCall \ {"find"}
    BY DEF Missing
<1>5. \A k \in 1..n[Chain(q)] : w[Chain(q)][k] \in Listed(n, w, Chain(q))
    BY DEF Listed, Members
<1>6. Scans(q, m, v)'
    <2> SUFFICES ASSUME pc[q] = "scan"
                 PROVE  \E j \in 1..(m[Chain(q)] + 1) :
                            /\ Stands(q, m, v, Chain(q), j)'
                            /\ \A k \in 1..(j - 1) :
                                  idx'[v[Chain(q)][k]].key # req[q].key
        BY <1>1 DEF Scans, Stands
    <2>1. PICK j \in 1..(n[Chain(q)] + 1) :
              /\ Stands(q, n, w, Chain(q), j)
              /\ \A k \in 1..(j - 1) : idx[w[Chain(q)][k]].key # req[q].key
        BY DEF Place, Scans
    <2>2. /\ m[Chain(q)] = n[Chain(q)] /\ v[Chain(q)] = w[Chain(q)]
          /\ n[Chain(q)] \in Nat
        BY <1>3
    <2>3. \A k \in 1..(j - 1) : k \in 1..n[Chain(q)]
        BY <2>2
    <2>4. \A k \in 1..(j - 1) :
              idx'[w[Chain(q)][k]].key = idx[w[Chain(q)][k]].key
        BY <1>3, <1>5, <2>3
    <2>5. Stands(q, m, v, Chain(q), j)'
        BY <1>1, <2>1, <2>2 DEF Stands, After
    <2> QED BY <2>1, <2>2, <2>4, <2>5
<1>7. Deletes(q, m, v)'
    <2> SUFFICES ASSUME pc[q] \in DeleteOrStore
                 PROVE  \E j \in 1..m[Chain(q)] :
                            /\ StandsAt(q, m, v, Chain(q), j)'
                            /\ \A k \in 1..m[Chain(q)] :
                                  k # j => idx'[v[Chain(q)][k]].key # req[q].key
        BY <1>1 DEF Deletes, StandsAt
    <2>1. PICK j \in 1..n[Chain(q)] :
              /\ StandsAt(q, n, w, Chain(q), j)
              /\ \A k \in 1..n[Chain(q)] :
                    k # j => idx[w[Chain(q)][k]].key # req[q].key
        BY DEF Place, Deletes
    <2>2. /\ m[Chain(q)] = n[Chain(q)] /\ v[Chain(q)] = w[Chain(q)]
          /\ n[Chain(q)] \in Nat
        BY <1>3, <1>4
    <2>3. \A k \in 1..n[Chain(q)] :
              idx'[w[Chain(q)][k]].key = idx[w[Chain(q)][k]].key
        BY <1>3, <1>4, <1>5
    <2>4. StandsAt(q, m, v, Chain(q), j)'
        BY <1>1, <2>1, <2>2 DEF StandsAt, After
    <2> QED BY <2>1, <2>2, <2>3, <2>4
<1>8. Frees(q)'
    <2>1. Deleting(q) => table'[FREE_OFF] = table[FREE_OFF]
        BY <1>2 DEF KeepsToItsOwn, OnFreeList, Deleting
    <2>2. Deleting(q) => /\ idx'[db[q].off].key = idx[db[q].off].key
                         /\ idx'[db[q].off].ptr = idx[db[q].off].ptr
        BY DEF KeepsToItsOwn, Deleting
    <2>3. Frees(q)
        BY DEF Place
    <2> QED BY <1>1, <2>1, <2>2, <2>3 DEF Frees, Deleting
<1>9. Inserts(q, m, v)'
    <2>1. ASSUME pc[q] \in Missing
          PROVE  /\ \A i \in Listed(m, v, Chain(q)) : idx'[i].key # req[q].key
                 /\ table'[Chain(q)] = table[Chain(q)]
        <3>1. Listed(m, v, Chain(q)) = Listed(n, w, Chain(q))
            BY <1>3, <1>4, <2>1 DEF Listed
        <3> QED BY <1>3, <1>4, <2>1, <3>1 DEF Place, Inserts
    <2>2. pc[q] = "link" => /\ idx'[db[q].off].key = idx[db[q].off].key
                            /\ idx'[db[q].off].ptr = idx[db[q].off].ptr
        BY DEF KeepsToItsOwn
    <2>3. Inserts(q, n, w)
        BY DEF Place
    <2>4. pc[q] \in HeadRead \cup {"link"} => pc[q] \in Missing
        BY DEF HeadRead, Missing
    <2>5. Listed(m, v, Chain(q))' = Listed(m, v, Chain(q))
        BY <1>1 DEF Listed
    <2> QED BY <1>1, <2>1, <2>2, <2>3, <2>4, <2>5 DEF Inserts
<1>10. FindsFree(q, m, v)'
    <2>1. pc[q] \in {"ff_scan", "ff_take"} =>
              m[FREE_OFF] = n[FREE_OFF] /\ v[FREE_OFF] = w[FREE_OFF]
        BY <1>2 DEF KeepsToItsOwn, OnFreeList
    <2>2. FindsFree(q, n, w)
        BY DEF Place
    <2> QED BY <1>1, <2>1, <2>2 DEF FindsFree, Stands, StandsAt, After
<1> QED BY <1>6, <1>7, <1>8, <1>9, <1>10 DEF Place

(***************************************************************************)
(* Steps that change no pointer and no key.                                 *)
(***************************************************************************)
LEMMA SteadyPtrs ==
    ASSUME LockInv, LockInv', NEW p \in Procs, StandStill(p),
           table' = table, idx' = idx, ~Deleting(p), ~Deleting(p)'
    PROVE  /\ BeingDeleted' = BeingDeleted /\ Unlinking' = Unlinking
           /\ \A h \in Heads : Links(h)' = Links(h)
<1>1. \A q \in Procs : /\ Deleting(q)' <=> Deleting(q)
                       /\ Deleting(q) => db'[q] = db[q]
                       /\ pc'[q] = "d_unlink" <=> pc[q] = "d_unlink"
    BY DEF StandStill, Deleting
<1>2. BeingDeleted' = BeingDeleted
    BY <1>1 DEF BeingDeleted
<1>3. Unlinking' = Unlinking
    BY <1>1 DEF Unlinking, Deleting
<1>4. \A loc : ReadPtr(loc)' = ReadPtr(loc)
    BY DEF ReadPtr
<1>5. PtrsKnown /\ PtrsKnown'
    BY PtrsAre, SoundPtrs
<1>6. ASSUME NEW loc
      PROVE  ChainPtr(loc)' = ChainPtr(loc)
    <2>1. CASE \E q \in Procs : Deleting(q)
        <3>1. PICK q \in Procs : Deleting(q)
            BY <2>1
        <3>2. ChainPtr(loc) = IF loc = db[q].off THEN db[q].ptrval ELSE ReadPtr(loc)
            BY <1>5, <3>1 DEF PtrsKnown
        <3>3. ChainPtr(loc)' = IF loc = db'[q].off THEN db'[q].ptrval ELSE ReadPtr(loc)'
            BY <1>1, <1>5, <3>1 DEF PtrsKnown
        <3> QED BY <1>1, <1>4, <3>1, <3>2, <3>3
    <2>2. CASE \A q \in Procs : ~Deleting(q)
        <3>1. ChainPtr(loc) = ReadPtr(loc)
            BY <1>5, <2>2 DEF PtrsKnown
        <3>2. ChainPtr(loc)' = ReadPtr(loc)'
            BY <1>1, <1>5, <2>2 DEF PtrsKnown
        <3> QED BY <1>4, <3>1, <3>2
    <2> QED BY <2>1, <2>2
<1>7. ChainPtrs' = ChainPtrs /\ FreePtrs' = FreePtrs
    BY <1>4, <1>6 DEF ChainPtrs, FreePtrs, Places
<1> QED BY <1>2, <1>3, <1>7 DEF Links

LEMMA Steady ==
    ASSUME LockInv, LockInv', NEW p \in Procs, StandStill(p),
           NEW n, NEW w, Lists(n, w),
           table' = table, idx' = idx, ~Deleting(p), ~Deleting(p)',
           pc[p] \notin Ended,
           InHand(p)' \subseteq InHand(p),
           pc'[p] \notin Ended => InHand(p)' = InHand(p),
           Place(p, n, w)'
    PROVE  Lists(n, w)'
<1>1. /\ BeingDeleted' = BeingDeleted /\ Unlinking' = Unlinking
      /\ \A h \in Heads : Links(h)' = Links(h)
    BY SteadyPtrs
<1>2. n \in [Heads -> Nat]
    BY DEF Lists
<1>3. \A q \in Procs \ {p} : Place(q, n, w)'
    <2>1. KeepsToItsOwn(p, n, w, n, w)
        BY DEF KeepsToItsOwn
    <2> QED BY <1>2, <2>1, OthersPlaced DEF Lists
<1>4. \A h \in Heads : Walk(Links(h), h, n[h], w[h])'
    BY <1>1 DEF Lists
<1>5. \A q \in Procs \ {p} : InHand(q)' = InHand(q)
    BY DEF StandStill, InHand
<1>6. Listed(n, w, FREE_OFF)' = Listed(n, w, FREE_OFF)
    BY DEF Listed
<1>7. Keyed(n, w)' /\ FreeBlank(n, w)' /\ Apart(n, w)'
    BY <1>1, <1>6 DEF Lists, Keyed, FreeBlank, Apart, Listed
<1>8. Hands(n, w)'
    <2>1. Hands(n, w)
        BY DEF Lists
    <2>2. \A q \in Procs : InHand(q)' \subseteq InHand(q)
        BY <1>5
    <2> QED BY <2>1, <2>2 DEF Hands, Listed
<1>9. Covered(n, w)'
    <2> SUFFICES ASSUME \A q \in Procs : pc'[q] \notin Ended
                 PROVE  \A i \in DOMAIN idx' :
                            \/ \E h \in Heads : i \in Listed(n, w, h)
                            \/ \E q \in Procs : i \in InHand(q)'
        BY DEF Covered, Listed
    <2>1. \A q \in Procs : pc[q] \notin Ended
        BY DEF StandStill
    <2>2. \A q \in Procs : InHand(q)' = InHand(q)
        BY <1>5
    <2> QED BY <2>1, <2>2 DEF Lists, Covered
<1> QED BY <1>2, <1>3, <1>4, <1>7, <1>8, <1>9 DEF Lists, Listed

\* One process moves at a time.
LEMMA OneAtATime ==
    ASSUME LockInv, FileInv, NEW p \in Procs,
           Call(p) \/ Rewind(p) \/ Step(p) \/ Kill(p)
    PROVE  StandStill(p)
<1>1. /\ pc \in [Procs -> {"idle"} \cup InCall \cup Ended]
      /\ req \in [Procs -> Requests \cup {None}]
      /\ db \in [Procs -> DBs]
    BY DEF LockInv, FileInv, FileTypes
<1>2. CASE Call(p) \/ Rewind(p) \/ Kill(p)
    BY <1>1, <1>2 DEF Call, Rewind, Kill, End, Goto, StandStill
<1>3. CASE FindAndLock(p) \/ FindNext(p) \/ Found(p) \/ NotFound(p) \/ ReadData(p)
           \/ Overwrite(p) \/ Return(p)
    BY <1>1, <1>3 DEF FindAndLock, FindNext, Found, NotFound, ReadData, Overwrite,
       Return, Goto, StandStill
<1>4. CASE DeleteData(p) \/ DeleteIndex(p) \/ DeleteFree(p) \/ DeleteUnlink(p)
           \/ ReadChainHead(p)
    BY <1>1, <1>4 DEF DeleteData, DeleteIndex, DeleteFree, DeleteUnlink,
       ReadChainHead, Goto, StandStill
<1>5. CASE FreeLock(p) \/ FreeNext(p) \/ FreeFound(p) \/ FreeTake(p) \/ FreeNone(p)
           \/ ReuseData(p) \/ ReuseIndex(p)
    BY <1>1, <1>5 DEF FreeLock, FreeNext, FreeFound, FreeTake, FreeNone, ReuseData,
       ReuseIndex, Goto, StandStill
<1>6. CASE AppendSeekData(p) \/ AppendData(p) \/ AppendSeekIndex(p) \/ AppendIndex(p)
           \/ Link(p) \/ LinkQuit(p)
    BY <1>1, <1>6 DEF AppendSeekData, AppendData, AppendSeekIndex, AppendIndex,
       Link, LinkQuit, End, Goto, StandStill
<1>7. CASE NextLock(p) \/ NextSkip(p) \/ NextFound(p) \/ NextEOF(p) \/ NextData(p)
           \/ NextDump(p) \/ NextReturn(p)
    BY <1>1, <1>7 DEF NextLock, NextSkip, NextFound, NextEOF, NextData, NextDump,
       NextReturn, End, Goto, StandStill
<1> QED BY <1>2, <1>3, <1>4, <1>5, <1>6, <1>7 DEF Step

\* Control points at which a process knows nothing about the lists.
LEMMA PlaceElsewhere ==
    ASSUME NEW p \in Procs, NEW n, NEW w,
           pc'[p] \notin {"scan"} \cup DeleteOrStore \cup Missing
    PROVE  Place(p, n, w)'
BY DEF Place, Scans, Deletes, Frees, Inserts, FindsFree, Deleting, Missing, HeadRead,
       DeleteOrStore

NoKillDeleting == KillAt \cap {"d_free", "d_unlink"} = {}

\* Steps to where a process knows nothing of the lists.
LEMMA LeavesLists ==
    ASSUME LockInv, LockInv', FileInv, NoKillDeleting, NEW p \in Procs,
           NEW n, NEW w, Lists(n, w),
           \/ Call(p) \/ Rewind(p) \/ ReadData(p) \/ Overwrite(p) \/ Return(p)
           \/ NextLock(p) \/ NextSkip(p) \/ NextFound(p) \/ NextEOF(p)
           \/ NextData(p) \/ NextDump(p) \/ NextReturn(p) \/ LinkQuit(p) \/ Kill(p)
    PROVE  Lists(n, w)'
<1>1. StandStill(p)
    BY OneAtATime DEF Step
<1>2. /\ pc \in [Procs -> {"idle"} \cup InCall \cup Ended]
    BY DEF LockInv
<1>3. /\ table' = table /\ idx' = idx
      /\ pc[p] \notin Ended /\ ~Deleting(p)
      /\ pc'[p] \in {"idle", "find", "unlock", "n_lock", "n_idx", "n_dat", "n_unlock"}
                     \cup Ended
      /\ InHand(p) # {} => pc'[p] \in Ended
    <2>1. CASE Call(p) \/ Rewind(p)
        BY <1>2, <2>1 DEF Call, Rewind, Goto, Ended, Deleting, InHand
    <2>2. CASE ReadData(p) \/ Overwrite(p) \/ Return(p)
        BY <1>2, <2>2 DEF ReadData, Overwrite, Return, files, Goto, Ended, Deleting, InHand
    <2>3. CASE NextLock(p) \/ NextSkip(p) \/ NextFound(p) \/ NextEOF(p) \/ NextData(p)
               \/ NextReturn(p)
        BY <1>2, <2>3 DEF NextLock, NextSkip, NextFound, NextEOF, NextData,
           NextReturn, files, Goto, Ended, Deleting, InHand
    <2>4. CASE NextDump(p) \/ LinkQuit(p) \/ Kill(p)
        <3>1. pc[p] \in InCall
            BY <2>4, DbAssumption DEF NextDump, LinkQuit, Kill, InCall, KeyedCall, NextCall
        <3>2. ~Deleting(p)
            BY <2>4 DEF NextDump, LinkQuit, Kill, NoKillDeleting, Deleting
        <3>3. pc'[p] \in Ended /\ table' = table /\ idx' = idx
            BY <1>2, <2>4 DEF NextDump, LinkQuit, Kill, End, Goto, Ended
        <3> QED BY <3>1, <3>2, <3>3 DEF InCall, KeyedCall, NextCall, Ended
    <2> QED BY <2>1, <2>2, <2>3, <2>4
<1>4. InHand(p)' = {} /\ ~Deleting(p)'
    BY <1>3 DEF InHand, Deleting, Ended
<1>5. Place(p, n, w)'
    BY <1>3, PlaceElsewhere DEF DeleteOrStore, Missing, Ended
<1> QED BY <1>1, <1>3, <1>4, <1>5, Steady

(***************************************************************************)
(* What the lists say about the pointers in the files.                      *)
(***************************************************************************)
LEMMA ListFacts ==
    ASSUME FileInv, NEW n, NEW w, Lists(n, w), NEW h \in Heads
    PROVE  /\ n[h] \in Nat /\ w[h][0] = h /\ h \notin Nat
           /\ \A k \in 0..n[h] : Links(h)[w[h][k]] = After(n, w, h, k)
           /\ \A k \in 0..n[h] : w[h][k] \in Places
           /\ \A k \in 1..n[h] : /\ w[h][k] \in Listed(n, w, h)
                                 /\ w[h][k] \in DOMAIN idx
                                 /\ w[h][k] \in Nat \ {0}
                                 /\ w[h][k] \notin Heads
           /\ \A j, k \in 0..n[h] : w[h][j] = w[h][k] => j = k
           /\ \A k \in 0..n[h] : After(n, w, h, k) \in Nat
           /\ \A k \in 0..n[h] : After(n, w, h, k) = 0 <=> k = n[h]
<1>1. n[h] \in Nat /\ Walk(Links(h), h, n[h], w[h]) /\ Listed(n, w, h) \subseteq DOMAIN idx
    BY DEF Lists
<1>2. DOMAIN Links(h) = Places
    BY DEF Links, ChainPtrs, FreePtrs
<1>3. Len(idx) \in Nat /\ DOMAIN idx = 1..Len(idx)
    BY SeqFacts DEF FileInv
<1>4. \A g \in Heads : g \notin Nat
    BY DbAssumption DEF Heads
<1>5. \A k \in 1..n[h] : /\ w[h][k] \in Listed(n, w, h)
                         /\ w[h][k] \in DOMAIN idx
                         /\ w[h][k] \in Nat \ {0}
                         /\ w[h][k] \notin Heads
    <2>1. \A k \in 1..n[h] : w[h][k] \in Listed(n, w, h)
        BY DEF Listed, Members
    <2>2. \A i \in DOMAIN idx : i \in Nat \ {0} /\ i \notin Heads
        BY <1>3, <1>4
    <2> QED BY <1>1, <2>1, <2>2
<1>6. \A k \in 0..n[h] : k < n[h] => k + 1 \in 1..n[h]
    BY <1>1
<1>7. w[h][0] = h /\ h \notin Nat /\ \A k \in 0..n[h] : w[h][k] \in Places
    BY <1>1, <1>2, <1>4 DEF Walk
<1>8. \A k \in 0..n[h] : Links(h)[w[h][k]] = After(n, w, h, k)
    BY <1>1 DEF Walk, After
<1>9. \A j, k \in 0..n[h] : w[h][j] = w[h][k] => j = k
    BY <1>1 DEF Walk
<1>10. ASSUME NEW k \in 0..n[h]
       PROVE  After(n, w, h, k) \in Nat /\ (After(n, w, h, k) = 0 <=> k = n[h])
    <2>1. CASE k < n[h]
        BY <1>5, <1>6, <2>1 DEF After
    <2>2. CASE ~ k < n[h]
        BY <1>1, <2>2 DEF After
    <2> QED BY <2>1, <2>2
<1> QED BY <1>1, <1>5, <1>7, <1>8, <1>9, <1>10

LEMMA FreeListPtrs ==
    ASSUME FileInv, NEW n, NEW w, Lists(n, w)
    PROVE  /\ \A k \in 0..n[FREE_OFF] :
                 ReadPtr(w[FREE_OFF][k]) = After(n, w, FREE_OFF, k)
           /\ table[FREE_OFF] = After(n, w, FREE_OFF, 0)
           /\ \A k \in 1..n[FREE_OFF] :
                 idx[w[FREE_OFF][k]].ptr = After(n, w, FREE_OFF, k)
<1>1. FREE_OFF \in Heads /\ Links(FREE_OFF) = FreePtrs
    BY DbAssumption DEF Heads, Links
<1>2. \A k \in 0..n[FREE_OFF] : ReadPtr(w[FREE_OFF][k]) = After(n, w, FREE_OFF, k)
    BY <1>1, ListFacts DEF FreePtrs
<1>3. \A k \in 1..n[FREE_OFF] : w[FREE_OFF][k] \notin Heads /\ k \in 0..n[FREE_OFF]
    BY <1>1, ListFacts
<1>4. w[FREE_OFF][0] = FREE_OFF /\ 0 \in 0..n[FREE_OFF]
    BY <1>1, ListFacts
<1> QED BY <1>1, <1>2, <1>3, <1>4 DEF ReadPtr

\* A record being deleted is on the chain of the process that deletes it.
LEMMA DeletedListed ==
    ASSUME LockInv, FileInv, NEW n, NEW w, Lists(n, w), NEW p \in Procs, pc[p] \in DeleteOrStore
    PROVE  /\ Chain(p) \in Chains /\ Chain(p) \in Heads
           /\ db[p].off \in Listed(n, w, Chain(p))
<1>1. Chain(p) \in Chains /\ Chain(p) \in Heads
    BY MyChain DEF DeleteOrStore, KeyedCall, Heads
<1>2. PICK j \in 1..n[Chain(p)] : StandsAt(p, n, w, Chain(p), j)
    BY DEF Lists, Place, Deletes
<1> QED BY <1>1, <1>2, ListFacts DEF StandsAt

\* Where no process deletes, a chain is what its pointers say.
LEMMA ChainPtrsOf ==
    ASSUME LockInv, FileInv, NEW n, NEW w, Lists(n, w), NEW c \in Chains,
           \A q \in Procs : Deleting(q) => Chain(q) # c
    PROVE  /\ Listed(n, w, c) \cap BeingDeleted = {}
           /\ \A k \in 0..n[c] : ReadPtr(w[c][k]) = After(n, w, c, k)
           /\ table[c] = After(n, w, c, 0)
           /\ \A k \in 1..n[c] : idx[w[c][k]].ptr = After(n, w, c, k)
<1>1. c \in Heads /\ c # FREE_OFF /\ Links(c) = ChainPtrs
    BY DbAssumption DEF Heads, Links
<1>2. ASSUME NEW q \in Procs, Deleting(q)
      PROVE  /\ db[q].off \notin Listed(n, w, c)
             /\ db[q].off \in Nat
    <2>1. /\ Chain(q) \in Chains /\ Chain(q) \in Heads /\ Chain(q) # c
          /\ db[q].off \in Listed(n, w, Chain(q))
        BY <1>2, DeletedListed DEF Deleting, DeleteOrStore
    <2>2. FREE_OFF \notin {Chain(q), c}
        BY <1>1, <2>1, DbAssumption
    <2>3. Apart(n, w)
        BY DEF Lists
    <2>4. db[q].off \in Nat
        BY DEF FileInv, FileTypes, DBs
    <2> QED BY <1>1, <2>1, <2>2, <2>3, <2>4 DEF Apart
<1>3. Listed(n, w, c) \cap BeingDeleted = {}
    BY <1>2 DEF BeingDeleted
<1>4. \A k \in 0..n[c] : w[c][k] \notin BeingDeleted
    <2>1. BeingDeleted \subseteq Nat
        BY <1>2 DEF BeingDeleted
    <2>2. \A k \in 0..n[c] : k = 0 \/ k \in 1..n[c]
        BY <1>1, ListFacts
    <2>3. w[c][0] \notin Nat /\ \A k \in 1..n[c] : w[c][k] \in Listed(n, w, c)
        BY <1>1, ListFacts
    <2> QED BY <1>3, <2>1, <2>2, <2>3
<1>5. \A k \in 0..n[c] : ReadPtr(w[c][k]) = After(n, w, c, k)
    <2>1. \A k \in 0..n[c] : ChainPtr(w[c][k]) = After(n, w, c, k)
        BY <1>1, ListFacts DEF ChainPtrs
    <2> QED BY <1>4, <2>1 DEF ChainPtr
<1>6. \A k \in 1..n[c] : w[c][k] \notin Heads /\ k \in 0..n[c]
    BY <1>1, ListFacts
<1>7. w[c][0] = c /\ 0 \in 0..n[c]
    BY <1>1, ListFacts
<1> QED BY <1>1, <1>3, <1>5, <1>6, <1>7 DEF ReadPtr

\* No other process deletes on a chain this one holds the write lock of.
LEMMA AloneOnChain ==
    ASSUME LockInv, NEW p \in Procs, pc[p] \in KeyedCall \ {"find"}, Op(p) # "fetch"
    PROVE  /\ Chain(p) \in Chains /\ Chain(p) \in Heads
           /\ \A q \in Procs : q # p /\ Deleting(q) => Chain(q) # Chain(p)
<1>1. Chain(p) \in Chains /\ Chain(p) \in Heads
    BY MyChain DEF Heads
<1>2. ASSUME NEW q \in Procs, q # p, Deleting(q)
      PROVE  Chain(q) # Chain(p)
    BY <1>1, <1>2, CriticalSectionsHeld
       DEF CriticalSections, OnChain, Deleting, KeyedCall
<1> QED BY <1>1, <1>2

\* What reading a record found on a list leaves in the handle of p.
Reads(p, d, v) ==
    /\ d \in Nat /\ v \in Nat
    /\ \/ db' = [db EXCEPT ![p].datoff = d, ![p].ptrval = v]
       \/ \E e \in Nat : db' = [db EXCEPT ![p].datoff = d, ![p].ptrval = v, ![p].pos = e]

LEMMA RecordRead ==
    ASSUME FileInv, NEW p \in Procs, NEW d, NEW v, Reads(p, d, v)
    PROVE  /\ db'[p].ptrval = v /\ db'[p].off = db[p].off
           /\ db'[p].ptroff = db[p].ptroff /\ db'[p].next = db[p].next
<1>1. db \in [Procs -> DBs]
    BY DEF FileInv, FileTypes
<1>2. CASE db' = [db EXCEPT ![p].datoff = d, ![p].ptrval = v]
    BY <1>1, <1>2, ZenonT(60) DEF DBs
<1>3. ASSUME NEW e \in Nat, db' = [db EXCEPT ![p].datoff = d, ![p].ptrval = v, ![p].pos = e]
      PROVE  /\ db'[p].ptrval = v /\ db'[p].off = db[p].off
             /\ db'[p].ptroff = db[p].ptroff /\ db'[p].next = db[p].next
    BY <1>1, <1>3, ZenonT(60) DEF DBs
<1> QED BY <1>2, <1>3 DEF Reads

(***************************************************************************)
(* Looking for a key on a chain.                                            *)
(***************************************************************************)
LEMMA SearchSteps ==
    ASSUME LockInv, LockInv', FileInv, FileInv', NEW p \in Procs,
           NEW n, NEW w, Lists(n, w),
           FindAndLock(p) \/ FindNext(p)
    PROVE  Lists(n, w)'
<1>1. StandStill(p)
    BY OneAtATime DEF Step
<1>2. /\ table' = table /\ idx' = idx /\ req' = req
      /\ pc[p] \in {"find", "scan"} /\ pc'[p] = "scan"
    BY DEF FindAndLock, FindNext, Goto, LockInv
<1>3. pc[p] \notin Ended /\ ~Deleting(p) /\ ~Deleting(p)' /\ InHand(p) = {} /\ InHand(p)' = {}
    BY <1>2 DEF Ended, Deleting, InHand
<1>4. db \in [Procs -> DBs] /\ db[p] \in DBs
    BY DEF FileInv, FileTypes
<1>5. Op(p)' = Op(p) /\ Chain(p)' = Chain(p)
    BY <1>2 DEF Op, Chain
<1>6. /\ Chain(p) \in Chains /\ Chain(p) \in Heads
      /\ \A q \in Procs : Deleting(q) => Chain(q) # Chain(p)
    <2>1. Chain(p) \in Chains /\ Chain(p) \in Heads
        BY <1>2, MyChain DEF KeyedCall, Heads
    <2>2. ASSUME NEW q \in Procs, Deleting(q)
          PROVE  Chain(q) # Chain(p)
        <3>1. /\ q # p /\ pc'[q] = pc[q] /\ Chain(q)' = Chain(q)
              /\ Op(q)' = Op(q) /\ Op(q) # "fetch"
            BY <1>1, <1>3, <2>2 DEF StandStill, Chain, Op, LockInv, Matched, Deleting,
               DeleteOrStore
        <3>2. CriticalSections'
            BY CriticalSectionsHeld, PTL
        <3>3. OnChain(p, Chain(p))'
            BY <1>2, <1>5 DEF OnChain, KeyedCall
        <3>4. ~OnChain(q, Chain(p))'
            BY <1>5, <2>1, <3>1, <3>2, <3>3 DEF CriticalSections
        <3> QED BY <1>5, <2>2, <3>1, <3>4 DEF OnChain, Deleting, KeyedCall
    <2> QED BY <2>1, <2>2
<1>7. Scans(p, n, w)'
    <2> SUFFICES \E j \in 1..(n[Chain(p)] + 1) :
                     /\ Stands(p, n, w, Chain(p), j)'
                     /\ \A k \in 1..(j - 1) :
                           idx[w[Chain(p)][k]].key # req[p].key
        BY <1>2, <1>5 DEF Scans, Stands
    <2>1. /\ n[Chain(p)] \in Nat
          /\ w[Chain(p)][0] = Chain(p)
          /\ table[Chain(p)] = After(n, w, Chain(p), 0)
          /\ \A k \in 1..n[Chain(p)] : /\ idx[w[Chain(p)][k]].ptr = After(n, w, Chain(p), k)
                                       /\ w[Chain(p)][k] \in Nat \ {0}
          /\ \A k \in 0..n[Chain(p)] : After(n, w, Chain(p), k) \in Nat
          /\ After(n, w, Chain(p), n[Chain(p)]) = 0
        BY <1>6, ListFacts, ChainPtrsOf DEF After
    <2>2. CASE FindAndLock(p)
        <3>1. db'[p].off = table[Chain(p)] /\ db'[p].ptroff = Chain(p)
            <4>1. ReadPtr(Chain(p)) = table[Chain(p)] /\ Chain(p) \in Heads \cup Nat
                BY <1>6 DEF ReadPtr
            <4>2. table[Chain(p)] \in Nat /\ 0 \in Nat
                BY <2>1
            <4>3. db' = [db EXCEPT ![p].ptroff = Chain(p), ![p].off = table[Chain(p)],
                                   ![p].pos = 0]
                BY <2>2, <4>1 DEF FindAndLock, PosAfterPtr, AstrayPos
            <4> QED BY <1>4, <4>1, <4>2, <4>3, SetWalk
        <3>2. Stands(p, n, w, Chain(p), 1)'
            BY <1>5, <2>1, <3>1 DEF Stands, After
        <3> QED BY <2>1, <3>2
    <2>3. CASE FindNext(p)
        <3>1. /\ pc[p] = "scan" /\ db[p].off # 0
              /\ idx[db[p].off].key # req[p].key
              /\ db' = [db EXCEPT ![p].ptroff = db[p].off, ![p].off = idx[db[p].off].ptr,
                                  ![p].pos = db[p].off + 1]
            BY <2>3 DEF FindNext, PosAfter
        <3>2. PICK j \in 1..(n[Chain(p)] + 1) :
                  /\ Stands(p, n, w, Chain(p), j)
                  /\ \A k \in 1..(j - 1) : idx[w[Chain(p)][k]].key # req[p].key
            BY <3>1 DEF Lists, Place, Scans
        <3>3. j \in 1..n[Chain(p)] /\ db[p].off = w[Chain(p)][j]
            BY <2>1, <3>1, <3>2 DEF Stands, After
        <3>4. /\ db[p].off \in Nat /\ db[p].off + 1 \in Nat
              /\ idx[db[p].off].ptr = After(n, w, Chain(p), j)
              /\ idx[db[p].off].ptr \in Nat
            BY <2>1, <3>3
        <3>5. db'[p].ptroff = w[Chain(p)][j] /\ db'[p].off = After(n, w, Chain(p), j)
            <4>1. db'[p].off = idx[db[p].off].ptr /\ db'[p].ptroff = db[p].off
                <5> DEFINE i == db[p].off
                           o == idx[i].ptr
                <5>1. /\ i \in Heads \cup Nat /\ o \in Nat /\ i + 1 \in Nat
                      /\ db' = [db EXCEPT ![p].ptroff = i, ![p].off = o, ![p].pos = i + 1]
                    BY <3>1, <3>4
                <5> HIDE DEF i, o
                <5>2. db'[p].off = o /\ db'[p].ptroff = i
                    BY <1>4, <5>1, SetWalk
                <5> QED BY <5>2 DEF i, o
            <4> QED BY <3>3, <3>4, <4>1
        <3>6. Stands(p, n, w, Chain(p), j + 1)'
            BY <1>5, <2>1, <3>3, <3>5 DEF Stands, After
        <3>7. \A k \in 1..((j + 1) - 1) : k \in 1..(j - 1) \/ k = j
            BY <3>3
        <3>8. j + 1 \in 1..(n[Chain(p)] + 1)
            BY <2>1, <3>3
        <3> QED BY <3>1, <3>2, <3>3, <3>6, <3>7, <3>8
    <2> QED BY <2>2, <2>3
<1>8. Place(p, n, w)'
    BY <1>2, <1>7 DEF Place, Deletes, Frees, Inserts, FindsFree, Deleting, DeleteOrStore,
       Missing, HeadRead
<1> QED BY <1>1, <1>2, <1>3, <1>8, Steady

\* The record with the key is found, or the end of the chain.
LEMMA FoundStep ==
    ASSUME LockInv, LockInv', FileInv, FileInv', NEW p \in Procs,
           NEW n, NEW w, Lists(n, w), Found(p)
    PROVE  Lists(n, w)'
<1>1. StandStill(p)
    BY OneAtATime DEF Step
<1>2. PICK label \in {"f_dat", "d_lock", "unlock", "overwrite"} :
          /\ pc[p] = "scan" /\ db[p].off # 0
          /\ pc' = [pc EXCEPT ![p] = label]
          /\ label = "d_lock" => Op(p) # "fetch"
          /\ idx[db[p].off].key = req[p].key
          /\ db' = [db EXCEPT ![p].datoff = idx[db[p].off].datoff,
                              ![p].ptrval = idx[db[p].off].ptr,
                              ![p].pos = db[p].off + 1]
          /\ table' = table /\ idx' = idx /\ req' = req
    BY DEF Found, PosAfter, Goto, IsStore
<1>3. pc'[p] = label
    BY <1>2 DEF LockInv
<1>4. pc[p] \notin Ended /\ ~Deleting(p) /\ ~Deleting(p)' /\ InHand(p) = {} /\ InHand(p)' = {}
    BY <1>2, <1>3 DEF Ended, Deleting, InHand
<1>5. CASE label # "d_lock"
    <2>1. Place(p, n, w)'
        BY <1>3, <1>5, PlaceElsewhere DEF DeleteOrStore, Missing
    <2> QED BY <1>1, <1>2, <1>4, <2>1, Steady
<1>6. CASE label = "d_lock"
    <2>1. /\ Chain(p) \in Chains /\ Chain(p) \in Heads
          /\ \A q \in Procs : Deleting(q) => Chain(q) # Chain(p)
        BY <1>2, <1>4, <1>6, AloneOnChain DEF KeyedCall
    <2>2. /\ n[Chain(p)] \in Nat
          /\ \A k \in 1..n[Chain(p)] : /\ idx[w[Chain(p)][k]].ptr = After(n, w, Chain(p), k)
                                       /\ w[Chain(p)][k] \in Listed(n, w, Chain(p))
                                       /\ k \in 0..n[Chain(p)]
          /\ \A k \in 0..n[Chain(p)] : After(n, w, Chain(p), k) \in Nat
          /\ \A j, k \in 0..n[Chain(p)] :
                w[Chain(p)][j] = w[Chain(p)][k] => j = k
        BY <2>1, ListFacts, ChainPtrsOf
    <2>3. PICK j \in 1..(n[Chain(p)] + 1) : Stands(p, n, w, Chain(p), j)
        BY <1>2, <1>6 DEF Lists, Place, Scans
    <2>4. j \in 1..n[Chain(p)] /\ db[p].off = w[Chain(p)][j]
        BY <1>2, <2>2, <2>3 DEF Stands, After
    <2>5. /\ idx[db[p].off].ptr = After(n, w, Chain(p), j)
          /\ db'[p].off = db[p].off /\ db'[p].ptroff = db[p].ptroff
          /\ db'[p].ptrval = idx[db[p].off].ptr
        <3>1. idx[db[p].off].ptr = After(n, w, Chain(p), j)
            BY <2>2, <2>4
        <3> DEFINE i == db[p].off
                   d == idx[i].datoff
                   v == idx[i].ptr
                   e == i + 1
        <3>2. v \in Nat
            BY <2>2, <2>4, <3>1
        <3>3. d \in Nat
            <4>1. i \in DOMAIN idx
                BY <2>1, <2>4, ListFacts
            <4> QED BY <4>1, SeqFacts DEF FileInv, IndexRecords
        <3>4. i \in Nat /\ db \in [Procs -> DBs]
            BY DEF FileInv, FileTypes, DBs
        <3>5. db' = [db EXCEPT ![p].datoff = d, ![p].ptrval = v, ![p].pos = e]
            BY <1>2
        <3>6. e \in Nat
            BY <3>4
        <3>7. Reads(p, d, v)
            BY <3>2, <3>3, <3>5, <3>6 DEF Reads
        <3>8. db'[p].ptrval = v /\ db'[p].off = db[p].off /\ db'[p].ptroff = db[p].ptroff
            BY <3>7, RecordRead
        <3> QED BY <3>1, <3>8
    <2>6. Op(p)' = Op(p) /\ Chain(p)' = Chain(p)
        BY <1>2 DEF Op, Chain
    <2>7. StandsAt(p, n, w, Chain(p), j)'
        BY <2>3, <2>4, <2>5, <2>6 DEF StandsAt, Stands, After
    <2>8. ASSUME NEW k \in 1..n[Chain(p)], k # j
          PROVE  idx[w[Chain(p)][k]].key # req[p].key
        <3>1. w[Chain(p)][k] # w[Chain(p)][j]
            BY <2>2, <2>4, <2>8
        <3>2. w[Chain(p)][k] \in Listed(n, w, Chain(p)) /\ w[Chain(p)][j] \in Listed(n, w, Chain(p))
            BY <2>2, <2>4
        <3> QED BY <1>2, <2>1, <2>4, <3>1, <3>2 DEF Lists, Keyed
    <2>9. Deletes(p, n, w)'
        <3> SUFFICES \E i \in 1..n[Chain(p)] :
                         /\ StandsAt(p, n, w, Chain(p), i)'
                         /\ \A k \in 1..n[Chain(p)] :
                               k # i => idx[w[Chain(p)][k]].key # req[p].key
            BY <1>2, <2>6 DEF Deletes, StandsAt
        <3> QED BY <2>4, <2>7, <2>8
    <2>10. Place(p, n, w)'
        BY <1>3, <1>6, <2>9 DEF Place, Scans, Frees, Inserts, FindsFree, Deleting,
           Missing, HeadRead
    <2> QED BY <1>1, <1>2, <1>4, <2>10, Steady
<1> QED BY <1>5, <1>6

LEMMA NotFoundStep ==
    ASSUME LockInv, LockInv', FileInv, NEW p \in Procs,
           NEW n, NEW w, Lists(n, w), NotFound(p)
    PROVE  Lists(n, w)'
<1>1. StandStill(p)
    BY OneAtATime DEF Step
<1>2. PICK label \in {"unlock", "i_head"} :
          /\ pc[p] = "scan" /\ db[p].off = 0
          /\ pc' = [pc EXCEPT ![p] = label]
          /\ label = "i_head" => Op(p) # "fetch"
          /\ table' = table /\ idx' = idx /\ req' = req
    BY DEF NotFound, Goto, IsStore
<1>3. pc'[p] = label
    BY <1>2 DEF LockInv
<1>4. pc[p] \notin Ended /\ ~Deleting(p) /\ ~Deleting(p)' /\ InHand(p) = {} /\ InHand(p)' = {}
    BY <1>2, <1>3 DEF Ended, Deleting, InHand
<1>5. CASE label = "unlock"
    <2>1. Place(p, n, w)'
        BY <1>3, <1>5, PlaceElsewhere DEF DeleteOrStore, Missing
    <2> QED BY <1>1, <1>2, <1>4, <2>1, Steady
<1>6. CASE label = "i_head"
    <2>1. Chain(p) \in Heads
        BY <1>2, <1>6, AloneOnChain DEF KeyedCall
    <2>2. PICK j \in 1..(n[Chain(p)] + 1) :
              /\ Stands(p, n, w, Chain(p), j)
              /\ \A k \in 1..(j - 1) : idx[w[Chain(p)][k]].key # req[p].key
        BY <1>2, <1>6 DEF Lists, Place, Scans
    <2>3. n[Chain(p)] \in Nat /\ j = n[Chain(p)] + 1
        <3>1. /\ n[Chain(p)] \in Nat
              /\ \A k \in 0..n[Chain(p)] : After(n, w, Chain(p), k) = 0 <=> k = n[Chain(p)]
            BY <2>1, ListFacts
        <3>2. j - 1 \in 0..n[Chain(p)] /\ After(n, w, Chain(p), j - 1) = 0
            BY <1>2, <2>2, <3>1 DEF Stands
        <3> QED BY <3>1, <3>2
    <2>4. \A k \in 1..n[Chain(p)] : idx[w[Chain(p)][k]].key # req[p].key
        BY <2>2, <2>3
    <2>5. Chain(p)' = Chain(p)
        BY <1>2 DEF Chain
    <2>6. Inserts(p, n, w)'
        BY <1>2, <1>3, <1>6, <2>4, <2>5 DEF Inserts, Listed, Members, HeadRead
    <2>7. Place(p, n, w)'
        BY <1>3, <1>6, <2>6 DEF Place, Scans, Deletes, DeleteOrStore, Frees, FindsFree,
           Deleting
    <2> QED BY <1>1, <1>2, <1>4, <2>7, Steady
<1> QED BY <1>5, <1>6

\* _db_dodelete locks the free list and blanks the data record.
LEMMA DeleteDataStep ==
    ASSUME LockInv, LockInv', FileInv, NEW p \in Procs,
           NEW n, NEW w, Lists(n, w), DeleteData(p)
    PROVE  Lists(n, w)'
<1>1. StandStill(p)
    BY OneAtATime DEF Step
<1>2. /\ pc[p] = "d_lock" /\ pc'[p] = "d_idx"
      /\ table' = table /\ idx' = idx /\ req' = req /\ db' = db
    BY DEF DeleteData, Goto, LockInv
<1>3. pc[p] \notin Ended /\ ~Deleting(p) /\ ~Deleting(p)' /\ InHand(p) = {} /\ InHand(p)' = {}
    BY <1>2 DEF Ended, Deleting, InHand
<1>4. Deletes(p, n, w)
    BY DEF Lists, Place
<1>5. Chain(p)' = Chain(p)
    BY <1>2 DEF Chain
<1>6. Deletes(p, n, w)'
    BY <1>2, <1>4, <1>5 DEF Deletes, DeleteOrStore, StandsAt, After
<1>7. Place(p, n, w)'
    BY <1>2, <1>6 DEF Place, Scans, Frees, Inserts, FindsFree, Deleting, Missing, HeadRead
<1> QED BY <1>1, <1>2, <1>3, <1>7, Steady

(***************************************************************************)
(* Looking for a free record, and the seeks and data writes of an append.   *)
(***************************************************************************)
LEMMA StillInserts ==
    ASSUME NEW p \in Procs, NEW n, NEW w, Inserts(p, n, w),
           pc[p] \in Missing, pc'[p] \in Missing \ {"link"},
           table' = table, idx' = idx, req' = req,
           pc'[p] \in HeadRead => db'[p].next = table[Chain(p)],
           FindsFree(p, n, w)'
    PROVE  Place(p, n, w)'
<1>1. Chain(p)' = Chain(p) /\ Listed(n, w, Chain(p))' = Listed(n, w, Chain(p))
    BY DEF Chain, Listed
<1>2. Inserts(p, n, w)'
    BY <1>1 DEF Inserts
<1>3. pc'[p] \notin {"scan", "d_free", "d_unlink"} \cup DeleteOrStore
    BY DEF Missing, DeleteOrStore
<1> QED BY <1>2, <1>3 DEF Place, Scans, Deletes, Frees, Deleting

LEMMA PrepareSteps ==
    ASSUME LockInv, LockInv', FileInv, FileInv', NEW p \in Procs,
           NEW n, NEW w, Lists(n, w),
           \/ ReadChainHead(p) \/ ReuseData(p)
           \/ AppendSeekData(p) \/ AppendData(p) \/ AppendSeekIndex(p)
    PROVE  Lists(n, w)'
<1>1. StandStill(p)
    BY OneAtATime DEF Step
<1>2. /\ db \in [Procs -> DBs] /\ db[p] \in DBs
      /\ pc \in [Procs -> {"idle"} \cup InCall \cup Ended]
      /\ Len(idx) \in Nat /\ Len(dat) \in Nat
    BY SeqFacts DEF FileInv, FileTypes, LockInv
<1>3. Inserts(p, n, w)
    BY DEF Lists, Place
<1>4. CASE ReadChainHead(p)
    <2>1. /\ pc[p] \in {"i_head", "r_head"} /\ pc'[p] \in {"ff_lock", "a_dat"}
          /\ table' = table /\ idx' = idx /\ req' = req
          /\ db' = [db EXCEPT ![p].next = table[Chain(p)]]
        BY <1>2, <1>4 DEF ReadChainHead, Goto
    <2>2. db'[p].next = table[Chain(p)]
        <3>1. Chain(p) \in Heads
            BY <2>1, MyChain DEF KeyedCall, Heads
        <3>2. table[Chain(p)] \in Nat
            BY <3>1 DEF FileInv, FileTypes
        <3> QED BY <1>2, <2>1, <3>2, SetChainHead
    <2>3. Place(p, n, w)'
        BY <1>3, <2>1, <2>2, StillInserts DEF Missing, FindsFree
    <2>4. pc[p] \notin Ended /\ ~Deleting(p) /\ ~Deleting(p)' /\ InHand(p) = {} /\ InHand(p)' = {}
        BY <2>1 DEF Ended, Deleting, InHand
    <2> QED BY <1>1, <2>1, <2>3, <2>4, Steady
<1>5. CASE ReuseData(p)
    <2>1. /\ pc[p] = "u_dat" /\ pc'[p] = "u_idx" /\ db' = db
          /\ table' = table /\ idx' = idx /\ req' = req
        BY <1>2, <1>5 DEF ReuseData, Goto
    <2>2. Place(p, n, w)'
        BY <1>3, <2>1, StillInserts DEF Missing, HeadRead, FindsFree, Inserts
    <2>3. pc[p] \notin Ended /\ ~Deleting(p) /\ ~Deleting(p)' /\ InHand(p)' = InHand(p)
        BY <2>1 DEF Ended, Deleting, InHand
    <2> QED BY <1>1, <2>1, <2>2, <2>3, Steady
<1>6. CASE AppendSeekData(p) \/ AppendData(p) \/ AppendSeekIndex(p)
    <2>1. /\ pc[p] \in {"a_dat", "a_dat_write", "a_idx"}
          /\ pc'[p] \in {"a_dat_write", "a_idx", "a_idx_write"}
          /\ table' = table /\ idx' = idx /\ req' = req
        BY <1>2, <1>6 DEF AppendSeekData, AppendData, AppendSeekIndex, Goto
    <2>2. db'[p].next = db[p].next
        <3>1. CASE AppendSeekData(p)
            BY <1>2, <3>1, SetDatOff DEF AppendSeekData
        <3>2. CASE AppendData(p)
            BY <3>2 DEF AppendData
        <3>3. CASE AppendSeekIndex(p)
            BY <1>2, <3>3, SetOff DEF AppendSeekIndex
        <3> QED BY <1>6, <3>1, <3>2, <3>3
    <2>3. Place(p, n, w)'
        BY <1>3, <2>1, <2>2, StillInserts DEF Missing, HeadRead, FindsFree, Inserts
    <2>4. pc[p] \notin Ended /\ ~Deleting(p) /\ ~Deleting(p)' /\ InHand(p) = {} /\ InHand(p)' = {}
        BY <2>1 DEF Ended, Deleting, InHand
    <2> QED BY <1>1, <2>1, <2>3, <2>4, Steady
<1> QED BY <1>4, <1>5, <1>6

LEMMA FreeScanSteps ==
    ASSUME LockInv, LockInv', FileInv, FileInv', NEW p \in Procs,
           NEW n, NEW w, Lists(n, w),
           FreeLock(p) \/ FreeNext(p) \/ FreeFound(p) \/ FreeNone(p)
    PROVE  Lists(n, w)'
<1>1. StandStill(p)
    BY OneAtATime DEF Step
<1>2. /\ db \in [Procs -> DBs] /\ db[p] \in DBs
      /\ pc \in [Procs -> {"idle"} \cup InCall \cup Ended]
    BY DEF FileInv, FileTypes, LockInv
<1>3. Inserts(p, n, w) /\ FindsFree(p, n, w)
    BY DEF Lists, Place
<1>4. /\ pc[p] \in {"ff_lock", "ff_scan"} /\ pc'[p] \in {"ff_scan", "ff_take", "a_dat"}
      /\ table' = table /\ idx' = idx /\ req' = req
    BY <1>2 DEF FreeLock, FreeNext, FreeFound, FreeNone, Goto
<1>5. pc[p] \notin Ended /\ ~Deleting(p) /\ ~Deleting(p)' /\ InHand(p) = {} /\ InHand(p)' = {}
    BY <1>4 DEF Ended, Deleting, InHand
<1>6. /\ FREE_OFF \in Heads /\ n[FREE_OFF] \in Nat /\ w[FREE_OFF][0] = FREE_OFF
      /\ table[FREE_OFF] = After(n, w, FREE_OFF, 0)
      /\ \A k \in 0..n[FREE_OFF] : After(n, w, FREE_OFF, k) \in Nat
      /\ \A k \in 1..n[FREE_OFF] :
            /\ w[FREE_OFF][k] \in DOMAIN idx
            /\ w[FREE_OFF][k] \in Nat
            /\ idx[w[FREE_OFF][k]].ptr = After(n, w, FREE_OFF, k)
    BY ListFacts, FreeListPtrs DEF Heads
<1>7. CASE FreeLock(p)
    <2>1. pc'[p] = "ff_scan"
        BY <1>2, <1>7 DEF FreeLock, Goto
    <2>2. /\ db'[p].ptroff = FREE_OFF /\ db'[p].off = table[FREE_OFF]
          /\ db'[p].next = db[p].next
        <3>1. table[FREE_OFF] \in Nat /\ FREE_OFF \in Heads \cup Nat
            BY <1>6
        <3> QED BY <1>2, <1>7, <3>1, SetFreeWalk DEF FreeLock
    <2>3. Stands(p, n, w, FREE_OFF, 1)' /\ 1 \in 1..(n[FREE_OFF] + 1)
        BY <1>6, <2>2 DEF Stands, After
    <2>4. FindsFree(p, n, w)'
        BY <2>1, <2>3 DEF FindsFree
    <2>5. Place(p, n, w)'
        BY <1>3, <1>4, <2>1, <2>2, <2>4, StillInserts DEF Missing, HeadRead, Inserts
    <2> QED BY <1>1, <1>4, <1>5, <2>5, Steady
<1>8. ASSUME pc[p] = "ff_scan", db[p].off # 0
      PROVE  \E j \in 1..n[FREE_OFF] :
                 /\ Stands(p, n, w, FREE_OFF, j)
                 /\ db[p].off = w[FREE_OFF][j]
                 /\ idx[db[p].off].ptr = After(n, w, FREE_OFF, j)
                 /\ db[p].off \in Nat /\ db[p].off \in DOMAIN idx
                 /\ idx[db[p].off].ptr \in Nat
    <2>1. PICK j \in 1..(n[FREE_OFF] + 1) : Stands(p, n, w, FREE_OFF, j)
        BY <1>3, <1>8 DEF FindsFree
    <2>2. j \in 1..n[FREE_OFF] /\ db[p].off = w[FREE_OFF][j]
        BY <1>6, <1>8, <2>1 DEF Stands, After
    <2> QED BY <1>6, <2>1, <2>2
<1>9. CASE FreeNext(p)
    <2>1. /\ pc[p] = "ff_scan" /\ pc' = pc /\ db[p].off # 0
          /\ db' = [db EXCEPT ![p].ptroff = db[p].off, ![p].off = idx[db[p].off].ptr]
        BY <1>9 DEF FreeNext
    <2>2. PICK j \in 1..n[FREE_OFF] :
              /\ db[p].off = w[FREE_OFF][j]
              /\ idx[db[p].off].ptr = After(n, w, FREE_OFF, j)
              /\ db[p].off \in Nat /\ idx[db[p].off].ptr \in Nat
        BY <1>8, <2>1
    <2>3. /\ db'[p].ptroff = db[p].off /\ db'[p].off = idx[db[p].off].ptr
          /\ db'[p].next = db[p].next
        <3> DEFINE i == db[p].off
                   o == idx[i].ptr
        <3>1. /\ i \in Heads \cup Nat /\ o \in Nat
              /\ db' = [db EXCEPT ![p].ptroff = i, ![p].off = o]
            BY <2>1, <2>2
        <3> HIDE DEF i, o
        <3>2. db'[p].ptroff = i /\ db'[p].off = o /\ db'[p].next = db[p].next
            BY <1>2, <3>1, SetFreeWalk
        <3> QED BY <3>2 DEF i, o
    <2>4. Stands(p, n, w, FREE_OFF, j + 1)' /\ j + 1 \in 1..(n[FREE_OFF] + 1)
        BY <1>6, <2>2, <2>3 DEF Stands, After
    <2>5. FindsFree(p, n, w)'
        BY <2>1, <2>4 DEF FindsFree
    <2>6. Place(p, n, w)'
        BY <1>3, <1>4, <2>1, <2>3, <2>5, StillInserts DEF Missing, HeadRead, Inserts
    <2> QED BY <1>1, <1>4, <1>5, <2>6, Steady
<1>10. CASE FreeFound(p)
    <2>1. /\ pc[p] = "ff_scan" /\ pc'[p] = "ff_take" /\ db[p].off # 0
          /\ db' = [db EXCEPT ![p].datoff = idx[db[p].off].datoff,
                              ![p].ptrval = idx[db[p].off].ptr]
        BY <1>2, <1>10 DEF FreeFound, Goto
    <2>2. PICK j \in 1..n[FREE_OFF] :
              /\ Stands(p, n, w, FREE_OFF, j)
              /\ db[p].off = w[FREE_OFF][j]
              /\ idx[db[p].off].ptr = After(n, w, FREE_OFF, j)
              /\ db[p].off \in DOMAIN idx /\ idx[db[p].off].ptr \in Nat
        BY <1>8, <2>1
    <2>3. /\ db'[p].ptrval = idx[db[p].off].ptr
          /\ db'[p].off = db[p].off /\ db'[p].ptroff = db[p].ptroff
          /\ db'[p].next = db[p].next
        <3> DEFINE d == idx[db[p].off].datoff
                   v == idx[db[p].off].ptr
        <3>1. d \in Nat
            BY <2>2, SeqFacts DEF FileInv, IndexRecords
        <3>2. v \in Nat /\ db' = [db EXCEPT ![p].datoff = d, ![p].ptrval = v]
            BY <2>1, <2>2
        <3>3. Reads(p, d, v)
            BY <3>1, <3>2 DEF Reads
        <3> QED BY <3>3, RecordRead
    <2>4. StandsAt(p, n, w, FREE_OFF, j)'
        BY <2>2, <2>3 DEF StandsAt, Stands, After
    <2>5. FindsFree(p, n, w)'
        BY <2>1, <2>4 DEF FindsFree
    <2>6. Place(p, n, w)'
        BY <1>3, <1>4, <2>1, <2>3, <2>5, StillInserts DEF Missing, HeadRead, Inserts
    <2> QED BY <1>1, <1>4, <1>5, <2>6, Steady
<1>11. CASE FreeNone(p)
    <2>1. pc[p] = "ff_scan" /\ pc'[p] = "a_dat" /\ db' = db
        BY <1>2, <1>11 DEF FreeNone, Goto
    <2>2. Place(p, n, w)'
        BY <1>3, <1>4, <2>1, StillInserts DEF Missing, HeadRead, FindsFree, Inserts
    <2> QED BY <1>1, <1>4, <1>5, <2>2, Steady
<1> QED BY <1>7, <1>9, <1>10, <1>11

(***************************************************************************)
(* Steps that change pointers or keys.                                      *)
(***************************************************************************)
LEMMA StillWalks ==
    ASSUME FileInv, NEW n, NEW w, Lists(n, w), NEW h \in Heads,
           DOMAIN idx \subseteq DOMAIN idx',
           h \in Chains => \A k \in 0..n[h] : ChainPtr(w[h][k])' = ChainPtr(w[h][k]),
           h = FREE_OFF => \A k \in 0..n[h] : ReadPtr(w[h][k])' = ReadPtr(w[h][k])
    PROVE  Walk(Links(h), h, n[h], w[h])'
<1> DEFINE P == Links(h)
           Q == Links(h)'
<1>1. Walk(P, h, n[h], w[h])
    BY DEF Lists
<1>2. DOMAIN P = Places /\ DOMAIN Q = Places' /\ Places \subseteq Places'
    BY DEF Links, ChainPtrs, FreePtrs, Places
<1>3. ASSUME NEW k \in 0..n[h]
      PROVE  Q[w[h][k]] = P[w[h][k]]
    <2>1. w[h][k] \in Places /\ w[h][k] \in Places'
        BY <1>2, ListFacts
    <2>2. CASE h \in Chains
        <3>1. P[w[h][k]] = ChainPtr(w[h][k]) /\ Q[w[h][k]] = ChainPtr(w[h][k])'
            BY <2>1, <2>2 DEF Links, ChainPtrs
        <3> QED BY <2>2, <3>1
    <2>3. CASE h \notin Chains
        <3>1. P[w[h][k]] = ReadPtr(w[h][k]) /\ Q[w[h][k]] = ReadPtr(w[h][k])'
            BY <2>1, <2>3 DEF Links, FreePtrs
        <3> QED BY <2>3, <3>1 DEF Heads
    <2> QED BY <2>2, <2>3
<1> HIDE DEF P, Q
<1>4. Walk(Q, h, n[h], w[h])
    BY <1>1, <1>2, <1>3, WalkKept
<1> QED BY <1>4 DEF Walk, Q

\* One process at a time works on the free list.
LEMMA AloneOnFreeList ==
    ASSUME LockInv, NEW p \in Procs, OnFreeList(p)
    PROVE  /\ \A q \in Procs : q # p => ~Deleting(q) /\ pc[q] # "d_unlink"
           /\ BeingDeleted = IF Deleting(p) THEN {db[p].off} ELSE {}
           /\ Unlinking = IF pc[p] = "d_unlink" THEN {db[p].off} ELSE {}
<1>1. \A q \in Procs : q # p => ~Deleting(q) /\ pc[q] # "d_unlink"
    BY CriticalSectionsHeld DEF CriticalSections, OnFreeList, Deleting
<1> QED BY <1>1 DEF BeingDeleted, Unlinking, Deleting

\* The record is rewritten with a blank key and a free list pointer: its chain
\* now runs on through the saved pointer.
LEMMA DeleteIndexStep ==
    ASSUME LockInv, LockInv', FileInv, FileInv', NEW p \in Procs,
           NEW n, NEW w, Lists(n, w), DeleteIndex(p)
    PROVE  Lists(n, w)'
<1> DEFINE c == Chain(p)
           i == db[p].off
<1>1. StandStill(p)
    BY OneAtATime DEF Step
<1>2. /\ pc[p] = "d_idx" /\ pc'[p] = "d_free"
      /\ idx' = [idx EXCEPT ![i].key = Blank, ![i].ptr = table[FREE_OFF]]
      /\ table' = table /\ req' = req /\ db' = db
    BY DEF DeleteIndex, Goto, LockInv
<1>3. OnFreeList(p) /\ ~Deleting(p) /\ Deleting(p)' /\ OnFreeList(p)'
    BY <1>2 DEF OnFreeList, Deleting
<1>4. BeingDeleted = {} /\ Unlinking = {} /\ BeingDeleted' = {i} /\ Unlinking' = {}
    <2>1. BeingDeleted = {} /\ Unlinking = {}
        BY <1>2, <1>3, AloneOnFreeList
    <2>2. \A q \in Procs : q # p => ~Deleting(q) /\ ~Deleting(q)' /\ pc'[q] # "d_unlink"
        BY <1>1, <1>3, AloneOnFreeList DEF StandStill, Deleting
    <2>3. BeingDeleted' = {i}
        BY <1>2, <1>3, <2>2 DEF BeingDeleted
    <2>4. Unlinking' = {}
        BY <1>2, <2>2 DEF Unlinking
    <2> QED BY <2>1, <2>3, <2>4
<1>5. /\ c \in Chains /\ c \in Heads /\ c # FREE_OFF /\ i \in Listed(n, w, c)
      /\ Chain(p)' = c
    BY <1>2, DeletedListed, DbAssumption DEF DeleteOrStore, Chain
<1>6. PICK j \in 1..n[c] :
          /\ StandsAt(p, n, w, c, j)
          /\ \A k \in 1..n[c] : k # j => idx[w[c][k]].key # req[p].key
    BY <1>2 DEF Lists, Place, Deletes, DeleteOrStore
<1>7. i \in DOMAIN idx /\ i \notin Heads /\ i = w[c][j]
    BY <1>5, <1>6, ListFacts DEF StandsAt
<1> HIDE DEF i, c
<1>8. /\ DOMAIN idx' = DOMAIN idx
      /\ \A k \in DOMAIN idx : k # i => idx'[k] = idx[k]
      /\ idx'[i].key = Blank /\ idx'[i].ptr = table[FREE_OFF]
    <2>1. idx[i] \in IndexRecords
        BY <1>7, SeqFacts DEF FileInv
    <2> QED BY <1>2, <1>7, <2>1 DEF IndexRecords
<1>9. \A h \in Heads : h # c => i \notin Listed(n, w, h)
    BY <1>4, <1>5 DEF Lists, Apart
<1>10. ASSUME NEW loc \in Places
       PROVE  /\ loc # i => ReadPtr(loc)' = ReadPtr(loc)
              /\ ChainPtr(loc)' = ChainPtr(loc)
    <2>1. loc # i => ReadPtr(loc)' = ReadPtr(loc)
        BY <1>2, <1>8 DEF ReadPtr, Places
    <2>2. ChainPtr(loc) = ReadPtr(loc)
        BY <1>4 DEF ChainPtr
    <2>3. ChainPtr(loc)' = IF loc = i THEN db[p].ptrval ELSE ReadPtr(loc)'
        BY <1>2, <1>3, SoundPtrs DEF PtrsKnown, i
    <2>4. ReadPtr(i) = db[p].ptrval
        <3>1. \A q \in Procs : Deleting(q) => Chain(q) # c
            BY <1>3, AloneOnFreeList
        <3>2. idx[w[c][j]].ptr = After(n, w, c, j)
            BY <1>5, <1>6, <3>1, ChainPtrsOf
        <3> QED BY <1>6, <1>7, <3>2 DEF ReadPtr, StandsAt
    <2> QED BY <2>1, <2>2, <2>3, <2>4
<1>11. \A h \in Heads : Walk(Links(h), h, n[h], w[h])'
    <2> TAKE h \in Heads
    <2>1. \A k \in 0..n[h] : w[h][k] \in Places
        BY ListFacts
    <2>2. h = FREE_OFF => \A k \in 0..n[h] : w[h][k] # i
        <3>1. n[h] \in Nat /\ w[h][0] = h /\ \A k \in 1..n[h] : w[h][k] \in Listed(n, w, h)
            BY ListFacts
        <3>2. \A k \in 0..n[h] : k = 0 \/ k \in 1..n[h]
            BY <3>1
        <3> QED BY <1>5, <1>7, <1>9, <3>1, <3>2
    <2> QED BY <1>8, <1>10, <2>1, <2>2, StillWalks
<1>12. \A h \in Heads : Listed(n, w, h)' = Listed(n, w, h) /\ Listed(n, w, h) \subseteq DOMAIN idx
    BY DEF Listed, Lists
<1>13. Keyed(n, w)'
    <2>1. Keyed(n, w)
        BY DEF Lists
    <2> SUFFICES ASSUME NEW d \in Chains
                 PROVE  /\ \A k \in Listed(n, w, d) \ {i} :
                              idx'[k].key \in Keys /\ Hash[idx'[k].key] = d
                        /\ \A k, l \in Listed(n, w, d) : idx'[k].key = idx'[l].key => k = l
        BY <1>4, <1>12 DEF Keyed, Heads
    <2>2. \A k \in Listed(n, w, d) : idx[k].key \in Keys /\ Hash[idx[k].key] = d
        BY <1>4, <2>1 DEF Keyed
    <2>3. \A k \in Listed(n, w, d) \ {i} : idx'[k] = idx[k]
        BY <1>8, <1>12 DEF Heads
    <2>4. Blank \notin Keys
        BY DbAssumption
    <2> QED BY <1>8, <2>1, <2>2, <2>3, <2>4 DEF Keyed
<1>14. FreeBlank(n, w)'
    <2>1. FREE_OFF \in Heads /\ i \notin Listed(n, w, FREE_OFF)
        BY <1>5, <1>9 DEF Heads
    <2> QED BY <1>8, <1>12, <2>1 DEF FreeBlank, Lists
<1>15. Apart(n, w)'
    BY <1>4, <1>12 DEF Lists, Apart
<1>16. /\ \A q \in Procs : InHand(q)' = InHand(q)
       /\ \A q \in Procs : i \notin InHand(q)
    <2>1. \A q \in Procs : InHand(q)' = InHand(q)
        BY <1>1, <1>2 DEF StandStill, InHand
    <2>2. \A q \in Procs : i \notin InHand(q)
        BY <1>5 DEF Lists, Hands
    <2> QED BY <2>1, <2>2
<1>17. Hands(n, w)'
    BY <1>8, <1>12, <1>16 DEF Lists, Hands
<1>18. Covered(n, w)'
    <2>1. (\A q \in Procs : pc'[q] \notin Ended) => \A q \in Procs : pc[q] \notin Ended
        BY <1>1, <1>2 DEF StandStill, Ended
    <2> QED BY <1>8, <1>12, <1>16, <2>1 DEF Lists, Covered
<1>19. KeepsToItsOwn(p, n, w, n, w)
    <2>1. \A d \in Chains : ~UpdatesChain(p, d) => d # c
        <3>1. UpdatesChain(p, c)
            <4>1. Matched(p)
                BY DEF LockInv
            <4> QED BY <1>2, <4>1 DEF UpdatesChain, OnChain, Matched, KeyedCall, DeleteOrStore, c
        <3> QED BY <3>1
    <2>2. \A d \in Chains : ~UpdatesChain(p, d) =>
              \A k \in Listed(n, w, d) : idx'[k] = idx[k]
        BY <1>8, <1>9, <1>12, <2>1 DEF Heads
    <2>3. \A q \in Procs \ {p} : pc[q] \in {"d_free", "d_unlink", "link"} =>
              idx'[db[q].off] = idx[db[q].off]
        <3>1. ASSUME NEW q \in Procs \ {p}, pc[q] \in {"d_free", "d_unlink", "link"}
              PROVE  idx'[db[q].off] = idx[db[q].off]
            <4>1. pc[q] = "link"
                BY <1>3, <3>1, AloneOnFreeList DEF Deleting
            <4>2. db[q].off \in InHand(q)
                BY <4>1 DEF InHand
            <4>3. db[q].off \in DOMAIN idx /\ db[q].off # i
                BY <1>16, <4>2 DEF Lists, Hands
            <4> QED BY <1>8, <4>3
        <3> QED BY <3>1
    <2> QED BY <1>2, <1>3, <2>2, <2>3 DEF KeepsToItsOwn
<1>20. Place(p, n, w)'
    <2>1. Deletes(p, n, w)'
        <3>1. StandsAt(p, n, w, Chain(p), j)'
            BY <1>2, <1>6 DEF StandsAt, After, Chain, c
        <3>2. ASSUME NEW k \in 1..n[c], k # j
              PROVE  idx'[w[c][k]].key # req[p].key
            <4>1. w[c][k] \in DOMAIN idx /\ w[c][k] # i
                BY <1>5, <1>6, <1>7, <3>2, ListFacts
            <4> QED BY <1>6, <1>8, <3>2, <4>1
        <3> QED BY <1>2, <1>5, <3>1, <3>2 DEF Deletes, c
    <2>2. Frees(p)'
        BY <1>2, <1>8 DEF Frees, Deleting, i
    <2> QED BY <1>2, <2>1, <2>2 DEF Place, Scans, Inserts, FindsFree, Missing, HeadRead
<1>21. n \in [Heads -> Nat]
    BY DEF Lists
<1>22. \A q \in Procs : Place(q, n, w)'
    BY <1>1, <1>19, <1>20, <1>21, OthersPlaced DEF Lists
<1> QED BY <1>8, <1>11, <1>12, <1>13, <1>14, <1>15, <1>17, <1>18, <1>21, <1>22 DEF Lists

\* A record that is on no list is written: reused or appended.
LEMMA RecordWritten ==
    ASSUME LockInv, LockInv', FileInv, FileInv', NEW p \in Procs,
           NEW n, NEW w, Lists(n, w), StandStill(p),
           pc[p] \in {"u_idx", "a_idx_write"}, pc'[p] = "link",
           table' = table, req' = req, db' = db,
           DOMAIN idx' = DOMAIN idx \cup {db[p].off},
           \A k \in DOMAIN idx : k # db[p].off => idx'[k] = idx[k],
           idx'[db[p].off].ptr = db[p].next,
           idx'[db[p].off].key = req[p].key,
           \A h \in Heads : db[p].off \notin Listed(n, w, h),
           \A q \in Procs : q # p => db[p].off \notin InHand(q),
           InHand(p) \subseteq {db[p].off}
    PROVE  Lists(n, w)'
<1> DEFINE i == db[p].off
<1>1. i \in Nat /\ i \notin Heads
    <2>1. db[p].off \in Nat
        BY DEF FileInv, FileTypes, DBs
    <2>2. db[p].off \notin Heads
        BY <2>1, DbAssumption DEF Heads
    <2> QED BY <2>1, <2>2
<1>2. /\ \A q \in Procs : Deleting(q)' <=> Deleting(q)
      /\ BeingDeleted' = BeingDeleted /\ Unlinking' = Unlinking
    <2>1. \A q \in Procs : /\ Deleting(q)' <=> Deleting(q)
                           /\ pc'[q] = "d_unlink" <=> pc[q] = "d_unlink"
        BY DEF StandStill, Deleting
    <2> QED BY <2>1 DEF BeingDeleted, Unlinking
<1>3. i \notin BeingDeleted
    <2>1. \A q \in Procs : Deleting(q) => db[q].off # i
        BY DeletedListed DEF Deleting, DeleteOrStore
    <2> QED BY <2>1 DEF BeingDeleted
<1>4. \A loc : loc # i /\ loc \in Places => ReadPtr(loc)' = ReadPtr(loc)
    BY DEF ReadPtr, Places
<1>5. ASSUME NEW loc \in Places, loc # i
      PROVE  ChainPtr(loc)' = ChainPtr(loc)
    <2>1. CASE \E q \in Procs : Deleting(q)
        <3>1. PICK q \in Procs : Deleting(q)
            BY <2>1
        <3>2. ChainPtr(loc) = IF loc = db[q].off THEN db[q].ptrval ELSE ReadPtr(loc)
            BY <3>1, PtrsAre DEF PtrsKnown
        <3>3. ChainPtr(loc)' = IF loc = db'[q].off THEN db'[q].ptrval ELSE ReadPtr(loc)'
            BY <1>2, <3>1, SoundPtrs DEF PtrsKnown
        <3> QED BY <1>4, <1>5, <3>2, <3>3
    <2>2. CASE \A q \in Procs : ~Deleting(q)
        <3>1. ChainPtr(loc) = ReadPtr(loc)
            BY <2>2, PtrsAre DEF PtrsKnown
        <3>2. ChainPtr(loc)' = ReadPtr(loc)'
            BY <1>2, <2>2, SoundPtrs DEF PtrsKnown
        <3> QED BY <1>4, <1>5, <3>1, <3>2
    <2> QED BY <2>1, <2>2
<1>6. \A h \in Heads : \A k \in 0..n[h] : w[h][k] # i /\ w[h][k] \in Places
    <2> TAKE h \in Heads
    <2>1. /\ n[h] \in Nat /\ w[h][0] = h /\ \A k \in 0..n[h] : w[h][k] \in Places
          /\ \A k \in 1..n[h] : w[h][k] \in Listed(n, w, h)
        BY ListFacts
    <2>2. \A k \in 0..n[h] : k = 0 \/ k \in 1..n[h]
        BY <2>1
    <2> QED BY <1>1, <2>1, <2>2
<1>7. \A h \in Heads : Walk(Links(h), h, n[h], w[h])'
    <2> TAKE h \in Heads
    <2>1. \A k \in 0..n[h] : /\ ChainPtr(w[h][k])' = ChainPtr(w[h][k])
                             /\ ReadPtr(w[h][k])' = ReadPtr(w[h][k])
        BY <1>4, <1>5, <1>6
    <2> QED BY <2>1, StillWalks
<1>8. \A h \in Heads : /\ Listed(n, w, h)' = Listed(n, w, h)
                       /\ Listed(n, w, h) \subseteq DOMAIN idx
                       /\ \A k \in Listed(n, w, h) : idx'[k] = idx[k]
    BY DEF Listed, Lists
<1> HIDE DEF i
<1>9. Keyed(n, w)' /\ FreeBlank(n, w)' /\ Apart(n, w)'
    <2>1. FREE_OFF \in Heads /\ \A c \in Chains : c \in Heads
        BY DEF Heads
    <2>2. Keyed(n, w) /\ FreeBlank(n, w) /\ Apart(n, w)
        BY DEF Lists
    <2>3. Keyed(n, w)'
        BY <1>2, <1>8, <2>1, <2>2 DEF Keyed
    <2>4. FreeBlank(n, w)'
        BY <1>8, <2>1, <2>2 DEF FreeBlank
    <2>5. Apart(n, w)'
        BY <1>2, <1>8, <2>2 DEF Apart
    <2> QED BY <2>3, <2>4, <2>5
<1>10. InHand(p)' = {i} /\ \A q \in Procs : q # p => InHand(q)' = InHand(q)
    BY DEF StandStill, InHand, i
<1>11. Hands(n, w)'
    <2>1. Hands(n, w)
        BY DEF Lists
    <2> SUFFICES ASSUME NEW q \in Procs, NEW k \in InHand(q)'
                 PROVE  /\ k \in DOMAIN idx'
                        /\ \A h \in Heads : k \notin Listed(n, w, h)
                        /\ \A r \in Procs : r # q => k \notin InHand(r)'
        BY <1>8 DEF Hands
    <2>2. CASE q = p
        BY <1>10, <2>2 DEF i
    <2>3. CASE q # p
        BY <1>10, <2>1, <2>3 DEF Hands, i
    <2> QED BY <2>2, <2>3
<1>12. Covered(n, w)'
    <2>1. (\A q \in Procs : pc'[q] \notin Ended) => \A q \in Procs : pc[q] \notin Ended
        BY DEF StandStill, Ended
    <2>2. \A q \in Procs : InHand(q) \subseteq InHand(q)'
        BY <1>10 DEF i
    <2>3. i \in InHand(p)'
        BY <1>10
    <2>4. \A k \in DOMAIN idx' : k \in DOMAIN idx \/ k = i
        BY DEF i
    <2>5. Covered(n, w)
        BY DEF Lists
    <2> QED BY <1>8, <2>1, <2>2, <2>3, <2>4, <2>5 DEF Covered
<1>13. KeepsToItsOwn(p, n, w, n, w)
    <2>1. ASSUME NEW q \in Procs \ {p}, pc[q] \in {"d_free", "d_unlink", "link"}
          PROVE  idx'[db[q].off] = idx[db[q].off]
        <3>1. CASE Deleting(q)
            <4>1. db[q].off \in Listed(n, w, Chain(q)) /\ Chain(q) \in Heads
                BY <3>1, DeletedListed DEF Deleting, DeleteOrStore
            <4> QED BY <1>8, <4>1
        <3>2. CASE pc[q] = "link"
            <4>1. db[q].off \in InHand(q)
                BY <3>2 DEF InHand
            <4>2. db[q].off \in DOMAIN idx /\ db[q].off # i
                BY <4>1 DEF Lists, Hands, i
            <4> QED BY <4>2 DEF i
        <3> QED BY <2>1, <3>1, <3>2 DEF Deleting
    <2>2. \A c \in Chains : c \in Heads
        BY DEF Heads
    <2> QED BY <1>8, <2>1, <2>2 DEF KeepsToItsOwn
<1>14. Place(p, n, w)'
    <2>1. Inserts(p, n, w) /\ pc[p] \in Missing /\ pc[p] \in HeadRead
        BY DEF Lists, Place, Missing, HeadRead
    <2>2. Chain(p)' = Chain(p) /\ Chain(p) \in Heads
        BY MyChain DEF Chain, Heads, KeyedCall
    <2>3. Listed(n, w, Chain(p))' = Listed(n, w, Chain(p))
        BY <2>2 DEF Listed
    <2>4. \A k \in Listed(n, w, Chain(p)) : idx'[k].key # req[p].key
        BY <1>8, <2>1, <2>2 DEF Inserts
    <2>5. Inserts(p, n, w)'
        BY <2>1, <2>2, <2>3, <2>4 DEF Inserts, HeadRead
    <2> QED BY <2>5 DEF Place, Scans, Deletes, DeleteOrStore, Frees, Deleting, FindsFree
<1>15. n \in [Heads -> Nat]
    BY DEF Lists
<1>16. \A q \in Procs : Place(q, n, w)'
    BY <1>13, <1>14, <1>15, OthersPlaced DEF Lists
<1>17. \A h \in Heads : Listed(n, w, h)' \subseteq DOMAIN idx'
    BY <1>8
<1> QED BY <1>7, <1>9, <1>11, <1>12, <1>15, <1>16, <1>17 DEF Lists

LEMMA WriteRecordSteps ==
    ASSUME LockInv, LockInv', FileInv, FileInv', NEW p \in Procs,
           NEW n, NEW w, Lists(n, w), ReuseIndex(p) \/ AppendIndex(p)
    PROVE  Lists(n, w)'
<1> DEFINE rec == IndexRecord(p)
<1>1. StandStill(p)
    BY OneAtATime DEF Step
<1>2. /\ pc[p] \in {"u_idx", "a_idx_write"} /\ pc'[p] = "link"
      /\ table' = table /\ req' = req /\ db' = db
      /\ pc[p] = "u_idx" => idx' = [idx EXCEPT ![db[p].off] = rec]
      /\ pc[p] = "a_idx_write" => idx' = WriteAt(idx, db[p].off, rec)
    BY DEF ReuseIndex, AppendIndex, Goto, LockInv
<1>3. Len(idx) \in Nat /\ DOMAIN idx = 1..Len(idx) /\ idx \in Seq(IndexRecords) /\ Handle(p)
    BY SeqFacts DEF FileInv, FileTypes
<1>4. rec.ptr = db[p].next /\ rec.key = req[p].key
    BY DEF IndexRecord
<1> HIDE DEF rec
<1>5. CASE pc[p] = "u_idx"
    <2>1. InHand(p) = {db[p].off}
        BY <1>5 DEF InHand
    <2>2. /\ db[p].off \in DOMAIN idx
          /\ \A h \in Heads : db[p].off \notin Listed(n, w, h)
          /\ \A q \in Procs : q # p => db[p].off \notin InHand(q)
        BY <2>1 DEF Lists, Hands
    <2>3. /\ DOMAIN idx' = DOMAIN idx \cup {db[p].off}
          /\ \A k \in DOMAIN idx : k # db[p].off => idx'[k] = idx[k]
          /\ idx'[db[p].off] = rec
        BY <1>2, <1>5, <2>2
    <2> QED BY <1>1, <1>2, <1>4, <2>1, <2>2, <2>3, RecordWritten
<1>6. CASE pc[p] = "a_idx_write"
    <2>1. db[p].off = Len(idx) + 1 /\ db[p].off \notin DOMAIN idx
        BY <1>3, <1>6 DEF Handle
    <2>2. /\ \A h \in Heads : db[p].off \notin Listed(n, w, h)
          /\ \A q \in Procs : db[p].off \notin InHand(q)
        BY <2>1 DEF Lists, Hands
    <2>3. InHand(p) = {}
        BY <1>6 DEF InHand
    <2>4. idx' = Append(idx, rec)
        BY <1>2, <1>3, <1>6, <2>1 DEF WriteAt
    <2>5. /\ Len(idx') = Len(idx) + 1 /\ DOMAIN idx' = 1..Len(idx')
          /\ \A k \in 1..Len(idx) : idx'[k] = idx[k]
          /\ idx'[Len(idx) + 1] = rec
        BY <1>3, <2>4
    <2>6. /\ DOMAIN idx' = DOMAIN idx \cup {db[p].off}
          /\ \A k \in DOMAIN idx : k # db[p].off => idx'[k] = idx[k]
          /\ idx'[db[p].off] = rec
        BY <1>3, <2>1, <2>5
    <2> QED BY <1>1, <1>2, <1>4, <2>2, <2>3, <2>6, RecordWritten
<1> QED BY <1>2, <1>5, <1>6

\* Writing a pointer changes that pointer and nothing else.
LEMMA WrittenPtr ==
    ASSUME FileInv, NEW loc \in Places, NEW x, WritePtr(loc, x)
    PROVE  /\ DOMAIN idx' = DOMAIN idx /\ Places' = Places
           /\ \A i \in DOMAIN idx : idx'[i].key = idx[i].key
           /\ \A i \in DOMAIN idx : i # loc => idx'[i] = idx[i]
           /\ ReadPtr(loc)' = x
           /\ \A l \in Places : l # loc => ReadPtr(l)' = ReadPtr(l)
           /\ \A h \in Heads : h # loc => table'[h] = table[h]
           /\ loc \in Heads => table'[loc] = x /\ idx' = idx
<1>1. /\ table \in [Heads -> Nat]
      /\ \A h \in Heads : h \notin DOMAIN idx
      /\ \A i \in DOMAIN idx : idx[i] \in IndexRecords
    <2>1. \A i \in DOMAIN idx : i \in Nat /\ idx[i] \in IndexRecords
        BY SeqFacts DEF FileInv
    <2> QED BY <2>1, DbAssumption DEF Heads, FileInv, FileTypes
<1>2. CASE loc \in Heads
    <2>1. table' = [table EXCEPT ![loc] = x] /\ idx' = idx
        BY <1>2 DEF WritePtr
    <2> QED BY <1>1, <1>2, <2>1 DEF ReadPtr, Places
<1>3. CASE loc \notin Heads
    <2>1. loc \in DOMAIN idx /\ idx' = [idx EXCEPT ![loc].ptr = x] /\ table' = table
        BY <1>3 DEF WritePtr, Places
    <2>2. /\ DOMAIN idx' = DOMAIN idx
          /\ \A i \in DOMAIN idx : i # loc => idx'[i] = idx[i]
          /\ idx'[loc].ptr = x /\ idx'[loc].key = idx[loc].key
        BY <1>1, <2>1 DEF IndexRecords
    <2>3. \A i \in DOMAIN idx : idx'[i].key = idx[i].key
        BY <2>2
    <2>4. ReadPtr(loc)' = x
        BY <1>3, <2>2 DEF ReadPtr
    <2>5. \A l \in Places : l # loc => ReadPtr(l)' = ReadPtr(l)
        BY <2>1, <2>2 DEF ReadPtr, Places
    <2> QED BY <1>3, <2>1, <2>2, <2>3, <2>4, <2>5 DEF Places
<1> QED BY <1>2, <1>3

\* The list of one head replaced.
Relisted(n, h, m) == [g \in Heads |-> IF g = h THEN m ELSE n[g]]
Rewalked(w, h, v) == [g \in Heads |-> IF g = h THEN v ELSE w[g]]

\* The deleted record becomes the first of the free list.
LEMMA DeleteFreeStep ==
    ASSUME LockInv, LockInv', FileInv, FileInv', NEW p \in Procs,
           NEW n, NEW w, Lists(n, w), DeleteFree(p)
    PROVE  \E m, v : /\ Lists(m, v)'
                     /\ \A h \in Chains : Listed(m, v, h) = Listed(n, w, h)
<1> DEFINE F == FREE_OFF
<1>a. PICK c, i : c = Chain(p) /\ i = db[p].off
    OBVIOUS
<1>b. PICK v, nn, ww : /\ v = Pushed(n[F], w[F], i)
                       /\ nn = Relisted(n, F, n[F] + 1)
                       /\ ww = Rewalked(w, F, v)
    OBVIOUS
<1>1. StandStill(p)
    BY OneAtATime DEF Step
<1>2. /\ pc[p] = "d_free" /\ pc'[p] = "d_unlink" /\ WritePtr(F, i)
      /\ req' = req /\ db' = db
    BY <1>a DEF DeleteFree, Goto, LockInv
<1>3. /\ OnFreeList(p) /\ Deleting(p) /\ Deleting(p)' /\ F \in Heads /\ F \in Places
      /\ F \notin Chains
    BY <1>2, DbAssumption DEF OnFreeList, Deleting, Heads, Places
<1>4. BeingDeleted = {i} /\ Unlinking = {} /\ BeingDeleted' = {i} /\ Unlinking' = {i}
    <2>1. BeingDeleted = {i} /\ Unlinking = {}
        BY <1>a, <1>2, <1>3, AloneOnFreeList
    <2>2. \A q \in Procs : q # p => ~Deleting(q)' /\ pc'[q] # "d_unlink"
        BY <1>1, <1>3, AloneOnFreeList DEF StandStill, Deleting
    <2>3. BeingDeleted' = {i}
        BY <1>a, <1>2, <1>3, <2>2 DEF BeingDeleted
    <2>4. Unlinking' = {i}
        BY <1>a, <1>2, <2>2 DEF Unlinking
    <2> QED BY <2>1, <2>3, <2>4
<1>5. /\ c \in Chains /\ c \in Heads /\ c # F /\ i \in Listed(n, w, c)
      /\ i \in DOMAIN idx /\ i \notin Heads
    <2>1. c \in Chains /\ c \in Heads /\ i \in Listed(n, w, c)
        BY <1>a, <1>2, DeletedListed DEF DeleteOrStore
    <2>2. i \in DOMAIN idx /\ i \in Nat
        BY <2>1, SeqFacts DEF Lists, FileInv
    <2> QED BY <1>3, <2>1, <2>2, DbAssumption DEF Heads
<1>6. Frees(p) /\ idx[i].ptr = table[F] /\ idx[i].key = Blank
    BY <1>a, <1>2, <1>3 DEF Lists, Place, Frees
<1>7. /\ DOMAIN idx' = DOMAIN idx /\ Places' = Places /\ idx' = idx
      /\ ReadPtr(F)' = i
      /\ \A l \in Places : l # F => ReadPtr(l)' = ReadPtr(l)
      /\ \A h \in Heads : h # F => table'[h] = table[h]
      /\ table'[F] = i
    BY <1>2, <1>3, WrittenPtr
<1>8. \A h \in Heads : h # c => i \notin Listed(n, w, h)
    BY <1>4, <1>5 DEF Lists, Apart
<1>9. \A l \in Places : l # F => ChainPtr(l)' = ChainPtr(l)
    <2>1. \A l : ChainPtr(l) = IF l = i THEN db[p].ptrval ELSE ReadPtr(l)
        BY <1>a, <1>3, PtrsAre DEF PtrsKnown
    <2>2. \A l : ChainPtr(l)' = IF l = i THEN db[p].ptrval ELSE ReadPtr(l)'
        BY <1>a, <1>2, <1>3, SoundPtrs DEF PtrsKnown
    <2> QED BY <1>7, <2>1, <2>2
<1>10. \A h \in Heads : /\ n[h] \in Nat /\ w[h][0] = h
                        /\ \A k \in 0..n[h] : w[h][k] \in Places
                        /\ \A k \in 1..n[h] : w[h][k] \in Listed(n, w, h) /\ w[h][k] \notin Heads
                        /\ \A k \in 0..n[h] : k = 0 \/ k \in 1..n[h]
    <2> TAKE h \in Heads
    <2>1. n[h] \in Nat
        BY ListFacts
    <2>2. \A k \in 0..n[h] : k = 0 \/ k \in 1..n[h]
        BY <2>1
    <2> QED BY <2>2, ListFacts
<1>11. /\ Walk(Links(F), F, n[F] + 1, v)'
       /\ Members(n[F] + 1, v) = {i} \cup Listed(n, w, F)
    <2> DEFINE P == Links(F)
               Q == Links(F)'
    <2>1. Walk(P, F, n[F], w[F])
        BY <1>3 DEF Lists
    <2>2. /\ DOMAIN P = Places /\ DOMAIN Q = Places
          /\ \A l \in Places : P[l] = ReadPtr(l)
          /\ \A l \in Places : Q[l] = ReadPtr(l)'
        BY <1>3, <1>7 DEF Links, FreePtrs
    <2>3. i \in Places /\ i # F
        BY <1>3, <1>5 DEF Places
    <2>4. \A k \in 0..n[F] : w[F][k] # i
        BY <1>3, <1>5, <1>8, <1>10
    <2>5. Q[F] = i
        BY <1>3, <1>7, <2>2
    <2>6. Q[i] = P[F]
        <3>1. ReadPtr(i)' = table[F] /\ ReadPtr(F) = table[F]
            BY <1>3, <1>5, <1>6, <1>7 DEF ReadPtr
        <3> QED BY <1>3, <2>2, <2>3, <3>1
    <2>7. \A k \in 1..n[F] : Q[w[F][k]] = P[w[F][k]]
        <3>1. \A k \in 1..n[F] : w[F][k] \in Places /\ w[F][k] # F /\ k \in 0..n[F]
            BY <1>3, <1>10
        <3> QED BY <1>7, <2>2, <3>1
    <2> HIDE DEF P, Q
    <2>8. Walk(Q, F, n[F] + 1, v) /\ Members(n[F] + 1, v) = {i} \cup Members(n[F], w[F])
        BY <2>1, <2>2, <2>3, <2>4, <2>5, <2>6, <2>7, <1>b, WalkPushed
    <2> QED BY <2>8 DEF Q, Listed, Walk
<1>12. /\ Listed(nn, ww, F) = {i} \cup Listed(n, w, F)
       /\ \A h \in Heads : h # F => /\ nn[h] = n[h] /\ ww[h] = w[h]
                                    /\ Listed(nn, ww, h) = Listed(n, w, h)
       /\ nn[F] = n[F] + 1 /\ ww[F] = v
    <2>1. /\ nn[F] = n[F] + 1 /\ ww[F] = v
          /\ \A h \in Heads : h # F => nn[h] = n[h] /\ ww[h] = w[h]
        BY <1>3, <1>b DEF Relisted, Rewalked
    <2> QED BY <1>11, <2>1 DEF Listed
<1>13. nn \in [Heads -> Nat]
    BY <1>b, <1>10 DEF Relisted
<1>14. \A h \in Heads : Walk(Links(h), h, nn[h], ww[h])'
    <2> TAKE h \in Heads
    <2>1. CASE h = F
        BY <1>11, <1>12, <2>1
    <2>2. CASE h # F
        <3>1. h \in Chains
            BY <2>2 DEF Heads
        <3>2. \A k \in 0..n[h] : w[h][k] \in Places /\ w[h][k] # F
            BY <1>3, <1>10, <2>2
        <3>3. \A k \in 0..n[h] : ChainPtr(w[h][k])' = ChainPtr(w[h][k])
            BY <1>9, <3>2
        <3>4. Walk(Links(h), h, n[h], w[h])'
            BY <1>7, <2>2, <3>3, StillWalks
        <3> QED BY <1>12, <2>2, <3>4
    <2> QED BY <2>1, <2>2
<1>15. \A h \in Heads : Listed(nn, ww, h)' = Listed(nn, ww, h)
    BY DEF Listed
<1>16. \A h \in Heads : Listed(nn, ww, h)' \subseteq DOMAIN idx'
    BY <1>5, <1>7, <1>12, <1>15 DEF Lists
<1>17. \A h \in Chains : h \in Heads /\ h # F
    BY <1>3 DEF Heads
<1>18. Keyed(nn, ww)'
    BY <1>4, <1>7, <1>12, <1>15, <1>17 DEF Lists, Keyed
<1>19. FreeBlank(nn, ww)'
    BY <1>3, <1>6, <1>7, <1>12, <1>15 DEF Lists, FreeBlank
<1>20. Apart(nn, ww)'
    <2> SUFFICES ASSUME NEW g \in Heads, NEW h \in Heads, g # h,
                        NEW k, k \in Listed(nn, ww, g), k \in Listed(nn, ww, h)
                 PROVE  k = i /\ F \in {g, h}
        BY <1>4, <1>15 DEF Apart
    <2>1. Apart(n, w)
        BY DEF Lists
    <2>2. \A x, y \in Heads : x # y => Listed(n, w, x) \cap Listed(n, w, y) = {}
        BY <1>4, <2>1 DEF Apart
    <2> QED BY <1>8, <1>12, <2>2
<1>21. \A q \in Procs : InHand(q)' = InHand(q) /\ i \notin InHand(q)
    <2>1. \A q \in Procs : InHand(q)' = InHand(q)
        BY <1>1, <1>2 DEF StandStill, InHand
    <2> QED BY <1>5, <2>1 DEF Lists, Hands
<1>22. Hands(nn, ww)'
    <2> SUFFICES ASSUME NEW q \in Procs, NEW k \in InHand(q)
                 PROVE  /\ k \in DOMAIN idx
                        /\ \A h \in Heads : k \notin Listed(nn, ww, h)
                        /\ \A r \in Procs : r # q => k \notin InHand(r)
        BY <1>7, <1>15, <1>21 DEF Hands
    <2> QED BY <1>12, <1>21 DEF Lists, Hands
<1>23. Covered(nn, ww)'
    <2>1. (\A q \in Procs : pc'[q] \notin Ended) => \A q \in Procs : pc[q] \notin Ended
        BY <1>1, <1>2 DEF StandStill, Ended
    <2>2. \A h \in Heads : Listed(n, w, h) \subseteq Listed(nn, ww, h)
        BY <1>12
    <2>3. Covered(n, w)
        BY DEF Lists
    <2> QED BY <1>7, <1>15, <1>21, <2>1, <2>2, <2>3 DEF Covered
<1>24. KeepsToItsOwn(p, n, w, nn, ww)
    BY <1>3, <1>7, <1>12, <1>17 DEF KeepsToItsOwn
<1>25. Place(p, nn, ww)'
    <2>1. Chain(p)' = c /\ nn[c] = n[c] /\ ww[c] = w[c]
        BY <1>a, <1>2, <1>5, <1>12 DEF Chain
    <2>2. PICK j \in 1..n[c] :
              /\ StandsAt(p, n, w, c, j)
              /\ \A k \in 1..n[c] : k # j => idx[w[c][k]].key # req[p].key
        BY <1>a, <1>2 DEF Lists, Place, Deletes, DeleteOrStore
    <2>3. StandsAt(p, nn, ww, Chain(p), j)'
        BY <1>2, <2>1, <2>2 DEF StandsAt, After
    <2>4. Deletes(p, nn, ww)'
        BY <1>2, <1>7, <2>1, <2>2, <2>3 DEF Deletes
    <2>5. Frees(p)'
        BY <1>a, <1>2, <1>6, <1>7 DEF Frees
    <2> QED BY <1>2, <2>4, <2>5 DEF Place, Scans, Inserts, FindsFree, Missing, HeadRead
<1>26. \A q \in Procs : Place(q, nn, ww)'
    <2>1. n \in [Heads -> Nat]
        BY DEF Lists
    <2> QED BY <1>1, <1>24, <1>25, <2>1, OthersPlaced DEF Lists
<1>27. Lists(nn, ww)'
    BY <1>13, <1>14, <1>16, <1>18, <1>19, <1>20, <1>22, <1>23, <1>26 DEF Lists
<1>28. \A h \in Chains : h \in Heads /\ h # F
    BY DbAssumption DEF Heads
<1> QED BY <1>12, <1>27, <1>28

\* _db_findfree takes the record it found off the free list.
LEMMA FreeTakeStep ==
    ASSUME LockInv, LockInv', FileInv, FileInv', NEW p \in Procs,
           NEW n, NEW w, Lists(n, w), FreeTake(p)
    PROVE  \E m, v : /\ Lists(m, v)'
                     /\ \A h \in Chains : Listed(m, v, h) = Listed(n, w, h)
<1> DEFINE F == FREE_OFF
<1>a. PICK c, i, l, x : c = Chain(p) /\ i = db[p].off /\ l = db[p].ptroff /\ x = db[p].ptrval
    OBVIOUS
<1>1. StandStill(p)
    BY OneAtATime DEF Step
<1>2. /\ pc[p] = "ff_take" /\ pc'[p] = "u_dat" /\ WritePtr(l, x)
      /\ req' = req /\ db' = db
    BY <1>a DEF FreeTake, Goto, LockInv
<1>3. /\ OnFreeList(p) /\ ~Deleting(p) /\ F \in Heads /\ F \notin Chains
      /\ \A h \in Chains : h \in Heads /\ h # F
    BY <1>2, DbAssumption DEF OnFreeList, Deleting, Heads
<1>4. BeingDeleted = {} /\ Unlinking = {} /\ BeingDeleted' = {} /\ Unlinking' = {}
    <2>1. BeingDeleted = {} /\ Unlinking = {}
        BY <1>2, <1>3, AloneOnFreeList
    <2>2. \A q \in Procs : ~Deleting(q)' /\ pc'[q] # "d_unlink"
        BY <1>1, <1>2, <1>3, AloneOnFreeList DEF StandStill, Deleting
    <2> QED BY <2>1, <2>2 DEF BeingDeleted, Unlinking
<1>5. PICK j \in 1..n[F] : l = w[F][j - 1] /\ i = w[F][j] /\ x = After(n, w, F, j)
    BY <1>a, <1>2 DEF Lists, Place, FindsFree, StandsAt
<1>6. \A h \in Heads : /\ n[h] \in Nat /\ w[h][0] = h
                       /\ \A k \in 0..n[h] : w[h][k] \in Places
                       /\ \A k \in 1..n[h] : /\ w[h][k] \in Listed(n, w, h)
                                             /\ w[h][k] \in DOMAIN idx /\ w[h][k] \notin Heads
                       /\ \A k \in 0..n[h] : k = 0 \/ k \in 1..n[h]
                       /\ \A k, m \in 0..n[h] : w[h][k] = w[h][m] => k = m
    <2> TAKE h \in Heads
    <2>1. n[h] \in Nat
        BY ListFacts
    <2>2. \A k \in 0..n[h] : k = 0 \/ k \in 1..n[h]
        BY <2>1
    <2> QED BY <2>2, ListFacts
<1>7. /\ j - 1 \in 0..n[F] /\ j \in 0..n[F] /\ l \in Places /\ i \in DOMAIN idx
      /\ i \in Listed(n, w, F) /\ i # l /\ i \notin Heads
    <2>1. n[F] \in Nat
        BY <1>3, <1>6
    <2>2. j - 1 \in 0..n[F] /\ j \in 0..n[F] /\ j - 1 # j
        BY <2>1
    <2> QED BY <1>3, <1>5, <1>6, <2>2
<1>8. /\ DOMAIN idx' = DOMAIN idx /\ Places' = Places
      /\ \A k \in DOMAIN idx : idx'[k].key = idx[k].key
      /\ ReadPtr(l)' = x
      /\ \A y \in Places : y # l => ReadPtr(y)' = ReadPtr(y)
      /\ \A h \in Heads : h # l => table'[h] = table[h]
    BY <1>2, <1>7, WrittenPtr
<1>9. \A g, h \in Heads : g # h => Listed(n, w, g) \cap Listed(n, w, h) = {}
    BY <1>4 DEF Lists, Apart
<1>10. \A h \in Heads : h # F => l # h /\ l \notin Listed(n, w, h) /\ i \notin Listed(n, w, h)
    <2>1. l = F \/ (l \in Listed(n, w, F) /\ l \notin Heads)
        BY <1>3, <1>5, <1>6, <1>7
    <2>2. \A h \in Heads : Listed(n, w, h) \subseteq DOMAIN idx
        BY DEF Lists
    <2>3. F \notin DOMAIN idx
        <3>1. F \notin Nat /\ \A k \in DOMAIN idx : k \in Nat
            BY SeqFacts, DbAssumption DEF FileInv
        <3> QED BY <3>1
    <2> QED BY <1>3, <1>7, <1>9, <2>1, <2>2, <2>3
<1>11. \A y : ChainPtr(y) = ReadPtr(y) /\ ChainPtr(y)' = ReadPtr(y)'
    BY <1>4 DEF ChainPtr
<1>b. PICK v, nn, ww : /\ v = Cut(n[F], w[F], j)
                       /\ nn = Relisted(n, F, n[F] - 1)
                       /\ ww = Rewalked(w, F, v)
    OBVIOUS
<1>12. /\ Walk(Links(F), F, n[F] - 1, v)'
       /\ Members(n[F] - 1, v) = Listed(n, w, F) \ {i}
    <2> DEFINE P == Links(F)
               Q == Links(F)'
    <2>1. Walk(P, F, n[F], w[F])
        BY <1>3 DEF Lists
    <2>2. /\ DOMAIN P = Places /\ DOMAIN Q = Places
          /\ \A y \in Places : P[y] = ReadPtr(y)
          /\ \A y \in Places : Q[y] = ReadPtr(y)'
        BY <1>3, <1>8 DEF Links, FreePtrs
    <2>3. Q[w[F][j - 1]] = P[w[F][j]]
        <3>1. P[w[F][j]] = After(n, w, F, j)
            BY <1>3, <1>7, ListFacts
        <3> QED BY <1>5, <1>7, <1>8, <2>2, <3>1
    <2>4. \A k \in 0..n[F] : k # j - 1 /\ k # j => Q[w[F][k]] = P[w[F][k]]
        BY <1>3, <1>5, <1>6, <1>7, <1>8, <2>2
    <2> HIDE DEF P, Q
    <2>5. LedAround(P, Q, F, n[F], w[F], j, v)
        BY <1>b, <2>1, <2>2, <2>3, <2>4 DEF LedAround
    <2>6. /\ Walk(Q, F, n[F] - 1, v)
          /\ Without(Members(n[F] - 1, v), Members(n[F], w[F]), w[F][j])
        BY <2>5, WalkLedAround
    <2> QED BY <1>5, <2>6 DEF Q, Listed, Walk, Without
<1>13. /\ Listed(nn, ww, F) = Listed(n, w, F) \ {i}
       /\ \A h \in Heads : h # F => /\ nn[h] = n[h] /\ ww[h] = w[h]
                                    /\ Listed(nn, ww, h) = Listed(n, w, h)
       /\ nn[F] = n[F] - 1 /\ ww[F] = v
    <2>1. /\ nn[F] = n[F] - 1 /\ ww[F] = v
          /\ \A h \in Heads : h # F => nn[h] = n[h] /\ ww[h] = w[h]
        BY <1>3, <1>b DEF Relisted, Rewalked
    <2> QED BY <1>12, <2>1 DEF Listed
<1>14. nn \in [Heads -> Nat]
    <2>1. n[F] - 1 \in Nat
        BY <1>3, <1>6, <1>7
    <2> QED BY <1>b, <1>6, <2>1 DEF Relisted
<1>15. \A h \in Heads : Walk(Links(h), h, nn[h], ww[h])'
    <2> TAKE h \in Heads
    <2>1. CASE h = F
        BY <1>12, <1>13, <2>1
    <2>2. CASE h # F
        <3>1. h \in Chains
            BY <2>2 DEF Heads
        <3>2. \A k \in 0..n[h] : w[h][k] \in Places /\ w[h][k] # l
            BY <1>6, <1>10, <2>2
        <3>3. \A k \in 0..n[h] : ChainPtr(w[h][k])' = ChainPtr(w[h][k])
            BY <1>8, <1>11, <3>2
        <3>4. Walk(Links(h), h, n[h], w[h])'
            BY <1>8, <2>2, <3>3, StillWalks
        <3> QED BY <1>13, <2>2, <3>4
    <2> QED BY <2>1, <2>2
<1>16. /\ \A h \in Heads : Listed(nn, ww, h)' = Listed(nn, ww, h)
       /\ \A h \in Heads : Listed(nn, ww, h) \subseteq Listed(n, w, h)
       /\ \A h \in Heads : Listed(nn, ww, h) \subseteq DOMAIN idx
    BY <1>13 DEF Listed, Lists
<1>17. Keyed(nn, ww)'
    BY <1>3, <1>4, <1>8, <1>13, <1>16 DEF Lists, Keyed
<1>18. FreeBlank(nn, ww)'
    BY <1>3, <1>8, <1>16 DEF Lists, FreeBlank
<1>19. Apart(nn, ww)'
    BY <1>9, <1>16 DEF Apart
<1>20. /\ InHand(p)' = {i} /\ InHand(p) = {}
       /\ \A q \in Procs : q # p => InHand(q)' = InHand(q) /\ i \notin InHand(q)
    <2>1. \A q \in Procs : q # p => InHand(q)' = InHand(q)
        BY <1>1 DEF StandStill, InHand
    <2>2. \A q \in Procs : i \notin InHand(q)
        BY <1>3, <1>7 DEF Lists, Hands
    <2> QED BY <1>a, <1>2, <2>1, <2>2 DEF InHand
<1>21. Hands(nn, ww)'
    <2> SUFFICES ASSUME NEW q \in Procs, NEW k \in InHand(q)'
                 PROVE  /\ k \in DOMAIN idx
                        /\ \A h \in Heads : k \notin Listed(nn, ww, h)
                        /\ \A r \in Procs : r # q => k \notin InHand(r)'
        BY <1>8, <1>16 DEF Hands
    <2>1. Hands(n, w)
        BY DEF Lists
    <2>2. CASE q = p
        BY <1>7, <1>10, <1>13, <1>20, <2>2
    <2>3. CASE q # p
        BY <1>16, <1>20, <2>1, <2>3 DEF Hands
    <2> QED BY <2>2, <2>3
<1>22. Covered(nn, ww)'
    <2>1. (\A q \in Procs : pc'[q] \notin Ended) => \A q \in Procs : pc[q] \notin Ended
        BY <1>1, <1>2 DEF StandStill, Ended
    <2>2. \A h \in Heads : Listed(n, w, h) \subseteq Listed(nn, ww, h) \cup {i}
        BY <1>13
    <2>3. \A q \in Procs : InHand(q) \subseteq InHand(q)'
        BY <1>20
    <2>4. Covered(n, w)
        BY DEF Lists
    <2> QED BY <1>8, <1>16, <1>20, <2>1, <2>2, <2>3, <2>4 DEF Covered
<1>23. KeepsToItsOwn(p, n, w, nn, ww)
    <2>1. \A h \in Chains : /\ nn[h] = n[h] /\ ww[h] = w[h] /\ table'[h] = table[h]
                            /\ \A k \in Listed(n, w, h) : idx'[k].key = idx[k].key
        BY <1>3, <1>8, <1>10, <1>13 DEF Lists
    <2>2. ASSUME NEW q \in Procs \ {p}, pc[q] \in {"d_free", "d_unlink", "link"}
          PROVE  idx'[db[q].off].key = idx[db[q].off].key /\ idx'[db[q].off].ptr = idx[db[q].off].ptr
        <3>1. pc[q] = "link"
            BY <1>3, <2>2, AloneOnFreeList DEF Deleting
        <3>2. db[q].off \in InHand(q)
            BY <3>1 DEF InHand
        <3>3. db[q].off \in DOMAIN idx /\ \A h \in Heads : db[q].off \notin Listed(n, w, h)
            BY <3>2 DEF Lists, Hands
        <3>4. l \in Heads \/ l \in Listed(n, w, F)
            BY <1>3, <1>5, <1>6, <1>7
        <3>5. db[q].off # l /\ db[q].off \in Places /\ db[q].off \notin Heads
            <4>1. \A h \in Heads : h \notin DOMAIN idx
                <5>1. \A h \in Heads : h \notin Nat
                    BY DbAssumption DEF Heads
                <5>2. \A k \in DOMAIN idx : k \in Nat
                    BY SeqFacts DEF FileInv
                <5> QED BY <5>1, <5>2
            <4> QED BY <1>3, <3>3, <3>4, <4>1 DEF Places
        <3> QED BY <1>8, <3>3, <3>5 DEF ReadPtr
    <2> QED BY <1>3, <2>1, <2>2 DEF KeepsToItsOwn
<1>24. Place(p, nn, ww)'
    <2>1. c \in Chains /\ Chain(p)' = c
        BY <1>a, <1>2, MyChain DEF Chain, KeyedCall
    <2>2. Inserts(p, n, w)
        BY DEF Lists, Place
    <2>3. /\ \A k \in Listed(n, w, c) : idx[k].key # req[p].key
          /\ db[p].next = table[c]
        BY <1>a, <1>2, <2>2 DEF Inserts, Missing, HeadRead
    <2>4. \A k \in Listed(nn, ww, c) : idx'[k].key # req[p].key
        BY <1>3, <1>8, <1>16, <2>1, <2>3
    <2>5. table'[c] = table[c]
        BY <1>3, <1>8, <1>10, <2>1
    <2>6. Listed(nn, ww, Chain(p))' = Listed(nn, ww, c)
        BY <1>3, <1>16, <2>1 DEF Listed
    <2>7. Inserts(p, nn, ww)'
        BY <1>2, <2>1, <2>3, <2>4, <2>5, <2>6 DEF Inserts
    <2> QED BY <1>2, <2>7 DEF Place, Scans, Deletes, DeleteOrStore, Frees, Deleting, FindsFree
<1>25. \A q \in Procs : Place(q, nn, ww)'
    <2>1. n \in [Heads -> Nat]
        BY DEF Lists
    <2> QED BY <1>1, <1>23, <1>24, <2>1, OthersPlaced DEF Lists
<1>26. \A h \in Heads : Listed(nn, ww, h)' \subseteq DOMAIN idx'
    BY <1>8, <1>16
<1>27. Lists(nn, ww)'
    BY <1>14, <1>15, <1>17, <1>18, <1>19, <1>21, <1>22, <1>25, <1>26 DEF Lists
<1>28. \A h \in Chains : h \in Heads /\ h # F
    BY DbAssumption DEF Heads
<1> QED BY <1>13, <1>27, <1>28

\* The deleted record leaves its hash chain.
LEMMA DeleteUnlinkStep ==
    ASSUME LockInv, LockInv', FileInv, FileInv', NEW p \in Procs,
           NEW n, NEW w, Lists(n, w), DeleteUnlink(p)
    PROVE  \E m, v : /\ Lists(m, v)'
                     /\ \A h \in Chains : h # Chain(p) => Listed(m, v, h) = Listed(n, w, h)
                     /\ Listed(m, v, Chain(p)) = Listed(n, w, Chain(p)) \ {db[p].off}
<1> DEFINE F == FREE_OFF
<1>a. PICK c, i, l, x : c = Chain(p) /\ i = db[p].off /\ l = db[p].ptroff /\ x = db[p].ptrval
    OBVIOUS
<1>1. StandStill(p)
    BY OneAtATime DEF Step
<1>2. /\ pc[p] = "d_unlink" /\ pc'[p] \in {"unlock", "r_head"} /\ WritePtr(l, x)
      /\ req' = req
    BY <1>a DEF DeleteUnlink, Goto, LockInv
<1>3. /\ OnFreeList(p) /\ Deleting(p) /\ F \in Heads /\ F \notin Chains
      /\ \A h \in Chains : h \in Heads /\ h # F
    BY <1>2, DbAssumption DEF OnFreeList, Deleting, Heads
<1>4. BeingDeleted = {i} /\ Unlinking = {i} /\ BeingDeleted' = {} /\ Unlinking' = {}
    <2>1. BeingDeleted = {i} /\ Unlinking = {i}
        BY <1>a, <1>2, <1>3, AloneOnFreeList
    <2>2. \A q \in Procs : ~Deleting(q)' /\ pc'[q] # "d_unlink"
        BY <1>1, <1>2, <1>3, AloneOnFreeList DEF StandStill, Deleting
    <2> QED BY <2>1, <2>2 DEF BeingDeleted, Unlinking
<1>5. PICK j \in 1..n[c] : /\ l = w[c][j - 1] /\ i = w[c][j] /\ x = After(n, w, c, j)
                           /\ \A k \in 1..n[c] : k # j => idx[w[c][k]].key # req[p].key
    BY <1>a, <1>2 DEF Lists, Place, Deletes, DeleteOrStore, StandsAt
<1>6. \A h \in Heads : /\ n[h] \in Nat /\ w[h][0] = h
                       /\ \A k \in 0..n[h] : w[h][k] \in Places
                       /\ \A k \in 1..n[h] : /\ w[h][k] \in Listed(n, w, h)
                                             /\ w[h][k] \in DOMAIN idx /\ w[h][k] \notin Heads
                       /\ \A k \in 0..n[h] : k = 0 \/ k \in 1..n[h]
                       /\ \A k, m \in 0..n[h] : w[h][k] = w[h][m] => k = m
    <2> TAKE h \in Heads
    <2>1. n[h] \in Nat
        BY ListFacts
    <2>2. \A k \in 0..n[h] : k = 0 \/ k \in 1..n[h]
        BY <2>1
    <2> QED BY <2>2, ListFacts
<1>7. /\ c \in Chains /\ c \in Heads /\ c # F
      /\ j - 1 \in 0..n[c] /\ j \in 0..n[c] /\ l \in Places /\ i \in DOMAIN idx
      /\ i \in Listed(n, w, c) /\ i # l /\ i \notin Heads
    <2>1. c \in Chains /\ c \in Heads /\ c # F
        BY <1>a, <1>2, <1>3, DeletedListed DEF DeleteOrStore
    <2>2. n[c] \in Nat
        BY <1>6, <2>1
    <2>3. j - 1 \in 0..n[c] /\ j \in 0..n[c] /\ j - 1 # j
        BY <2>2
    <2> QED BY <1>5, <1>6, <2>1, <2>3
<1>8. /\ DOMAIN idx' = DOMAIN idx /\ Places' = Places
      /\ \A k \in DOMAIN idx : idx'[k].key = idx[k].key
      /\ \A k \in DOMAIN idx : k # l => idx'[k] = idx[k]
      /\ ReadPtr(l)' = x
      /\ \A y \in Places : y # l => ReadPtr(y)' = ReadPtr(y)
      /\ \A h \in Heads : h # l => table'[h] = table[h]
    BY <1>2, <1>7, WrittenPtr
\* The record is the first of the free list.
<1>9. i \in Listed(n, w, F)
    <2>1. table[F] = i
        BY <1>a, <1>2 DEF Lists, Place, Frees
    <2>2. After(n, w, F, 0) = i
        BY <2>1, FreeListPtrs
    <2>3. i # 0
        BY <1>7, SeqFacts DEF FileInv
    <2>4. n[F] \in Nat /\ 0 < n[F] /\ i = w[F][1]
        BY <1>3, <1>6, <2>2, <2>3 DEF After
    <2> QED BY <1>3, <1>6, <2>4
<1>10. /\ \A h \in Heads : h # c /\ h # F => i \notin Listed(n, w, h)
       /\ \A h \in Heads : h # c => l # h /\ l \notin Listed(n, w, h)
    <2>1. Apart(n, w)
        BY DEF Lists
    <2>2. l = c \/ (l \in Listed(n, w, c) /\ l \notin Heads)
        BY <1>5, <1>6, <1>7
    <2>3. \A h \in Heads : Listed(n, w, h) \subseteq DOMAIN idx
        BY DEF Lists
    <2>4. c \notin DOMAIN idx
        <3>1. c \notin Nat /\ \A k \in DOMAIN idx : k \in Nat
            BY <1>7, SeqFacts, DbAssumption DEF FileInv
        <3> QED BY <3>1
    <2>5. \A h \in Heads : h # c /\ h # F => i \notin Listed(n, w, h)
        BY <1>7, <2>1 DEF Apart
    <2>6. \A h \in Heads : h # c => l # h /\ l \notin Listed(n, w, h)
        BY <1>4, <1>7, <2>1, <2>2, <2>3, <2>4 DEF Apart
    <2> QED BY <2>5, <2>6
<1>11. /\ \A y : ChainPtr(y) = IF y = i THEN x ELSE ReadPtr(y)
       /\ \A y : ChainPtr(y)' = ReadPtr(y)'
    <2>1. \A y : ChainPtr(y) = IF y = i THEN x ELSE ReadPtr(y)
        BY <1>a, <1>3, PtrsAre DEF PtrsKnown
    <2>2. \A y : ChainPtr(y)' = ReadPtr(y)'
        BY <1>4 DEF ChainPtr
    <2> QED BY <2>1, <2>2
<1>b. PICK v, nn, ww : /\ v = Cut(n[c], w[c], j)
                       /\ nn = Relisted(n, c, n[c] - 1)
                       /\ ww = Rewalked(w, c, v)
    OBVIOUS
<1>12. /\ Walk(Links(c), c, n[c] - 1, v)'
       /\ Members(n[c] - 1, v) = Listed(n, w, c) \ {i}
    <2> DEFINE P == Links(c)
               Q == Links(c)'
    <2>1. Walk(P, c, n[c], w[c])
        BY <1>7 DEF Lists
    <2>2. /\ DOMAIN P = Places /\ DOMAIN Q = Places
          /\ \A y \in Places : P[y] = IF y = i THEN x ELSE ReadPtr(y)
          /\ \A y \in Places : Q[y] = ReadPtr(y)'
        BY <1>7, <1>8, <1>11 DEF Links, ChainPtrs
    <2>3. Q[w[c][j - 1]] = P[w[c][j]]
        BY <1>5, <1>6, <1>7, <1>8, <2>2
    <2>4. \A k \in 0..n[c] : k # j - 1 /\ k # j => Q[w[c][k]] = P[w[c][k]]
        BY <1>5, <1>6, <1>7, <1>8, <2>2
    <2> HIDE DEF P, Q
    <2>5. LedAround(P, Q, c, n[c], w[c], j, v)
        BY <1>b, <2>1, <2>2, <2>3, <2>4 DEF LedAround
    <2>6. /\ Walk(Q, c, n[c] - 1, v)
          /\ Without(Members(n[c] - 1, v), Members(n[c], w[c]), w[c][j])
        BY <2>5, WalkLedAround
    <2> QED BY <1>5, <2>6 DEF Q, Listed, Walk, Without
<1>13. /\ Listed(nn, ww, c) = Listed(n, w, c) \ {i}
       /\ \A h \in Heads : h # c => /\ nn[h] = n[h] /\ ww[h] = w[h]
                                    /\ Listed(nn, ww, h) = Listed(n, w, h)
       /\ nn[c] = n[c] - 1 /\ ww[c] = v
    <2>1. /\ nn[c] = n[c] - 1 /\ ww[c] = v
          /\ \A h \in Heads : h # c => nn[h] = n[h] /\ ww[h] = w[h]
        BY <1>7, <1>b DEF Relisted, Rewalked
    <2> QED BY <1>12, <2>1 DEF Listed
<1>14. nn \in [Heads -> Nat]
    <2>1. n[c] - 1 \in Nat
        BY <1>6, <1>7
    <2> QED BY <1>b, <1>6, <2>1 DEF Relisted
<1>15. \A h \in Heads : Walk(Links(h), h, nn[h], ww[h])'
    <2> TAKE h \in Heads
    <2>1. CASE h = c
        BY <1>12, <1>13, <2>1
    <2>2. CASE h # c
        <3>1. \A k \in 0..n[h] : w[h][k] \in Places /\ w[h][k] # l
            BY <1>6, <1>10, <2>2
        <3>2. \A k \in 0..n[h] : ReadPtr(w[h][k])' = ReadPtr(w[h][k])
            BY <1>8, <3>1
        <3>3. h \in Chains => \A k \in 0..n[h] : ChainPtr(w[h][k])' = ChainPtr(w[h][k])
            <4> SUFFICES ASSUME h \in Chains, NEW k \in 0..n[h]
                         PROVE  ChainPtr(w[h][k])' = ChainPtr(w[h][k])
                OBVIOUS
            <4>1. w[h][k] # i
                BY <1>3, <1>6, <1>7, <1>10, <2>2
            <4> QED BY <1>11, <3>2, <4>1
        <3>4. Walk(Links(h), h, n[h], w[h])'
            BY <1>8, <3>2, <3>3, StillWalks
        <3> QED BY <1>13, <2>2, <3>4
    <2> QED BY <2>1, <2>2
<1>16. /\ \A h \in Heads : Listed(nn, ww, h)' = Listed(nn, ww, h)
       /\ \A h \in Heads : Listed(nn, ww, h) \subseteq Listed(n, w, h)
       /\ \A h \in Heads : Listed(nn, ww, h) \subseteq DOMAIN idx
    BY <1>13 DEF Listed, Lists
<1>17. Keyed(nn, ww)'
    <2>1. \A h \in Chains : i \notin Listed(nn, ww, h)
        BY <1>3, <1>10, <1>13
    <2> QED BY <1>3, <1>4, <1>8, <1>16, <2>1 DEF Lists, Keyed
<1>18. FreeBlank(nn, ww)'
    BY <1>3, <1>8, <1>16 DEF Lists, FreeBlank
<1>19. Apart(nn, ww)'
    <2> SUFFICES ASSUME NEW g \in Heads, NEW h \in Heads, g # h,
                        NEW k, k \in Listed(nn, ww, g), k \in Listed(nn, ww, h)
                 PROVE  FALSE
        BY <1>16 DEF Apart
    <2>1. Apart(n, w)
        BY DEF Lists
    <2>2. k = i
        BY <1>4, <1>16, <2>1 DEF Apart
    <2> QED BY <1>10, <1>13, <2>2
<1>20. \A q \in Procs : InHand(q)' = InHand(q) /\ i \notin InHand(q)
    <2>1. \A q \in Procs : InHand(q)' = InHand(q)
        BY <1>1, <1>2 DEF StandStill, InHand
    <2> QED BY <1>7, <2>1 DEF Lists, Hands
<1>21. Hands(nn, ww)'
    <2> SUFFICES ASSUME NEW q \in Procs, NEW k \in InHand(q)
                 PROVE  /\ k \in DOMAIN idx
                        /\ \A h \in Heads : k \notin Listed(nn, ww, h)
                        /\ \A r \in Procs : r # q => k \notin InHand(r)
        BY <1>8, <1>16, <1>20 DEF Hands
    <2>1. Hands(n, w)
        BY DEF Lists
    <2> QED BY <1>16, <2>1 DEF Hands
<1>22. Covered(nn, ww)'
    <2>1. (\A q \in Procs : pc'[q] \notin Ended) => \A q \in Procs : pc[q] \notin Ended
        BY <1>1, <1>2 DEF StandStill, Ended
    <2>2. \A h \in Heads : \A k \in Listed(n, w, h) :
              k \in Listed(nn, ww, h) \/ k \in Listed(nn, ww, F)
        BY <1>3, <1>7, <1>9, <1>13
    <2>3. Covered(n, w)
        BY DEF Lists
    <2> QED BY <1>3, <1>8, <1>16, <1>20, <2>1, <2>2, <2>3 DEF Covered
<1>23. KeepsToItsOwn(p, n, w, nn, ww)
    <2>1. UpdatesChain(p, c)
        <3>1. Op(p) # "fetch"
            BY <1>2 DEF LockInv, Matched, DeleteOrStore
        <3> QED BY <1>a, <1>2, <3>1 DEF UpdatesChain, OnChain, KeyedCall
    <2>2. \A h \in Chains : h # c =>
              /\ nn[h] = n[h] /\ ww[h] = w[h] /\ table'[h] = table[h]
              /\ \A k \in Listed(n, w, h) : idx'[k].key = idx[k].key
        BY <1>3, <1>8, <1>10, <1>13 DEF Lists
    <2>3. ASSUME NEW q \in Procs \ {p}, pc[q] \in {"d_free", "d_unlink", "link"}
          PROVE  idx'[db[q].off].key = idx[db[q].off].key /\ idx'[db[q].off].ptr = idx[db[q].off].ptr
        <3>1. pc[q] = "link"
            BY <1>3, <2>3, AloneOnFreeList DEF Deleting
        <3>2. db[q].off \in InHand(q)
            BY <3>1 DEF InHand
        <3>3. db[q].off \in DOMAIN idx /\ \A h \in Heads : db[q].off \notin Listed(n, w, h)
            BY <3>2 DEF Lists, Hands
        <3>4. l = c \/ l \in Listed(n, w, c)
            BY <1>5, <1>6, <1>7
        <3>5. c \notin DOMAIN idx
            <4>1. c \notin Nat /\ \A k \in DOMAIN idx : k \in Nat
                BY <1>7, SeqFacts, DbAssumption DEF FileInv
            <4> QED BY <4>1
        <3>6. db[q].off # l
            BY <1>7, <3>3, <3>4, <3>5
        <3> QED BY <1>8, <3>3, <3>6
    <2> QED BY <1>3, <2>1, <2>2, <2>3 DEF KeepsToItsOwn
<1>24. Place(p, nn, ww)'
    <2>1. CASE pc'[p] = "unlock"
        BY <2>1, PlaceElsewhere DEF DeleteOrStore, Missing
    <2>2. CASE pc'[p] = "r_head"
        <3>1. Chain(p)' = c
            BY <1>a, <1>2 DEF Chain
        <3>2. \A k \in Listed(n, w, c) : k # i => idx[k].key # req[p].key
            BY <1>5 DEF Listed, Members
        <3>3. \A k \in Listed(nn, ww, c) : idx'[k].key # req[p].key
            BY <1>7, <1>8, <1>13, <1>16, <3>2
        <3>4. Inserts(p, nn, ww)'
            BY <1>2, <1>7, <1>16, <2>2, <3>1, <3>3 DEF Inserts, HeadRead, Listed
        <3> QED BY <2>2, <3>4 DEF Place, Scans, Deletes, DeleteOrStore, Frees, Deleting, FindsFree
    <2> QED BY <1>2, <2>1, <2>2
<1>25. \A q \in Procs : Place(q, nn, ww)'
    <2>1. n \in [Heads -> Nat]
        BY DEF Lists
    <2> QED BY <1>1, <1>23, <1>24, <2>1, OthersPlaced DEF Lists
<1>26. \A h \in Heads : Listed(nn, ww, h)' \subseteq DOMAIN idx'
    BY <1>8, <1>16
<1>27. Lists(nn, ww)'
    BY <1>14, <1>15, <1>17, <1>18, <1>19, <1>21, <1>22, <1>25, <1>26 DEF Lists
<1> QED BY <1>a, <1>13, <1>27 DEF Heads

\* The stored record becomes the first of its hash chain.
LEMMA LinkStep ==
    ASSUME LockInv, LockInv', FileInv, FileInv', NEW p \in Procs,
           NEW n, NEW w, Lists(n, w), Link(p)
    PROVE  \E m, v : /\ Lists(m, v)'
                     /\ \A h \in Chains : h # Chain(p) => Listed(m, v, h) = Listed(n, w, h)
                     /\ Listed(m, v, Chain(p)) = {db[p].off} \cup Listed(n, w, Chain(p))
<1> DEFINE F == FREE_OFF
<1>a. PICK c, i : c = Chain(p) /\ i = db[p].off
    OBVIOUS
<1>b. PICK v, nn, ww : /\ v = Pushed(n[c], w[c], i)
                       /\ nn = Relisted(n, c, n[c] + 1)
                       /\ ww = Rewalked(w, c, v)
    OBVIOUS
<1>1. StandStill(p)
    BY OneAtATime DEF Step
<1>2. /\ pc[p] = "link" /\ pc'[p] = "unlock" /\ WritePtr(c, i) /\ req' = req
    BY <1>a DEF Link, Goto, LockInv
<1>3. /\ c \in Chains /\ c \in Heads /\ c # F /\ F \in Heads /\ F \notin Chains
      /\ \A h \in Chains : h \in Heads /\ h # F
      /\ Op(p) # "fetch" /\ ~OnFreeList(p) /\ UpdatesChain(p, c)
      /\ \A q \in Procs : Deleting(q) => Chain(q) # c
    <2>1. pc[p] \in KeyedCall \ {"find"} /\ ~OnFreeList(p) /\ ~Deleting(p)
        BY <1>2 DEF KeyedCall, OnFreeList, Deleting
    <2>2. Op(p) # "fetch"
        BY <1>2 DEF LockInv, Matched, StoreOnly
    <2>3. /\ c \in Chains /\ c \in Heads
          /\ \A q \in Procs : Deleting(q) => Chain(q) # c
        BY <1>a, <2>1, <2>2, AloneOnChain
    <2> QED BY <1>a, <2>1, <2>2, <2>3, DbAssumption DEF Heads, UpdatesChain, OnChain
<1>4. /\ BeingDeleted' = BeingDeleted /\ Unlinking' = Unlinking
      /\ \A q \in Procs : Deleting(q)' <=> Deleting(q)
      /\ \A q \in Procs : Deleting(q) => db'[q] = db[q]
    <2>1. \A q \in Procs : /\ Deleting(q)' <=> Deleting(q)
                           /\ pc'[q] = "d_unlink" <=> pc[q] = "d_unlink"
                           /\ Deleting(q) \/ pc[q] = "d_unlink" => db'[q] = db[q]
        BY <1>1, <1>2 DEF StandStill, Deleting
    <2> QED BY <2>1 DEF BeingDeleted, Unlinking
\* The record is in the hand of p only, under a key of this chain that no
\* record of the chain has.
<1>5. /\ i \in DOMAIN idx /\ i \in Nat \ {0} /\ i \notin Heads
      /\ \A h \in Heads : i \notin Listed(n, w, h)
      /\ InHand(p) = {i} /\ InHand(p)' = {}
      /\ \A q \in Procs : q # p => i \notin InHand(q) /\ InHand(q)' = InHand(q)
    <2>1. InHand(p) = {i} /\ InHand(p)' = {}
        BY <1>a, <1>2 DEF InHand
    <2>2. i \in DOMAIN idx /\ \A h \in Heads : i \notin Listed(n, w, h)
        BY <2>1 DEF Lists, Hands
    <2>3. i \in Nat \ {0}
        BY <2>2, SeqFacts DEF FileInv
    <2>4. \A q \in Procs : q # p => i \notin InHand(q)
        BY <2>1 DEF Lists, Hands
    <2>5. \A q \in Procs : q # p => InHand(q)' = InHand(q)
        BY <1>1 DEF StandStill, InHand
    <2> QED BY <2>1, <2>2, <2>3, <2>4, <2>5, DbAssumption DEF Heads
<1>6. /\ idx[i].key = req[p].key /\ idx[i].ptr = table[c]
      /\ \A k \in Listed(n, w, c) : idx[k].key # idx[i].key
      /\ idx[i].key \in Keys /\ Hash[idx[i].key] = c
    <2>1. Inserts(p, n, w)
        BY DEF Lists, Place
    <2>2. /\ idx[i].key = req[p].key /\ idx[i].ptr = table[c]
          /\ \A k \in Listed(n, w, c) : idx[k].key # idx[i].key
        BY <1>a, <1>2, <2>1 DEF Inserts, Missing
    <2>3. req[p].key \in Keys /\ Hash[req[p].key] = c
        <3>1. req[p] \in Requests /\ Op(p) = "store"
            BY <1>2 DEF LockInv, Matched, InCall, KeyedCall, StoreOnly
        <3>2. req[p].key \in Keys
            <4>1. req[p] \in [op : {"fetch", "delete"}, key : Keys]
                             \cup [op : {"store"}, key : Keys, data : Data,
                                   flag : {"INSERT", "REPLACE", "STORE"}]
                             \cup [op : {"nextrec", "rewind"}]
                BY <3>1, DbAssumption
            <4> QED BY <3>1, <4>1 DEF Op
        <3> QED BY <1>a, <3>2 DEF Chain
    <2> QED BY <2>2, <2>3
<1>7. /\ DOMAIN idx' = DOMAIN idx /\ Places' = Places /\ idx' = idx
      /\ ReadPtr(c)' = i
      /\ \A l \in Places : l # c => ReadPtr(l)' = ReadPtr(l)
      /\ \A h \in Heads : h # c => table'[h] = table[h]
      /\ table'[c] = i /\ c \in Places
    BY <1>2, <1>3, WrittenPtr DEF Places
<1>8. \A l \in Places : l # c => ChainPtr(l)' = ChainPtr(l)
    <2> TAKE l \in Places
    <2> HAVE l # c
    <2>1. CASE \A q \in Procs : ~Deleting(q)
        <3>1. ChainPtr(l) = ReadPtr(l)
            BY <2>1, PtrsAre DEF PtrsKnown
        <3>2. ChainPtr(l)' = ReadPtr(l)'
            BY <1>4, <2>1, SoundPtrs DEF PtrsKnown
        <3> QED BY <1>7, <3>1, <3>2
    <2>2. CASE \E q \in Procs : Deleting(q)
        <3>1. PICK q \in Procs : Deleting(q)
            BY <2>2
        <3>2. ChainPtr(l) = IF l = db[q].off THEN db[q].ptrval ELSE ReadPtr(l)
            BY <3>1, PtrsAre DEF PtrsKnown
        <3>3. ChainPtr(l)' = IF l = db'[q].off THEN db'[q].ptrval ELSE ReadPtr(l)'
            BY <1>4, <3>1, SoundPtrs DEF PtrsKnown
        <3> QED BY <1>4, <1>7, <3>1, <3>2, <3>3
    <2> QED BY <2>1, <2>2
<1>9. \A y : y \notin BeingDeleted => ChainPtr(y) = ReadPtr(y) /\ ChainPtr(y)' = ReadPtr(y)'
    BY <1>4 DEF ChainPtr
<1>10. /\ Listed(n, w, c) \cap BeingDeleted = {}
       /\ i \notin BeingDeleted /\ c \notin BeingDeleted
    <2>1. Listed(n, w, c) \cap BeingDeleted = {}
        BY <1>3, ChainPtrsOf
    <2>2. \A k \in BeingDeleted : k \in Nat /\ \E h \in Heads : k \in Listed(n, w, h)
        <3> SUFFICES ASSUME NEW q \in Procs, Deleting(q)
                     PROVE  /\ db[q].off \in Nat
                            /\ \E h \in Heads : db[q].off \in Listed(n, w, h)
            BY DEF BeingDeleted
        <3>1. Chain(q) \in Heads /\ db[q].off \in Listed(n, w, Chain(q))
            BY DeletedListed DEF Deleting, DeleteOrStore
        <3>2. db[q].off \in Nat
            BY DEF FileInv, FileTypes, DBs
        <3> QED BY <3>1, <3>2
    <2>3. c \notin Nat
        BY <1>3, DbAssumption DEF Heads
    <2> QED BY <1>5, <2>1, <2>2, <2>3
<1>11. \A h \in Heads : /\ n[h] \in Nat /\ w[h][0] = h
                        /\ \A k \in 0..n[h] : w[h][k] \in Places
                        /\ \A k \in 1..n[h] : w[h][k] \in Listed(n, w, h) /\ w[h][k] \notin Heads
                        /\ \A k \in 0..n[h] : k = 0 \/ k \in 1..n[h]
    <2> TAKE h \in Heads
    <2>1. n[h] \in Nat
        BY ListFacts
    <2>2. \A k \in 0..n[h] : k = 0 \/ k \in 1..n[h]
        BY <2>1
    <2> QED BY <2>2, ListFacts
<1>12. /\ Walk(Links(c), c, n[c] + 1, v)'
       /\ Members(n[c] + 1, v) = {i} \cup Listed(n, w, c)
    <2> DEFINE P == Links(c)
               Q == Links(c)'
    <2>1. Walk(P, c, n[c], w[c])
        BY <1>3 DEF Lists
    <2>2. /\ DOMAIN P = Places /\ DOMAIN Q = Places
          /\ \A l \in Places : P[l] = ChainPtr(l)
          /\ \A l \in Places : Q[l] = ChainPtr(l)'
        BY <1>3, <1>7 DEF Links, ChainPtrs
    <2>3. i \in Places /\ i # c
        BY <1>3, <1>5 DEF Places
    <2>4. \A k \in 0..n[c] : w[c][k] # i
        BY <1>3, <1>5, <1>11
    <2>5. Q[c] = i
        BY <1>7, <1>9, <1>10, <2>2
    <2>6. Q[i] = P[c]
        <3>1. ReadPtr(i)' = table[c] /\ ReadPtr(c) = table[c]
            BY <1>3, <1>5, <1>6, <1>7 DEF ReadPtr
        <3> QED BY <1>7, <1>9, <1>10, <2>2, <2>3, <3>1
    <2>7. \A k \in 1..n[c] : Q[w[c][k]] = P[w[c][k]]
        <3>1. \A k \in 1..n[c] : w[c][k] \in Places /\ w[c][k] # c /\ k \in 0..n[c]
            BY <1>3, <1>11
        <3> QED BY <1>8, <2>2, <3>1
    <2> HIDE DEF P, Q
    <2>8. Walk(Q, c, n[c] + 1, v) /\ Members(n[c] + 1, v) = {i} \cup Members(n[c], w[c])
        BY <2>1, <2>2, <2>3, <2>4, <2>5, <2>6, <2>7, <1>b, WalkPushed
    <2> QED BY <2>8 DEF Q, Listed, Walk
<1>13. /\ Listed(nn, ww, c) = {i} \cup Listed(n, w, c)
       /\ \A h \in Heads : h # c => /\ nn[h] = n[h] /\ ww[h] = w[h]
                                    /\ Listed(nn, ww, h) = Listed(n, w, h)
       /\ nn[c] = n[c] + 1 /\ ww[c] = v
    <2>1. /\ nn[c] = n[c] + 1 /\ ww[c] = v
          /\ \A h \in Heads : h # c => nn[h] = n[h] /\ ww[h] = w[h]
        BY <1>3, <1>b DEF Relisted, Rewalked
    <2> QED BY <1>12, <2>1 DEF Listed
<1>14. nn \in [Heads -> Nat]
    BY <1>b, <1>11 DEF Relisted
<1>15. \A h \in Heads : Walk(Links(h), h, nn[h], ww[h])'
    <2> TAKE h \in Heads
    <2>1. CASE h = c
        BY <1>12, <1>13, <2>1
    <2>2. CASE h # c
        <3>1. \A k \in 0..n[h] : w[h][k] \in Places /\ w[h][k] # c
            BY <1>3, <1>11, <2>2
        <3>2. \A k \in 0..n[h] : /\ ChainPtr(w[h][k])' = ChainPtr(w[h][k])
                                 /\ ReadPtr(w[h][k])' = ReadPtr(w[h][k])
            BY <1>7, <1>8, <3>1
        <3>3. Walk(Links(h), h, n[h], w[h])'
            BY <1>7, <3>2, StillWalks
        <3> QED BY <1>13, <2>2, <3>3
    <2> QED BY <2>1, <2>2
<1>16. /\ \A h \in Heads : Listed(nn, ww, h)' = Listed(nn, ww, h)
       /\ \A h \in Heads : Listed(nn, ww, h) \subseteq Listed(n, w, h) \cup {i}
       /\ \A h \in Heads : Listed(nn, ww, h) \subseteq DOMAIN idx
    BY <1>5, <1>13 DEF Listed, Lists
<1>17. Keyed(nn, ww)'
    BY <1>3, <1>4, <1>6, <1>7, <1>13, <1>16 DEF Lists, Keyed
<1>18. FreeBlank(nn, ww)'
    BY <1>3, <1>7, <1>13, <1>16 DEF Lists, FreeBlank
<1>19. Apart(nn, ww)'
    <2> SUFFICES ASSUME NEW g \in Heads, NEW h \in Heads, g # h,
                        NEW k, k \in Listed(nn, ww, g), k \in Listed(nn, ww, h)
                 PROVE  k \in Unlinking /\ F \in {g, h}
        BY <1>4, <1>16 DEF Apart
    <2>1. Apart(n, w)
        BY DEF Lists
    <2>2. k # i
        BY <1>5, <1>13
    <2>3. k \in Listed(n, w, g) /\ k \in Listed(n, w, h)
        BY <1>16, <2>2
    <2> QED BY <2>1, <2>3 DEF Apart
<1>20. Hands(nn, ww)'
    <2> SUFFICES ASSUME NEW q \in Procs, q # p, NEW k \in InHand(q)
                 PROVE  /\ k \in DOMAIN idx
                        /\ \A h \in Heads : k \notin Listed(nn, ww, h)
                        /\ \A r \in Procs : r # q /\ r # p => k \notin InHand(r)
        BY <1>5, <1>7, <1>16 DEF Hands
    <2>1. Hands(n, w)
        BY DEF Lists
    <2>2. k # i
        BY <1>5
    <2> QED BY <1>16, <2>1, <2>2 DEF Hands
<1>21. Covered(nn, ww)'
    <2>1. (\A q \in Procs : pc'[q] \notin Ended) => \A q \in Procs : pc[q] \notin Ended
        BY <1>1, <1>2 DEF StandStill, Ended
    <2>2. \A h \in Heads : Listed(n, w, h) \subseteq Listed(nn, ww, h)
        BY <1>13
    <2>3. i \in Listed(nn, ww, c)
        BY <1>13
    <2>4. \A q \in Procs : \A k \in InHand(q) : k = i \/ k \in InHand(q)'
        BY <1>5
    <2>5. Covered(n, w)
        BY DEF Lists
    <2> QED BY <1>3, <1>7, <1>16, <2>1, <2>2, <2>3, <2>4, <2>5 DEF Covered
<1>22. KeepsToItsOwn(p, n, w, nn, ww)
    BY <1>3, <1>7, <1>13 DEF KeepsToItsOwn
<1>23. Place(p, nn, ww)'
    BY <1>2, PlaceElsewhere DEF DeleteOrStore, Missing
<1>24. \A q \in Procs : Place(q, nn, ww)'
    <2>1. n \in [Heads -> Nat]
        BY DEF Lists
    <2> QED BY <1>1, <1>22, <1>23, <2>1, OthersPlaced DEF Lists
<1>25. \A h \in Heads : Listed(nn, ww, h)' \subseteq DOMAIN idx'
    BY <1>7, <1>16
<1>26. Lists(nn, ww)'
    BY <1>14, <1>15, <1>17, <1>18, <1>19, <1>20, <1>21, <1>24, <1>25 DEF Lists
<1> QED BY <1>a, <1>13, <1>26 DEF Heads

(***************************************************************************)
(* The invariant, and what it says of the lists in the files.               *)
(***************************************************************************)
LEMMA ListInvInit == LockInv /\ FileInv /\ Init => ListInv
<1> SUFFICES ASSUME LockInv, FileInv, Init
             PROVE  ListInv
    OBVIOUS
<1> DEFINE n == [h \in Heads |-> 0]
           w == [h \in Heads |-> [k \in 0..0 |-> h]]
<1>1. /\ table = [h \in Heads |-> 0] /\ DOMAIN idx = {}
      /\ \A p \in Procs : pc[p] = "idle"
    <2>1. idx = << >>
        BY DEF Init
    <2>2. Len(idx) = 0 /\ DOMAIN idx = 1..Len(idx)
        BY <2>1, SeqFacts DEF FileInv
    <2> QED BY <2>2 DEF Init
<1>2. \A p \in Procs : ~Deleting(p) /\ InHand(p) = {} /\ pc[p] \notin Ended
    BY <1>1 DEF Deleting, InHand, Ended
<1>3. \A h \in Heads : n[h] = 0 /\ w[h] = [k \in 0..0 |-> h] /\ w[h][0] = h
    OBVIOUS
<1>4. n \in [Heads -> Nat]
    OBVIOUS
<1> HIDE DEF n, w
<1>5. \A h \in Heads : Listed(n, w, h) = {}
    BY <1>3 DEF Listed, Members
<1>6. ASSUME NEW h \in Heads
      PROVE  Walk(Links(h), h, n[h], w[h])
    <2>1. Places = Heads
        BY <1>1 DEF Places
    <2>2. ChainPtr(h) = 0 /\ ReadPtr(h) = 0
        BY <1>1, <1>2, PtrsAre DEF PtrsKnown, ReadPtr
    <2>3. DOMAIN Links(h) = Heads /\ Links(h)[h] = 0
        BY <2>1, <2>2 DEF Links, ChainPtrs, FreePtrs
    <2>4. \A k \in 0..0 : k = 0 /\ ~(k < 0)
        OBVIOUS
    <2>5. w[h] \in [0..0 -> DOMAIN Links(h)]
        BY <1>3, <2>3
    <2>6. \A k \in 0..0 : Links(h)[w[h][k]] = IF k < 0 THEN w[h][k + 1] ELSE 0
        BY <1>3, <2>3, <2>4
    <2>7. \A j, k \in 0..0 : w[h][j] = w[h][k] => j = k
        BY <2>4
    <2>8. Walk(Links(h), h, 0, w[h])
        BY <1>3, <2>5, <2>6, <2>7 DEF Walk
    <2> QED BY <1>3, <2>8
<1>7. \A p \in Procs : Place(p, n, w)
    BY <1>1 DEF Place, Scans, Deletes, DeleteOrStore, Frees, Deleting, Inserts,
       Missing, HeadRead, FindsFree
<1>8. Keyed(n, w) /\ FreeBlank(n, w) /\ Apart(n, w)
    BY <1>5, DbAssumption DEF Keyed, FreeBlank, Apart, Heads
<1>9. Hands(n, w) /\ Covered(n, w)
    BY <1>1, <1>2 DEF Hands, Covered
<1>10. Lists(n, w)
    BY <1>4, <1>5, <1>6, <1>7, <1>8, <1>9 DEF Lists
<1> QED BY <1>10 DEF ListInv

LEMMA ListInvStep ==
    ASSUME LockInv, LockInv', FileInv, FileInv', ListInv, NoKillDeleting, [Next]_vars
    PROVE  ListInv'
<1>0. PICK n, w : Lists(n, w)
    BY DEF ListInv
<1>1. CASE UNCHANGED vars
    <2>1. /\ table' = table /\ idx' = idx /\ pc' = pc /\ req' = req /\ db' = db
        BY <1>1 DEF vars
    <2>2. /\ BeingDeleted' = BeingDeleted /\ Unlinking' = Unlinking
          /\ \A q \in Procs : InHand(q)' = InHand(q) /\ (Deleting(q)' <=> Deleting(q))
          /\ \A q \in Procs : Op(q)' = Op(q) /\ Chain(q)' = Chain(q)
        BY <2>1 DEF BeingDeleted, Unlinking, Deleting, InHand, Op, Chain
    <2>3. \A l : ReadPtr(l)' = ReadPtr(l) /\ ChainPtr(l)' = ChainPtr(l)
        BY <2>1, <2>2 DEF ReadPtr, ChainPtr, Deleting
    <2>4. \A h \in Heads : Walk(Links(h), h, n[h], w[h])'
        BY <1>0, <2>1, <2>3, StillWalks
    <2>5. \A h \in Heads : Listed(n, w, h)' = Listed(n, w, h)
        BY DEF Listed
    <2>6. FREE_OFF \in Heads /\ \A c \in Chains : c \in Heads
        BY DEF Heads
    <2>7. Keyed(n, w)' /\ FreeBlank(n, w)' /\ Apart(n, w)'
        BY <1>0, <2>1, <2>2, <2>5, <2>6 DEF Lists, Keyed, FreeBlank, Apart
    <2>8. Hands(n, w)' /\ Covered(n, w)'
        BY <1>0, <2>1, <2>2, <2>5 DEF Lists, Hands, Covered
    <2>9. ASSUME NEW q \in Procs
          PROVE  Place(q, n, w)'
        <3>1. Place(q, n, w)
            BY <1>0 DEF Lists
        <3>2. Scans(q, n, w)'
            BY <2>1, <2>2, <3>1 DEF Place, Scans, Stands, After
        <3>3. Deletes(q, n, w)'
            BY <2>1, <2>2, <3>1 DEF Place, Deletes, StandsAt, After
        <3>4. Frees(q)' /\ FindsFree(q, n, w)'
            BY <2>1, <2>2, <3>1 DEF Place, Frees, FindsFree, Stands, StandsAt, After
        <3>5. Inserts(q, n, w)'
            BY <2>1, <2>2, <3>1 DEF Place, Inserts, Listed
        <3> QED BY <3>2, <3>3, <3>4, <3>5 DEF Place
    <2>10. Lists(n, w)'
        BY <1>0, <2>1, <2>4, <2>5, <2>7, <2>8, <2>9 DEF Lists
    <2> QED BY <2>10 DEF ListInv
<1>2. ASSUME NEW p \in Procs, Call(p) \/ Rewind(p) \/ Step(p) \/ Kill(p)
      PROVE  ListInv'
    <2>1. CASE \/ Call(p) \/ Rewind(p) \/ ReadData(p) \/ Overwrite(p) \/ Return(p)
               \/ NextLock(p) \/ NextSkip(p) \/ NextFound(p) \/ NextEOF(p)
               \/ NextData(p) \/ NextDump(p) \/ NextReturn(p) \/ LinkQuit(p) \/ Kill(p)
        BY <1>0, <2>1, LeavesLists DEF ListInv
    <2>2. CASE FindAndLock(p) \/ FindNext(p)
        BY <1>0, <2>2, SearchSteps DEF ListInv
    <2>3. CASE Found(p) \/ NotFound(p) \/ DeleteData(p)
        BY <1>0, <2>3, FoundStep, NotFoundStep, DeleteDataStep DEF ListInv
    <2>4. CASE \/ ReadChainHead(p) \/ ReuseData(p)
               \/ AppendSeekData(p) \/ AppendData(p) \/ AppendSeekIndex(p)
        BY <1>0, <2>4, PrepareSteps DEF ListInv
    <2>5. CASE FreeLock(p) \/ FreeNext(p) \/ FreeFound(p) \/ FreeNone(p)
        BY <1>0, <2>5, FreeScanSteps DEF ListInv
    <2>6. CASE DeleteIndex(p) \/ ReuseIndex(p) \/ AppendIndex(p)
        BY <1>0, <2>6, DeleteIndexStep, WriteRecordSteps DEF ListInv
    <2>7. CASE DeleteFree(p)
        BY <1>0, <2>7, DeleteFreeStep DEF ListInv
    <2>8. CASE DeleteUnlink(p)
        BY <1>0, <2>8, DeleteUnlinkStep DEF ListInv
    <2>9. CASE FreeTake(p)
        BY <1>0, <2>9, FreeTakeStep DEF ListInv
    <2>10. CASE Link(p)
        BY <1>0, <2>10, LinkStep DEF ListInv
    <2> QED BY <1>2, <2>1, <2>2, <2>3, <2>4, <2>5, <2>6, <2>7, <2>8, <2>9, <2>10 DEF Step
<1> QED BY <1>1, <1>2 DEF Next

LEMMA ListInvAlways == ASSUME NoKillDeleting PROVE Spec => []ListInv
<1>1. Init /\ LockInv /\ FileInv => ListInv
    BY ListInvInit
<1>2. ListInv /\ LockInv /\ LockInv' /\ FileInv /\ FileInv' /\ [Next]_vars => ListInv'
    BY ListInvStep
<1> QED BY <1>1, <1>2, LocksHeld, FileInvAlways, PTL DEF Spec

\* The records DbSpec finds by following pointers are those of the walks.
LEMMA RecordsListed ==
    ASSUME FileInv, NEW n, NEW w, Lists(n, w)
    PROVE  /\ \A c \in Chains : ChainRecords(c) = Listed(n, w, c)
           /\ FreeRecords = Listed(n, w, FREE_OFF)
           /\ ListsEnd
<1>1. Len(idx) \in Nat /\ DOMAIN idx = 1..Len(idx)
    BY SeqFacts DEF FileInv
<1>2. ASSUME NEW h \in Heads
      PROVE  LET nth == Nth(Links(h), h)
             IN  {nth[k] : k \in DOMAIN nth} \ {0} = Listed(n, w, h) /\ nth[Len(idx)] = 0
    <2> DEFINE nth == Nth(Links(h), h)
    <2>1. /\ Walk(Links(h), h, n[h], w[h]) /\ n[h] \in Nat
          /\ \A k \in 1..n[h] : w[h][k] \in 1..Len(idx) /\ w[h][k] # 0
        BY <1>1, ListFacts DEF Lists
    <2>2. /\ nth = [k \in 0..Len(idx) |-> IF k < n[h] THEN w[h][k + 1] ELSE 0]
          /\ n[h] <= Len(idx)
        BY <1>1, <2>1, NthIsWalk
    <2> HIDE DEF nth
    <2>3. DOMAIN nth = 0..Len(idx)
        BY <2>2
    <2>4. \A k \in 0..Len(idx) : nth[k] = IF k < n[h] THEN w[h][k + 1] ELSE 0
        BY <2>2
    <2>5. nth[Len(idx)] = 0
        BY <1>1, <2>1, <2>2, <2>4
    <2>6. \A k \in 0..Len(idx) : nth[k] # 0 => nth[k] \in Listed(n, w, h)
        <3> SUFFICES ASSUME NEW k \in 0..Len(idx), nth[k] # 0
                     PROVE  nth[k] \in Listed(n, w, h)
            OBVIOUS
        <3>1. k + 1 \in 1..n[h] /\ nth[k] = w[h][k + 1]
            BY <1>1, <2>1, <2>4
        <3> QED BY <3>1 DEF Listed, Members
    <2>7. \A k \in 1..n[h] : \E j \in 0..Len(idx) : nth[j] = w[h][k]
        <3> SUFFICES ASSUME NEW k \in 1..n[h]
                     PROVE  \E j \in 0..Len(idx) : nth[j] = w[h][k]
            OBVIOUS
        <3>1. k - 1 \in 0..Len(idx) /\ k - 1 < n[h] /\ (k - 1) + 1 = k
            BY <1>1, <2>1, <2>2
        <3> QED BY <2>4, <3>1
    <2>8. {nth[k] : k \in DOMAIN nth} \ {0} = Listed(n, w, h)
        BY <2>1, <2>3, <2>6, <2>7 DEF Listed, Members
    <2> QED BY <2>5, <2>8 DEF nth
<1>3. FREE_OFF \in Heads /\ Links(FREE_OFF) = FreePtrs
    BY DbAssumption DEF Links, Heads
<1>4. \A c \in Chains : c \in Heads /\ Links(c) = ChainPtrs
    BY DEF Links, Heads
<1>5. \A c \in Chains : ChainRecords(c) = Listed(n, w, c) /\ Nth(ChainPtrs, c)[Len(idx)] = 0
    BY <1>2, <1>4 DEF ChainRecords
<1>6. FreeRecords = Listed(n, w, FREE_OFF) /\ Nth(FreePtrs, FREE_OFF)[Len(idx)] = 0
    BY <1>2, <1>3 DEF FreeRecords
<1> QED BY <1>5, <1>6 DEF ListsEnd

\* No hash chain and no free list runs in a circle: the loops of
\* _db_find_and_lock (db.c:290-296) and _db_findfree (db.c:770-776) return.
\* A process that dies between making the record it deletes the head of the
\* free list and unlinking it from its chain (db.c:514) is the one exception.
THEOREM ListsAlwaysEnd == ASSUME NoKillDeleting PROVE Spec => []ListsEnd
<1>1. FileInv /\ ListInv => ListsEnd
    BY RecordsListed DEF ListInv
<1> QED BY <1>1, FileInvAlways, ListInvAlways, PTL

\* A hash chain holds records of its own keys, each key once; a record on the
\* free list is blank and on no chain but the one it is being deleted from:
\* what _db_dodelete, _db_findfree and db_store (db.c:464-525, 753-805 and
\* 638-746) do to the lists of one index file while other processes work on it.
THEOREM ListsStayApart == ASSUME NoKillDeleting PROVE Spec => []ListsDisjoint
<1>1. ASSUME LockInv, FileInv, NEW n, NEW w, Lists(n, w)
      PROVE  ListsDisjoint
    <2>1. /\ \A c \in Chains : ChainRecords(c) = Listed(n, w, c)
          /\ FreeRecords = Listed(n, w, FREE_OFF)
        BY <1>1, RecordsListed
    <2>2. Keyed(n, w) /\ FreeBlank(n, w) /\ Apart(n, w)
        BY <1>1 DEF Lists
    <2>3. Unlinking \subseteq BeingDeleted
        BY DEF Unlinking, BeingDeleted, Deleting
    <2>4. \A c \in Chains : c \in Heads /\ FREE_OFF \in Heads /\ c # FREE_OFF
        BY DbAssumption DEF Heads
    <2>5. \A i \in FreeRecords \ BeingDeleted : \A c \in Chains : i \notin ChainRecords(c)
        BY <2>1, <2>2, <2>3, <2>4 DEF Apart
    <2> QED BY <2>1, <2>2, <2>5 DEF ListsDisjoint, Keyed, FreeBlank
<1>2. LockInv /\ FileInv /\ ListInv => ListsDisjoint
    BY <1>1 DEF ListInv
<1> QED BY <1>2, LocksHeld, FileInvAlways, ListInvAlways, PTL

\* While no process dies, every record of the index file is on a chain, on
\* the free list, or in the hand of one process that is about to link it: a
\* record _db_findfree took off the free list (db.c:770-799) or
\* _db_writeidx appended is linked by db_store (db.c:697) and by nobody else.
THEOREM RecordsAllKept == ASSUME NoKillDeleting PROVE Spec => []NoRecordLost
<1>1. ASSUME FileInv, NEW n, NEW w, Lists(n, w)
      PROVE  NoRecordLost
    <2>1. /\ \A c \in Chains : ChainRecords(c) = Listed(n, w, c)
          /\ FreeRecords = Listed(n, w, FREE_OFF)
        BY <1>1, RecordsListed
    <2>2. Hands(n, w) /\ Covered(n, w) /\ \A h \in Heads : Listed(n, w, h) \subseteq DOMAIN idx
        BY <1>1 DEF Lists
    <2>3. Heads = Chains \cup {FREE_OFF}
        BY DEF Heads
    <2>4. \A p \in Procs : InHand(p) \subseteq DOMAIN idx
        BY <2>2 DEF Hands
    <2>5. \A p, q \in Procs : p # q => InHand(p) \cap InHand(q) = {}
        BY <2>2 DEF Hands
    <2> DEFINE OnChains == UNION {ChainRecords(c) : c \in Chains}
               InHands == UNION {InHand(p) : p \in Procs}
               Kept == OnChains \cup FreeRecords \cup InHands
    <2>6. \A i : i \in Kept <=> \/ \E h \in Heads : i \in Listed(n, w, h)
                                \/ \E p \in Procs : i \in InHand(p)
        <3>1. \A i : i \in Kept <=> \/ \E c \in Chains : i \in ChainRecords(c)
                                    \/ i \in FreeRecords
                                    \/ \E p \in Procs : i \in InHand(p)
            <4>1. \A i : i \in OnChains
                            <=> \E c \in Chains : i \in ChainRecords(c)
                OBVIOUS
            <4>2. \A i : i \in InHands
                            <=> \E p \in Procs : i \in InHand(p)
                OBVIOUS
            <4> HIDE DEF OnChains, InHands
            <4> QED BY <4>1, <4>2
        <3> HIDE DEF Kept
        <3> QED BY <2>1, <2>3, <3>1
    <2>7. \A i \in Kept : i \in DOMAIN idx
        BY <2>2, <2>4, <2>6
    <2>8. (\A p \in Procs : pc[p] \notin Ended) => \A i \in DOMAIN idx : i \in Kept
        BY <2>2, <2>6 DEF Covered
    <2>9. (\A p \in Procs : pc[p] \notin Ended) => DOMAIN idx = Kept
        <3> HIDE DEF Kept
        <3> QED BY <2>7, <2>8
    <2> QED BY <2>5, <2>9 DEF NoRecordLost
<1>2. FileInv /\ ListInv => NoRecordLost
    BY <1>1 DEF ListInv
<1> QED BY <1>2, FileInvAlways, ListInvAlways, PTL
================================================================================
