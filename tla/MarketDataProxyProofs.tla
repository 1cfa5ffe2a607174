------------------------ MODULE MarketDataProxyProofs ------------------------
(***************************************************************************)
(* Proofs about MarketDataProxy for any symbols, clients, limits and        *)
(* failures.                                                                *)
(*                                                                         *)
(* A pool is in order if what it counts on a connection is what it tracks   *)
(* there.  Every method of ConnectionPool keeps that, whatever the broker   *)
(* answers; the server then only has to keep its own tables together.       *)
(***************************************************************************)
EXTENDS MarketDataProxy, FiniteSetTheorems, SequenceTheorems, WellFoundedInduction, TLAPS

USE PoolAssumption, ProxyAssumption DEF PoolAssumption, ProxyAssumption

-----------------------------------------------------------------------------
(* Pools in order                                                          *)

\* The symbols on each connection are finitely many and all counted.
CountsAreRight(p) ==
    \A i \in Connections(p) :
        IsFiniteSet(SymbolsOn(p, i)) /\ p.counts[i] = Cardinality(SymbolsOn(p, i))

\* All modes of a symbol are on one connection, and it is there.
OnePlace(p) ==
    /\ \A k \in Keys : p.tracked[k] \in 0..Len(p.counts)
    /\ \A s \in Symbols : \A m, n \in ModesOf(p, s) : p.tracked[<<s, m>>] = p.tracked[<<s, n>>]

InOrder(p) ==
    /\ p \in Pool /\ Len(p.streams) = Len(p.counts)
    /\ CountsAreRight(p) /\ OnePlace(p)

\* A result of a method: the pool is in order.
Sound(r) == InOrder(r.pool) /\ r.ok \in BOOLEAN /\ r.failed \in Nat

\* A tracked key whose symbol some connection streams in a mode that will do.
Serves(p, k) == p.tracked[k] # 0 /\ \E i \in Connections(p) : p.streams[i][k[1]] >= k[2]

\* Only these fields of a pool matter here.
Same(p, q) == q.tracked = p.tracked /\ q.counts = p.counts

\* Two pools that track and count the same are both in order.
LEMMA SameOrder ==
    ASSUME NEW p, InOrder(p), NEW q \in Pool, Len(q.streams) = Len(q.counts), Same(p, q)
    PROVE  InOrder(q)
<1>1. \A i : SymbolsOn(q, i) = SymbolsOn(p, i)  BY DEF SymbolsOn, Same
<1>2. \A s : ModesOf(q, s) = ModesOf(p, s)  BY DEF ModesOf, Same
<1>3. Connections(q) = Connections(p)  BY DEF Connections, Same
<1> QED BY <1>1, <1>2, <1>3 DEF InOrder, CountsAreRight, OnePlace, Same

\* What a change of a streamed mode leaves alone.
LEMMA StreamIs ==
    ASSUME NEW p \in Pool, Len(p.streams) = Len(p.counts),
           NEW i \in Connections(p), NEW s \in Symbols, NEW mode, mode = 0 \/ mode \in Modes
    PROVE  /\ Stream(p, i, s, mode) \in Pool /\ Same(p, Stream(p, i, s, mode))
           /\ Len(Stream(p, i, s, mode).streams) = Len(p.streams)
           /\ \A j \in Connections(p) : \A t \in Symbols :
                 Stream(p, i, s, mode).streams[j][t] = IF j = i /\ t = s THEN mode ELSE p.streams[j][t]
<1> DEFINE q == Stream(p, i, s, mode)
           F == [Symbols -> Modes \cup {0}]
           e == [p.streams[i] EXCEPT ![s] = mode]
           f == [p.streams EXCEPT ![i] = e]
<1>1. p.streams \in Seq(F) /\ i \in 1..Len(p.streams)  BY DEF Pool, Connections
<1>2. p.streams[i] \in F  BY <1>1, ElementOfSeq
<1>3. e \in F /\ \A t \in Symbols : e[t] = IF t = s THEN mode ELSE p.streams[i][t]  BY <1>2
<1>4. /\ f \in Seq(F) /\ Len(f) = Len(p.streams)
      /\ \A j \in 1..Len(p.streams) : f[j] = IF j = i THEN e ELSE p.streams[j]
  <2> HIDE DEF e, F
  <2> QED BY <1>1, <1>3, ExceptSeq
<1>5. q = [counts |-> p.counts, streams |-> f, tracked |-> p.tracked,
           initialized |-> p.initialized, connected |-> p.connected]
  <2>1. q = [p EXCEPT !.streams = f]  BY DEF Stream
  <2> HIDE DEF f, q
  <2> QED BY <2>1 DEF Pool
<1>6. q \in Pool /\ Same(p, q) /\ Len(q.streams) = Len(p.streams)
  <2> HIDE DEF f
  <2> QED BY <1>4, <1>5 DEF Pool, Same
<1>7. ASSUME NEW j \in Connections(p), NEW t \in Symbols
      PROVE q.streams[j][t] = IF j = i /\ t = s THEN mode ELSE p.streams[j][t]
  <2>1. q.streams[j] = IF j = i THEN e ELSE p.streams[j]
    <3> HIDE DEF e, f
    <3> QED BY <1>4, <1>5 DEF Connections
  <2> QED BY <2>1, <1>3
<1> QED BY <1>6, <1>7

\* What tracking a key changes.
LEMMA TrackIs ==
    ASSUME NEW p \in Pool, NEW k \in Keys, NEW i \in Nat
    PROVE  /\ Track(p, k, i) \in Pool
           /\ Track(p, k, i).counts = p.counts /\ Track(p, k, i).streams = p.streams
           /\ \A j \in Keys : Track(p, k, i).tracked[j] = IF j = k THEN i ELSE p.tracked[j]
<1> DEFINE t == [p.tracked EXCEPT ![k] = i]
<1>1. Track(p, k, i) = [counts |-> p.counts, streams |-> p.streams, tracked |-> t,
                        initialized |-> p.initialized, connected |-> p.connected]
  <2>1. Track(p, k, i) = [p EXCEPT !.tracked = t]  BY DEF Track
  <2> HIDE DEF t
  <2> QED BY <2>1 DEF Pool
<1>2. p.tracked \in [Keys -> Nat]  BY DEF Pool
<1>3. t \in [Keys -> Nat] /\ \A j \in Keys : t[j] = IF j = k THEN i ELSE p.tracked[j]  BY <1>2
<1> HIDE DEF t
<1> QED BY <1>1, <1>3 DEF Pool

\* What counting changes.
LEMMA CountIs ==
    ASSUME NEW p \in Pool, NEW i \in Connections(p), NEW c \in Int, p.counts[i] + c \in Nat
    PROVE  /\ Count(p, i, c) \in Pool /\ Len(Count(p, i, c).counts) = Len(p.counts)
           /\ Count(p, i, c).tracked = p.tracked /\ Count(p, i, c).streams = p.streams
           /\ \A j \in Connections(p) :
                 Count(p, i, c).counts[j] = IF j = i THEN p.counts[i] + c ELSE p.counts[j]
<1> DEFINE e == p.counts[i] + c
           n == [p.counts EXCEPT ![i] = e]
<1>1. p.counts \in Seq(Nat) /\ i \in 1..Len(p.counts) /\ e \in Nat  BY DEF Pool, Connections
<1>2. Count(p, i, c) = [counts |-> n, streams |-> p.streams, tracked |-> p.tracked,
                        initialized |-> p.initialized, connected |-> p.connected]
  <2>1. Count(p, i, c) = [p EXCEPT !.counts = n]  BY DEF Count
  <2> HIDE DEF n
  <2> QED BY <2>1 DEF Pool
<1> HIDE DEF e
<1>3. n \in Seq(Nat) /\ Len(n) = Len(p.counts) /\ \A j \in 1..Len(p.counts) : n[j] = IF j = i THEN e ELSE p.counts[j]
  BY <1>1, ExceptSeq
<1> HIDE DEF n
<1>4. Count(p, i, c) \in Pool /\ Len(Count(p, i, c).counts) = Len(p.counts)
  BY <1>2, <1>3 DEF Pool
<1> QED BY <1>2, <1>3, <1>4 DEF Connections, e

-----------------------------------------------------------------------------
(* What a changed entry of subscription_map means for the connections       *)

\* One entry of the map is different, and one count.
Retracked(p, q, s, m, i) == \A j \in Keys : q.tracked[j] = IF j = <<s, m>> THEN i ELSE p.tracked[j]
Recounted(p, q, i, c) ==
    \A j \in Connections(p) : q.counts[j] = IF j = i THEN p.counts[i] + c ELSE p.counts[j]

\* Connection i, if it is one, is where the modes of the symbol are.
Placed(p, s, i) == i # 0 => \A n \in ModesOf(p, s) : p.tracked[<<s, n>>] = i

\* Only symbol s can have moved: it is on i, and where its other modes are.
Moved(p, q, s, m, i) ==
    /\ \A j : \A t \in Symbols \ {s} : t \in SymbolsOn(q, j) <=> t \in SymbolsOn(p, j)
    /\ \A j : s \in SymbolsOn(q, j) <=> \/ i = j
                                     \/ \E n \in Modes \ {m} : p.tracked[<<s, n>>] = j

\* Streamed in this mode on connection i, symbol s is on the books there, unless
\* it is silenced, and no other symbol is taken off.
Booked(p, q, i, s, mode) ==
    /\ \A j \in Connections(p) : \A t \in Symbols :
          (j # i \/ t # s) /\ t \in SymbolsOn(p, j) => t \in SymbolsOn(q, j)
    /\ mode = 0 \/ s \in SymbolsOn(q, i)

\* Tracking one mode of a symbol where its other modes are, or nowhere,
\* keeps a symbol in one place and moves no other symbol.
LEMMA TrackedPlace ==
    ASSUME NEW p, InOrder(p), NEW s \in Symbols, NEW m \in Modes, NEW i \in 0..Len(p.counts),
           NEW q \in Pool, Len(q.counts) = Len(p.counts),
           Retracked(p, q, s, m, i), Placed(p, s, i)
    PROVE  OnePlace(q) /\ Moved(p, q, s, m, i)
<1>1. \A t \in Symbols, n \in Modes : <<t, n>> \in Keys /\ (<<t, n>> = <<s, m>> <=> t = s /\ n = m)
  BY DEF Keys
<1>2. \A t \in Symbols, n \in Modes :
        q.tracked[<<t, n>>] = IF t = s /\ n = m THEN i ELSE p.tracked[<<t, n>>]
  BY <1>1 DEF Retracked
<1>3. \A k \in Keys : q.tracked[k] \in 0..Len(q.counts)
  BY DEF InOrder, OnePlace, Retracked
<1>4. ASSUME NEW t \in Symbols, NEW a \in ModesOf(q, t), NEW b \in ModesOf(q, t)
      PROVE q.tracked[<<t, a>>] = q.tracked[<<t, b>>]
  <2>0. \A c, d \in ModesOf(p, t) : p.tracked[<<t, c>>] = p.tracked[<<t, d>>]
    BY DEF InOrder, OnePlace
  <2>1. CASE t # s
    <3>1. q.tracked[<<t, a>>] = p.tracked[<<t, a>>] /\ q.tracked[<<t, b>>] = p.tracked[<<t, b>>]
      BY <1>2, <2>1 DEF ModesOf
    <3>2. a \in ModesOf(p, t) /\ b \in ModesOf(p, t)  BY <3>1 DEF ModesOf
    <3> QED BY <2>0, <3>1, <3>2
  <2>2. CASE t = s /\ i = 0
    <3>1. q.tracked[<<t, m>>] = 0 /\ a # m /\ b # m  BY <1>2, <2>2 DEF ModesOf
    <3>2. q.tracked[<<t, a>>] = p.tracked[<<t, a>>] /\ q.tracked[<<t, b>>] = p.tracked[<<t, b>>]
      BY <1>2, <3>1 DEF ModesOf
    <3>3. a \in ModesOf(p, t) /\ b \in ModesOf(p, t)  BY <3>2 DEF ModesOf
    <3> QED BY <2>0, <3>2, <3>3
  <2>3. CASE t = s /\ i # 0
    <3>1. \A c \in ModesOf(q, t) : q.tracked[<<t, c>>] = i
      BY <1>2, <2>3 DEF ModesOf, Placed
    <3> QED BY <3>1
  <2> QED BY <2>1, <2>2, <2>3
<1>5. OnePlace(q)  BY <1>3, <1>4 DEF OnePlace
<1>6. \A j : \A t \in Symbols \ {s} : t \in SymbolsOn(q, j) <=> t \in SymbolsOn(p, j)
  BY <1>2 DEF SymbolsOn
<1>7. ASSUME NEW j PROVE s \in SymbolsOn(q, j) <=> \/ i = j
                                            \/ \E n \in Modes \ {m} : p.tracked[<<s, n>>] = j
  BY <1>2 DEF SymbolsOn
<1> QED BY <1>5, <1>6, <1>7 DEF Moved

\* A symbol without modes is on no connection.
LEMMA NotTracked ==
    ASSUME NEW p, InOrder(p), NEW s \in Symbols, ModesOf(p, s) = {}
    PROVE  \A n \in Modes : p.tracked[<<s, n>>] = 0
<1>1. \A n \in Modes : p.tracked[<<s, n>>] \in Nat
  BY DEF InOrder, Pool, Keys
<1> QED BY <1>1 DEF ModesOf

\* A new symbol on connection i, counted there, leaves the pool in order.
LEMMA AddedSymbol ==
    ASSUME NEW p, InOrder(p), NEW s \in Symbols, NEW m \in Modes, NEW i \in Connections(p),
           ModesOf(p, s) = {}, NEW q \in Pool, Len(q.counts) = Len(p.counts), Len(q.streams) = Len(q.counts),
           Retracked(p, q, s, m, i), Recounted(p, q, i, 1)
    PROVE  InOrder(q) /\ Booked(p, q, i, s, m)
<1>1. i \in 0..Len(p.counts) /\ i # 0 /\ Len(p.counts) \in Nat
  BY LenProperties DEF InOrder, Pool, Connections
<1>2. \A n \in Modes : p.tracked[<<s, n>>] = 0
  BY NotTracked
<1>3. /\ OnePlace(q)
      /\ \A j : \A t \in Symbols \ {s} : t \in SymbolsOn(q, j) <=> t \in SymbolsOn(p, j)
      /\ \A j : s \in SymbolsOn(q, j) <=> \/ i = j
                                       \/ \E n \in Modes \ {m} : p.tracked[<<s, n>>] = j
  <2>1. Placed(p, s, i)  BY DEF Placed
  <2>2. OnePlace(q) /\ Moved(p, q, s, m, i)  BY <1>1, <2>1, TrackedPlace
  <2> QED BY <2>2 DEF Moved
<1>4. \A j : SymbolsOn(q, j) \subseteq Symbols /\ SymbolsOn(p, j) \subseteq Symbols
  BY DEF SymbolsOn
<1>5. \A j \in Connections(p) : j # 0 /\ s \notin SymbolsOn(p, j)
  <2>1. \A j \in Connections(p) : j # 0  BY <1>1 DEF Connections
  <2> QED BY <1>2, <2>1 DEF SymbolsOn
<1>6. SymbolsOn(q, i) = SymbolsOn(p, i) \cup {s}
  BY <1>3, <1>4
<1>7. \A j \in Connections(p) \ {i} : SymbolsOn(q, j) = SymbolsOn(p, j)
  <2> SUFFICES ASSUME NEW j \in Connections(p) \ {i} PROVE SymbolsOn(q, j) = SymbolsOn(p, j)
    OBVIOUS
  <2>1. s \notin SymbolsOn(q, j) /\ s \notin SymbolsOn(p, j)  BY <1>2, <1>3, <1>5
  <2>2. \A t \in Symbols \ {s} : t \in SymbolsOn(q, j) <=> t \in SymbolsOn(p, j)  BY <1>3
  <2>3. \A t : t \in SymbolsOn(q, j) <=> t \in SymbolsOn(p, j)
    BY <1>4, <2>1, <2>2
  <2> QED BY <2>3
<1>8. ASSUME NEW j \in Connections(q) PROVE IsFiniteSet(SymbolsOn(q, j)) /\ q.counts[j] = Cardinality(SymbolsOn(q, j))
  <2>1. j \in Connections(p)  BY DEF Connections
  <2>2. IsFiniteSet(SymbolsOn(p, j)) /\ p.counts[j] = Cardinality(SymbolsOn(p, j))
    BY <2>1 DEF InOrder, CountsAreRight
  <2>3. CASE j = i
    <3>1. q.counts[j] = Cardinality(SymbolsOn(p, j)) + 1  BY <2>1, <2>2, <2>3 DEF Recounted
    <3>2. s \notin SymbolsOn(p, j) /\ SymbolsOn(q, j) = SymbolsOn(p, j) \cup {s}  BY <2>3, <1>5, <1>6
    <3> QED BY <2>2, <3>1, <3>2, FS_AddElement
  <2>4. CASE j # i
    BY <2>1, <2>2, <2>4, <1>7 DEF Recounted
  <2> QED BY <2>3, <2>4
<1>9. Booked(p, q, i, s, m)  BY <1>6, <1>7 DEF Booked
<1> QED BY <1>3, <1>8, <1>9 DEF InOrder, CountsAreRight

\* A mode more, or one of several less, moves no symbol.
LEMMA SameSymbols ==
    ASSUME NEW p, InOrder(p), NEW s \in Symbols, NEW m \in Modes, NEW i \in 0..Len(p.counts),
           NEW n \in ModesOf(p, s) \ {m}, i \in {0, p.tracked[<<s, n>>]},
           NEW q \in Pool, q.counts = p.counts, Len(q.streams) = Len(q.counts),
           Retracked(p, q, s, m, i)
    PROVE  /\ InOrder(q)
           /\ \A j \in Connections(p) : SymbolsOn(q, j) = SymbolsOn(p, j)
<1> DEFINE place == p.tracked[<<s, n>>]
<1>1. /\ place # 0 /\ n \in Modes /\ n # m
      /\ \A l \in ModesOf(p, s) : p.tracked[<<s, l>>] = place
  BY DEF InOrder, OnePlace, ModesOf
<1>2. Placed(p, s, i)
  BY <1>1 DEF Placed
<1>3. /\ OnePlace(q)
      /\ \A j : \A t \in Symbols \ {s} : t \in SymbolsOn(q, j) <=> t \in SymbolsOn(p, j)
      /\ \A j : s \in SymbolsOn(q, j) <=> \/ i = j
                                       \/ \E l \in Modes \ {m} : p.tracked[<<s, l>>] = j
  <2>1. Len(q.counts) = Len(p.counts)  OBVIOUS
  <2>2. OnePlace(q) /\ Moved(p, q, s, m, i)  BY <1>2, <2>1, TrackedPlace
  <2> QED BY <2>2 DEF Moved
<1>4. Len(p.counts) \in Nat
  BY LenProperties DEF InOrder, Pool
<1>5. ASSUME NEW j \in Connections(p) PROVE SymbolsOn(q, j) = SymbolsOn(p, j)
  <2>1. j # 0  BY <1>4 DEF Connections
  <2>2. s \in SymbolsOn(p, j) <=> j = place
    BY <1>1, <2>1 DEF SymbolsOn, ModesOf
  <2>3. s \in SymbolsOn(q, j) <=> j = place
    <3>1. \A l \in Modes \ {m} : p.tracked[<<s, l>>] = j => j = place  BY <1>1, <2>1 DEF ModesOf
    <3>2. i = j => j = place  BY <2>1
    <3>3. j = place => n \in Modes \ {m} /\ p.tracked[<<s, n>>] = j  BY <1>1
    <3> QED BY <1>3, <3>1, <3>2, <3>3
  <2>4. \A t \in Symbols \ {s} : t \in SymbolsOn(q, j) <=> t \in SymbolsOn(p, j)  BY <1>3
  <2>5. SymbolsOn(q, j) \subseteq Symbols /\ SymbolsOn(p, j) \subseteq Symbols  BY DEF SymbolsOn
  <2>6. \A t : t \in SymbolsOn(q, j) <=> t \in SymbolsOn(p, j)
    BY <2>2, <2>3, <2>4, <2>5
  <2> QED BY <2>6
<1>6. Connections(q) = Connections(p)  BY DEF Connections
<1> QED BY <1>3, <1>5, <1>6 DEF InOrder, CountsAreRight

\* The last mode of a symbol takes it off its connection.
LEMMA RemovedSymbol ==
    ASSUME NEW p, InOrder(p), NEW s \in Symbols, NEW m \in Modes, NEW i \in Connections(p),
           p.tracked[<<s, m>>] = i, \A l \in Modes \ {m} : p.tracked[<<s, l>>] = 0,
           NEW q \in Pool, Len(q.counts) = Len(p.counts), Len(q.streams) = Len(q.counts),
           Retracked(p, q, s, m, 0), Recounted(p, q, i, -1)
    PROVE  InOrder(q) /\ Booked(p, q, i, s, 0)
<1>1. Len(p.counts) \in Nat /\ 0 \in 0..Len(p.counts)
  BY LenProperties DEF InOrder, Pool
<1>2. /\ OnePlace(q)
      /\ \A j : \A t \in Symbols \ {s} : t \in SymbolsOn(q, j) <=> t \in SymbolsOn(p, j)
      /\ \A j : s \in SymbolsOn(q, j) <=> \/ 0 = j
                                       \/ \E l \in Modes \ {m} : p.tracked[<<s, l>>] = j
  <2>1. Placed(p, s, 0)  BY DEF Placed
  <2>2. OnePlace(q) /\ Moved(p, q, s, m, 0)  BY <1>1, <2>1, TrackedPlace
  <2> QED BY <2>2 DEF Moved
<1>3. \A l \in Modes \ {m} : p.tracked[<<s, l>>] = 0
  OBVIOUS
<1>4. ASSUME NEW j \in Connections(p)
      PROVE /\ s \notin SymbolsOn(q, j) /\ (s \in SymbolsOn(p, j) <=> j = i)
            /\ \A t : t \in SymbolsOn(q, j) <=> t \in SymbolsOn(p, j) /\ t # s
  <2>1. j # 0  BY <1>1 DEF Connections
  <2>2. s \notin SymbolsOn(q, j)  BY <1>2, <1>3, <2>1
  <2>3. s \in SymbolsOn(p, j) <=> j = i  BY <1>3, <2>1 DEF SymbolsOn
  <2>4. \A t \in Symbols \ {s} : t \in SymbolsOn(q, j) <=> t \in SymbolsOn(p, j)  BY <1>2
  <2>5. SymbolsOn(q, j) \subseteq Symbols /\ SymbolsOn(p, j) \subseteq Symbols  BY DEF SymbolsOn
  <2> QED BY <2>2, <2>3, <2>4, <2>5
<1>5. SymbolsOn(q, i) = SymbolsOn(p, i) \ {s}  BY <1>4
<1>6. ASSUME NEW j \in Connections(p) \ {i} PROVE SymbolsOn(q, j) = SymbolsOn(p, j)
  <2>1. \A t : t \in SymbolsOn(q, j) <=> t \in SymbolsOn(p, j)  BY <1>4
  <2> QED BY <2>1
<1>7. ASSUME NEW j \in Connections(q) PROVE IsFiniteSet(SymbolsOn(q, j)) /\ q.counts[j] = Cardinality(SymbolsOn(q, j))
  <2>1. j \in Connections(p)  BY DEF Connections
  <2>2. IsFiniteSet(SymbolsOn(p, j)) /\ p.counts[j] = Cardinality(SymbolsOn(p, j))
    BY <2>1 DEF InOrder, CountsAreRight
  <2>3. CASE j = i
    <3>1. IsFiniteSet(SymbolsOn(q, j)) /\ Cardinality(SymbolsOn(q, j)) = Cardinality(SymbolsOn(p, j)) - 1
      BY <2>1, <2>2, <2>3, <1>4, <1>5, FS_RemoveElement
    <3>2. Cardinality(SymbolsOn(p, j)) \in Nat  BY <2>2, FS_CardinalityType
    <3> QED BY <2>1, <2>2, <2>3, <3>1, <3>2 DEF Recounted
  <2>4. CASE j # i
    BY <2>1, <2>2, <2>4, <1>6 DEF Recounted
  <2> QED BY <2>3, <2>4
<1>8. Booked(p, q, i, s, 0)  BY <1>4, <1>6 DEF Booked
<1> QED BY <1>2, <1>7, <1>8 DEF InOrder, CountsAreRight

\* A pool whose map is empty and whose counts are zero.
LEMMA EmptyPool ==
    ASSUME NEW q \in Pool, Len(q.streams) = Len(q.counts),
           \A k \in Keys : q.tracked[k] = 0, \A j \in Connections(q) : q.counts[j] = 0
    PROVE  InOrder(q)
<1>1. Len(q.counts) \in Nat  BY LenProperties DEF Pool
<1>2. ASSUME NEW j \in Connections(q) PROVE SymbolsOn(q, j) = {}
  <2>1. j # 0  BY <1>1 DEF Connections
  <2> QED BY <2>1 DEF SymbolsOn, Keys
<1>3. CountsAreRight(q)  BY <1>2, FS_EmptySet DEF CountsAreRight
<1>4. OnePlace(q)  BY <1>1 DEF OnePlace, ModesOf, Keys
<1> QED BY <1>3, <1>4 DEF InOrder

\* A pool that has not been opened is in order and streams nothing.
LEMMA NewPoolInOrder == InOrder(NewPool) /\ Orphans(NewPool) = {}
<1>1. <<>> \in Seq(Nat) /\ <<>> \in Seq([Symbols -> Modes \cup {0}]) /\ Len(<<>>) = 0
  BY EmptySeq
<1>2. NewPool \in Pool  BY <1>1 DEF NewPool, Pool
<1>3. NewPool.counts = <<>> /\ NewPool.streams = <<>> /\ \A k \in Keys : NewPool.tracked[k] = 0
  BY DEF NewPool
<1>4. Connections(NewPool) = {}  BY <1>1, <1>3 DEF Connections
<1>5. InOrder(NewPool)  BY <1>2, <1>3, <1>4, EmptyPool
<1> QED BY <1>4, <1>5 DEF Orphans

\* A new connection carries nothing.
LEMMA WithConnectionIs ==
    ASSUME NEW p, InOrder(p)
    PROVE  /\ InOrder(WithConnection(p)) /\ Orphans(WithConnection(p)) \subseteq Orphans(p)
           /\ WithConnection(p).tracked = p.tracked
           /\ Len(WithConnection(p).counts) = Len(p.counts) + 1
           /\ \A k \in Keys : Serves(p, k) => Serves(WithConnection(p), k)
<1> DEFINE c == Append(p.counts, 0)
           r == Append(p.streams, Silent)
           F == [Symbols -> Modes \cup {0}]
           q == WithConnection(p)
<1>1. p.counts \in Seq(Nat) /\ p.streams \in Seq(F) /\ Silent \in F
      /\ Len(p.streams) = Len(p.counts) /\ p \in Pool
  BY DEF InOrder, Pool, Silent
<1>2. /\ c \in Seq(Nat) /\ Len(c) = Len(p.counts) + 1
      /\ \A i \in 1..Len(p.counts) : c[i] = p.counts[i]
      /\ c[Len(p.counts) + 1] = 0
  BY <1>1, AppendProperties
<1>3. /\ r \in Seq(F) /\ Len(r) = Len(p.streams) + 1
      /\ \A i \in 1..Len(p.streams) : r[i] = p.streams[i]
      /\ r[Len(p.streams) + 1] = Silent
  <2> HIDE DEF F
  <2> QED BY <1>1, AppendProperties
<1>4. q = [counts |-> c, streams |-> r, tracked |-> p.tracked,
           initialized |-> p.initialized, connected |-> p.connected]
  <2>1. q = [p EXCEPT !.counts = c, !.streams = r]  BY DEF WithConnection
  <2> HIDE DEF c, r, q
  <2> QED BY <1>1, <2>1 DEF Pool
<1> HIDE DEF c, r
<1>5. q \in Pool /\ Len(q.streams) = Len(q.counts) /\ q.tracked = p.tracked /\ Len(q.counts) = Len(p.counts) + 1
  BY <1>1, <1>2, <1>3, <1>4 DEF Pool
<1> HIDE DEF q
<1>6. Len(p.counts) \in Nat  BY <1>1, LenProperties
<1>7. \A j : SymbolsOn(q, j) = SymbolsOn(p, j)  BY <1>5 DEF SymbolsOn
<1>8. Connections(q) = Connections(p) \cup {Len(p.counts) + 1} /\ Connections(p) = 1..Len(p.counts)
  BY <1>5, <1>6 DEF Connections
<1>9. SymbolsOn(p, Len(p.counts) + 1) = {}
  <2>1. \A k \in Keys : p.tracked[k] # Len(p.counts) + 1  BY <1>6 DEF InOrder, OnePlace
  <2> QED BY <2>1 DEF SymbolsOn, Keys
<1>10. CountsAreRight(q)
  <2> SUFFICES ASSUME NEW j \in Connections(q)
               PROVE IsFiniteSet(SymbolsOn(q, j)) /\ q.counts[j] = Cardinality(SymbolsOn(q, j))
    BY DEF CountsAreRight
  <2>0. q.counts = c  BY <1>4 DEF q
  <2>1. CASE j \in Connections(p)
    BY <2>0, <2>1, <1>2, <1>7, <1>8 DEF InOrder, CountsAreRight
  <2>2. CASE j = Len(p.counts) + 1
    <3>1. q.counts[j] = 0 /\ SymbolsOn(q, j) = {}  BY <2>0, <2>2, <1>2, <1>7, <1>9
    <3> QED BY <3>1, FS_EmptySet
  <2> QED BY <2>1, <2>2, <1>8
<1>11. OnePlace(q)
  <2>1. \A s : ModesOf(q, s) = ModesOf(p, s)  BY <1>5 DEF ModesOf
  <2>2. \A k \in Keys : q.tracked[k] \in 0..Len(q.counts)  BY <1>5, <1>6 DEF InOrder, OnePlace
  <2> QED BY <2>1, <2>2, <1>5 DEF InOrder, OnePlace
<1>12. Orphans(q) \subseteq Orphans(p)
  <2> SUFFICES ASSUME NEW s \in Symbols, NEW j \in Connections(q), q.streams[j][s] # 0, s \notin SymbolsOn(q, j)
               PROVE  s \in Orphans(p)
    BY DEF Orphans
  <2>1. q.streams = r  BY <1>4 DEF q
  <2>2. j # Len(p.counts) + 1  BY <2>1, <1>1, <1>3 DEF Silent
  <2>3. j \in Connections(p) /\ q.streams[j] = p.streams[j]  BY <2>1, <2>2, <1>1, <1>3, <1>8
  <2> QED BY <2>3, <1>7 DEF Orphans
<1>13. \A k \in Keys : Serves(p, k) => Serves(q, k)
  <2>1. q.streams = r  BY <1>4 DEF q
  <2> QED BY <2>1, <1>1, <1>3, <1>5, <1>8 DEF Serves
<1> QED BY <1>5, <1>10, <1>11, <1>12, <1>13 DEF InOrder, q

-----------------------------------------------------------------------------
(* Choices the code makes                                                  *)

\* A key is a symbol and a mode.
LEMMA KeyParts ==
    ASSUME NEW k \in Keys
    PROVE  k[1] \in Symbols /\ k[2] \in Modes /\ k = <<k[1], k[2]>> /\ k[2] \in 1..3
<1>1. k[1] \in Symbols /\ k[2] \in Modes  BY DEF Keys
<1>2. k = <<k[1], k[2]>>  BY DEF Keys
<1>3. k[2] \in 1..3  BY <1>1
<1> QED BY <1>1, <1>2, <1>3

\* Two keys differ in their symbol or in their mode.
LEMMA KeysDiffer ==
    ASSUME NEW k \in Keys, NEW j \in Keys \ {k}
    PROVE  j[1] # k[1] \/ j[2] # k[2]
BY DEF Keys

\* A nonempty set of natural numbers has a least element: its initial
\* segments are finite sets, ordered by inclusion.
LEMMA Least ==
    ASSUME NEW S, S \subseteq Nat, S # {}
    PROVE  \E i \in S : \A j \in S : i <= j
<1> DEFINE R == StrictSubsetOrdering(Nat)
           U == FiniteSubsetsOf(Nat)
           T == {1..i : i \in S}
<1>1. IsWellFoundedOn(R, U)  BY FS_StrictSubsetOrderingWellFounded
<1>2. T \subseteq U /\ T # {}
  <2>1. \A i \in Nat : 1..i \subseteq Nat /\ IsFiniteSet(1..i)  BY FS_Interval
  <2> QED BY <2>1 DEF FiniteSubsetsOf
<1>3. PICK x \in T : \A y \in T : <<y, x>> \notin R
  <2> HIDE DEF R, U, T
  <2> QED BY <1>1, <1>2, WFMin
<1>4. PICK i \in S : x = 1..i  OBVIOUS
<1>5. ASSUME NEW j \in S PROVE i <= j
  <2>1. <<1..j, 1..i>> \notin R  BY <1>3, <1>4
  <2>2. j < i => 1..j \subseteq 1..i /\ 1..j # 1..i
    <3>1. j < i => i \in 1..i /\ i \notin 1..j  OBVIOUS
    <3>2. j < i => 1..j \subseteq 1..i  OBVIOUS
    <3> QED BY <3>1, <3>2
  <2>3. 1..j \in SUBSET Nat /\ 1..i \in SUBSET Nat  OBVIOUS
  <2>4. ~(1..j \subseteq 1..i /\ 1..j # 1..i)
    BY <2>1, <2>3 DEF StrictSubsetOrdering
  <2> QED BY <2>2, <2>4
<1> QED BY <1>5

\* Where there is room the choice is a connection with room.
LEMMA RoomIsFound ==
    ASSUME NEW p, WithRoom(p) # {}
    PROVE  FirstWithRoom(p) \in Connections(p)
<1>1. WithRoom(p) \subseteq Connections(p)  BY DEF WithRoom
<1>2. WithRoom(p) \subseteq Nat  BY <1>1 DEF Connections
<1>3. \E i \in WithRoom(p) : \A j \in WithRoom(p) : i <= j  BY <1>2, Least
<1> QED BY <1>1, <1>3 DEF FirstWithRoom

\* The highest mode is one of the modes and bounds the others.
LEMMA HighestIs ==
    ASSUME NEW p, NEW s
    PROVE  /\ ModesOf(p, s) = {} <=> Highest(p, s) = 0
           /\ ModesOf(p, s) # {} => Highest(p, s) \in ModesOf(p, s)
           /\ \A n \in ModesOf(p, s) : n <= Highest(p, s)
<1>1. ModesOf(p, s) \subseteq 1..3  BY DEF ModesOf
<1> DEFINE S == ModesOf(p, s)
<1> HIDE DEF S
<1>2. S \subseteq 1..3  BY <1>1 DEF S
<1>3. S # {} => \E m \in S : \A n \in S : n <= m
  <2>1. CASE 3 \in S  BY <1>2, <2>1
  <2>2. CASE 3 \notin S /\ 2 \in S  BY <1>2, <2>2
  <2>3. CASE 3 \notin S /\ 2 \notin S
    <3>1. \A n \in S : n = 1  BY <1>2, <2>3
    <3> QED BY <3>1
  <2> QED BY <2>1, <2>2, <2>3
<1>4. Highest(p, s) = IF S = {} THEN 0 ELSE CHOOSE m \in S : \A n \in S : n <= m
  BY DEF Highest, S
<1>5. /\ S = {} <=> Highest(p, s) = 0
      /\ S # {} => Highest(p, s) \in S
      /\ \A n \in S : n <= Highest(p, s)
  <2> DEFINE top == CHOOSE m \in S : \A n \in S : n <= m
  <2>1. S # {} => top \in S /\ \A n \in S : n <= top  BY <1>3
  <2> HIDE DEF top
  <2>2. Highest(p, s) = IF S = {} THEN 0 ELSE top  BY <1>4 DEF top
  <2>3. CASE S = {}  BY <2>2, <2>3
  <2>4. CASE S # {}
    <3>1. Highest(p, s) = top  BY <2>2, <2>4
    <3>2. top \in S /\ top # 0  BY <1>2, <2>1, <2>4
    <3> QED BY <2>1, <2>4, <3>1, <3>2
  <2> QED BY <2>3, <2>4
<1> QED BY <1>5 DEF S

-----------------------------------------------------------------------------
(* What a changed stream means for orphans and feeds                       *)

\* q streams symbol s in another mode on connection i, nothing else differently.
Retuned(p, q, i, s, mode) ==
    /\ Connections(q) = Connections(p)
    /\ \A j \in Connections(p) : \A t \in Symbols :
          q.streams[j][t] = IF j = i /\ t = s THEN mode ELSE p.streams[j][t]

\* A booked change makes no orphan.
LEMMA NoNewOrphans ==
    ASSUME NEW p, NEW q, NEW i, NEW s, NEW mode, Retuned(p, q, i, s, mode), Booked(p, q, i, s, mode)
    PROVE  Orphans(q) \subseteq Orphans(p)
<1> SUFFICES ASSUME NEW t \in Symbols, NEW j \in Connections(p), q.streams[j][t] # 0, t \notin SymbolsOn(q, j)
             PROVE  p.streams[j][t] # 0 /\ t \notin SymbolsOn(p, j)
  BY DEF Orphans, Retuned
<1>1. ~(j = i /\ t = s)  BY DEF Retuned, Booked
<1> QED BY <1>1 DEF Retuned, Booked

\* A key keeps its feed unless its own symbol gets a mode that will not do.
LEMMA StillServed ==
    ASSUME NEW p, NEW q, NEW i, NEW s, NEW mode, Retuned(p, q, i, s, mode),
           NEW k \in Keys, q.tracked[k] = p.tracked[k], Serves(p, k),
           k[1] = s => mode >= k[2]
    PROVE  Serves(q, k)
<1>1. k[1] \in Symbols  BY KeyParts
<1>2. PICK j \in Connections(p) : p.streams[j][k[1]] >= k[2]  BY DEF Serves
<1>3. q.streams[j][k[1]] >= k[2]  BY <1>1, <1>2 DEF Retuned
<1> QED BY <1>3 DEF Serves, Retuned

-----------------------------------------------------------------------------
(* The methods of the pool                                                 *)

\* A call for key k that did not fail left the other keys and their feeds
\* alone, and no stream that is not on the books.
Calm(p, q, k) ==
    /\ Orphans(q) \subseteq Orphans(p)
    /\ \A j \in Keys \ {k} : q.tracked[j] = p.tracked[j] /\ (Serves(p, j) => Serves(q, j))

\* Nothing happened.
LEMMA RefusedIs ==
    ASSUME NEW p, InOrder(p), NEW ok \in BOOLEAN, NEW failed \in Nat, NEW k
    PROVE  /\ Sound(Result(p, ok, failed)) /\ Calm(p, p, k)
           /\ Result(p, ok, failed).pool = p /\ Result(p, ok, failed).ok = ok
BY DEF Result, Sound, Calm

\* A new symbol on a connection.
LEMMA SubscribeOnIs ==
    ASSUME NEW p, InOrder(p), NEW k \in Keys, ModesOf(p, k[1]) = {}, NEW i \in Connections(p),
           NEW r \in SubscribeOn(p, i, k)
    PROVE  Sound(r) /\ (r.failed = 0 => r.ok /\ Calm(p, r.pool, k))
<1> DEFINE a == Track(p, k, i)
           b == Stream(a, i, k[1], k[2])
           q == Count(b, i, 1)
<1>0. /\ k[1] \in Symbols /\ k[2] \in Modes /\ k[2] \in Modes \cup {0}
      /\ k[2] # 0 /\ p \in Pool /\ Len(p.streams) = Len(p.counts)
  BY KeyParts DEF InOrder
<1>1. /\ i \in Nat /\ i # 0 /\ p.counts[i] \in Nat
  <2>1. p.counts \in Seq(Nat) /\ i \in 1..Len(p.counts)  BY <1>0 DEF Pool, Connections
  <2> QED BY <2>1, ElementOfSeq, LenProperties
<1>2. /\ a \in Pool /\ a.counts = p.counts /\ a.streams = p.streams
      /\ \A j \in Keys : a.tracked[j] = IF j = k THEN i ELSE p.tracked[j]
  BY <1>0, <1>1, TrackIs
<1> HIDE DEF a
<1>3. /\ b \in Pool /\ Same(a, b) /\ Len(b.streams) = Len(a.streams)
      /\ \A j \in Connections(a) : \A t \in Symbols :
            b.streams[j][t] = IF j = i /\ t = k[1] THEN k[2] ELSE a.streams[j][t]
  <2>1. a \in Pool /\ Len(a.streams) = Len(a.counts) /\ i \in Connections(a)
    BY <1>0, <1>2 DEF Connections
  <2>2. k[1] \in Symbols /\ k[2] \in Modes  BY <1>0
  <2> QED BY <2>1, <2>2, StreamIs
<1> HIDE DEF b
<1>4. /\ q \in Pool /\ Len(q.counts) = Len(b.counts) /\ q.tracked = b.tracked /\ q.streams = b.streams
      /\ \A j \in Connections(b) : q.counts[j] = IF j = i THEN b.counts[i] + 1 ELSE b.counts[j]
  BY <1>1, <1>2, <1>3, CountIs DEF Connections, Same
<1> HIDE DEF q
<1>5. /\ Connections(q) = Connections(p) /\ Connections(a) = Connections(p) /\ Connections(b) = Connections(p)
      /\ Len(q.counts) = Len(p.counts) /\ Len(q.streams) = Len(q.counts)
      /\ \A j \in Keys : q.tracked[j] = IF j = k THEN i ELSE p.tracked[j]
      /\ \A j \in Connections(p) : q.counts[j] = IF j = i THEN p.counts[i] + 1 ELSE p.counts[j]
      /\ \A j \in Connections(p) : \A t \in Symbols :
            q.streams[j][t] = IF j = i /\ t = k[1] THEN k[2] ELSE p.streams[j][t]
  BY <1>0, <1>2, <1>3, <1>4 DEF Connections, Same
<1>6. InOrder(q) /\ Booked(p, q, i, k[1], k[2])
  <2>1. k = <<k[1], k[2]>>  BY KeyParts
  <2>2. Retracked(p, q, k[1], k[2], i)  BY <1>5, <2>1 DEF Retracked
  <2>3. Recounted(p, q, i, 1)  BY <1>5 DEF Recounted
  <2>4. q \in Pool /\ Len(q.counts) = Len(p.counts) /\ Len(q.streams) = Len(q.counts)  BY <1>4, <1>5
  <2>5. k[1] \in Symbols /\ k[2] \in Modes  BY <1>0
  <2> QED BY <2>2, <2>3, <2>4, <2>5, AddedSymbol
<1>6a. Retuned(p, q, i, k[1], k[2])  BY <1>5 DEF Retuned
<1>7. Orphans(q) \subseteq Orphans(p)
  BY <1>6, <1>6a, NoNewOrphans
<1>8. ASSUME NEW j \in Keys \ {k}, Serves(p, j) PROVE Serves(q, j)
  <2>1. j[1] # k[1]
    <3>1. p.tracked[<<j[1], j[2]>>] # 0 /\ j[2] \in Modes  BY <1>8, KeyParts DEF Serves
    <3> QED BY <3>1 DEF ModesOf
  <2>2. q.tracked[j] = p.tracked[j]  BY <1>5
  <2> QED BY <1>6a, <1>8, <2>1, <2>2, StillServed
<1>9. Calm(p, q, k)  BY <1>5, <1>7, <1>8 DEF Calm
<1>9a. InOrder(Count(a, i, 1))
  <2> DEFINE d == Count(a, i, 1)
  <2>1. /\ d \in Pool /\ Len(d.counts) = Len(a.counts) /\ d.tracked = a.tracked /\ d.streams = a.streams
        /\ \A j \in Connections(a) : d.counts[j] = IF j = i THEN a.counts[i] + 1 ELSE a.counts[j]
    BY <1>1, <1>2, CountIs DEF Connections
  <2> HIDE DEF d
  <2>2. k = <<k[1], k[2]>>  BY KeyParts
  <2>3. Retracked(p, d, k[1], k[2], i)  BY <1>2, <2>1, <2>2 DEF Retracked
  <2>4. Recounted(p, d, i, 1)  BY <1>2, <1>5, <2>1 DEF Recounted
  <2>5. d \in Pool /\ Len(d.counts) = Len(p.counts) /\ Len(d.streams) = Len(d.counts)
    BY <1>0, <1>2, <2>1
  <2>6. k[1] \in Symbols /\ k[2] \in Modes  BY <1>0
  <2> QED BY <2>3, <2>4, <2>5, <2>6, AddedSymbol DEF d
<1>10. \/ r = Result(q, TRUE, 0) \/ r = Result(Count(a, i, 1), TRUE, 1)
       \/ r = Result(p, FALSE, 1)
  BY DEF SubscribeOn, q, b, a
<1>11. CASE r = Result(q, TRUE, 0)
  BY <1>6, <1>9, <1>11 DEF Result, Sound
<1>12. CASE r = Result(Count(a, i, 1), TRUE, 1)
  BY <1>9a, <1>12 DEF Result, Sound
<1>13. CASE r = Result(p, FALSE, 1)
  BY <1>13 DEF Result, Sound
<1> QED BY <1>10, <1>11, <1>12, <1>13

\* Calm calls one after the other.
LEMMA CalmTwice ==
    ASSUME NEW p, NEW w, NEW q, NEW k, Calm(p, w, k), Calm(w, q, k)
    PROVE  Calm(p, q, k)
BY DEF Calm

\* What a pool that serves the same streams is.
LEMMA SameStreams ==
    ASSUME NEW p, NEW q, q.streams = p.streams, Connections(q) = Connections(p), NEW k,
           \A j \in Keys \ {k} : q.tracked[j] = p.tracked[j],
           \A j \in Connections(p) : SymbolsOn(q, j) = SymbolsOn(p, j)
    PROVE  Calm(p, q, k)
BY DEF Calm, Orphans, Serves

\* A tracked mode is on a connection.
LEMMA PlaceIs ==
    ASSUME NEW p, InOrder(p), NEW s \in Symbols, NEW n \in ModesOf(p, s)
    PROVE  p.tracked[<<s, n>>] \in Connections(p) /\ p.tracked[<<s, n>>] # 0
<1>1. <<s, n>> \in Keys  BY DEF ModesOf, Keys
<1>2. p.tracked[<<s, n>>] \in 0..Len(p.counts) /\ p.tracked[<<s, n>>] # 0
  BY <1>1 DEF InOrder, OnePlace, ModesOf
<1>3. Len(p.counts) \in Nat  BY LenProperties DEF InOrder, Pool
<1> QED BY <1>2, <1>3 DEF Connections

\* A key of a symbol with another mode, taken on or off the books.
LEMMA TrackOnlyIs ==
    ASSUME NEW p, InOrder(p), NEW k \in Keys, NEW n \in ModesOf(p, k[1]) \ {k[2]},
           NEW i, i = 0 \/ i = p.tracked[<<k[1], n>>]
    PROVE  /\ InOrder(Track(p, k, i)) /\ Calm(p, Track(p, k, i), k)
           /\ Track(p, k, i).counts = p.counts /\ Track(p, k, i).streams = p.streams
           /\ \A j \in Keys : Track(p, k, i).tracked[j] = IF j = k THEN i ELSE p.tracked[j]
           /\ \A j \in Connections(p) : SymbolsOn(Track(p, k, i), j) = SymbolsOn(p, j)
<1> DEFINE q == Track(p, k, i)
           s == k[1]
           m == k[2]
<1>1. s \in Symbols /\ m \in Modes /\ k = <<s, m>>  BY KeyParts
<1>2. Len(p.counts) \in Nat /\ p \in Pool /\ Len(p.streams) = Len(p.counts)
  BY LenProperties DEF InOrder, Pool
<1>3. i \in 0..Len(p.counts) /\ i \in Nat
  BY <1>1, <1>2, PlaceIs DEF Connections
<1>4. /\ q \in Pool /\ q.counts = p.counts /\ q.streams = p.streams
      /\ \A j \in Keys : q.tracked[j] = IF j = k THEN i ELSE p.tracked[j]
  BY <1>2, <1>3, TrackIs
<1> HIDE DEF q
<1>5. Retracked(p, q, s, m, i)
  BY <1>1, <1>4 DEF Retracked
<1>6. n \in ModesOf(p, s) \ {m} /\ i \in {0, p.tracked[<<s, n>>]}  OBVIOUS
<1> HIDE DEF s, m
<1>7. InOrder(q) /\ \A j \in Connections(p) : SymbolsOn(q, j) = SymbolsOn(p, j)
  BY <1>1, <1>2, <1>3, <1>4, <1>5, <1>6, SameSymbols
<1>8. Calm(p, q, k)
  <2>1. Connections(q) = Connections(p)  BY <1>4 DEF Connections
  <2> QED BY <2>1, <1>4, <1>7, SameStreams
<1> QED BY <1>4, <1>7, <1>8 DEF q

\* Taking one of several modes of a symbol off the books.
LEMMA UntrackIs ==
    ASSUME NEW p, InOrder(p), NEW k \in Keys, NEW n \in ModesOf(p, k[1]) \ {k[2]}
    PROVE  /\ InOrder(Track(p, k, 0)) /\ Calm(p, Track(p, k, 0), k)
           /\ Track(p, k, 0).counts = p.counts /\ Track(p, k, 0).streams = p.streams
           /\ \A j \in Keys : Track(p, k, 0).tracked[j] = IF j = k THEN 0 ELSE p.tracked[j]
           /\ \A j \in Connections(p) : SymbolsOn(Track(p, k, 0), j) = SymbolsOn(p, j)
<1>1. ASSUME NEW i, i = 0
      PROVE  /\ InOrder(Track(p, k, i)) /\ Calm(p, Track(p, k, i), k)
             /\ Track(p, k, i).counts = p.counts /\ Track(p, k, i).streams = p.streams
             /\ \A j \in Keys : Track(p, k, i).tracked[j] = IF j = k THEN i ELSE p.tracked[j]
             /\ \A j \in Connections(p) : SymbolsOn(Track(p, k, i), j) = SymbolsOn(p, j)
  <2>1. i = 0 \/ i = p.tracked[<<k[1], n>>]  BY <1>1
  <2> QED BY <2>1, TrackOnlyIs
<1> QED BY <1>1

\* A higher mode of a symbol: its connection streams that mode instead.
LEMMA UpgradeIs ==
    ASSUME NEW p, InOrder(p), NEW k \in Keys, NEW n \in ModesOf(p, k[1]),
           \A m \in ModesOf(p, k[1]) : m < k[2],
           NEW i, i = p.tracked[<<k[1], n>>], NEW r \in Upgrade(p, k, i)
    PROVE  Sound(r) /\ (r.failed = 0 => r.ok /\ Calm(p, r.pool, k))
<1> DEFINE a == Track(p, k, i)
           q == Stream(a, i, k[1], k[2])
<1>1. k[1] \in Symbols /\ k[2] \in Modes /\ k[2] \in 1..3  BY KeyParts
<1>2. i \in Connections(p)  BY <1>1, PlaceIs
<1>3. n \in ModesOf(p, k[1]) \ {k[2]}  BY <1>1 DEF ModesOf
<1>4. /\ InOrder(a) /\ a.counts = p.counts /\ a.streams = p.streams
      /\ \A j \in Keys : a.tracked[j] = IF j = k THEN i ELSE p.tracked[j]
      /\ \A j \in Connections(p) : SymbolsOn(a, j) = SymbolsOn(p, j)
  BY <1>3, TrackOnlyIs
<1>5. Connections(a) = Connections(p)  BY <1>4 DEF Connections
<1> HIDE DEF a
<1>6. /\ q \in Pool /\ Same(a, q) /\ Len(q.streams) = Len(a.streams)
      /\ \A j \in Connections(a) : \A t \in Symbols :
            q.streams[j][t] = IF j = i /\ t = k[1] THEN k[2] ELSE a.streams[j][t]
  <2>1. a \in Pool /\ Len(a.streams) = Len(a.counts) /\ i \in Connections(a)
    BY <1>2, <1>4, <1>5 DEF InOrder
  <2>2. k[1] \in Symbols /\ k[2] \in Modes  BY <1>1
  <2> QED BY <2>1, <2>2, StreamIs
<1> HIDE DEF q
<1>7. InOrder(q) /\ Connections(q) = Connections(p) /\ \A j : SymbolsOn(q, j) = SymbolsOn(a, j)
  <2>1. Len(q.streams) = Len(q.counts)  BY <1>4, <1>6 DEF Same, InOrder
  <2>2. InOrder(q)  BY <2>1, <1>4, <1>6, SameOrder
  <2> QED BY <2>2, <1>5, <1>6 DEF Same, Connections, SymbolsOn
<1>8. Retuned(p, q, i, k[1], k[2])
  BY <1>4, <1>5, <1>6, <1>7 DEF Retuned
<1>9. Orphans(q) \subseteq Orphans(p)
  <2>1. k[1] \in SymbolsOn(q, i)
    <3>1. k = <<k[1], k[2]>>  BY KeyParts
    <3>2. q.tracked[k] = i  BY <1>4, <1>6 DEF Same
    <3> QED BY <1>1, <3>1, <3>2 DEF SymbolsOn
  <2>2. Booked(p, q, i, k[1], k[2])  BY <2>1, <1>4, <1>7 DEF Booked
  <2> QED BY <1>8, <2>2, NoNewOrphans
<1>10. \A j \in Keys \ {k} : q.tracked[j] = p.tracked[j]  BY <1>4, <1>6 DEF Same
<1>11. ASSUME NEW j \in Keys \ {k}, Serves(p, j) PROVE Serves(q, j)
  <2>1. j[1] = k[1] => k[2] >= j[2]
    <3>1. p.tracked[<<j[1], j[2]>>] # 0 /\ j[2] \in Modes /\ j[2] \in 1..3  BY <1>11, KeyParts DEF Serves
    <3> QED BY <3>1, <1>1 DEF ModesOf
  <2> QED BY <1>8, <1>10, <1>11, <2>1, StillServed
<1>12. Calm(p, q, k)  BY <1>9, <1>10, <1>11 DEF Calm
<1>13. r = Result(q, TRUE, 0) \/ r = Result(a, TRUE, 1) \/ r = Result(p, FALSE, 1)
  BY DEF Upgrade, q, a
<1>14. CASE r = Result(q, TRUE, 0)  BY <1>7, <1>12, <1>14 DEF Result, Sound
<1>15. CASE r = Result(a, TRUE, 1)  BY <1>4, <1>15 DEF Result, Sound
<1>16. CASE r = Result(p, FALSE, 1)  BY <1>16 DEF Result, Sound
<1> QED BY <1>13, <1>14, <1>15, <1>16

\* A symbol not seen yet.
LEMMA SubscribeNewSymbolIs ==
    ASSUME NEW p, InOrder(p), NEW k \in Keys, ModesOf(p, k[1]) = {}, NEW r \in SubscribeNewSymbol(p, k)
    PROVE  Sound(r) /\ (r.failed = 0 => Calm(p, r.pool, k) /\ (r.ok \/ r.pool = p))
<1> DEFINE w == WithConnection(p)
           i == Len(p.counts) + 1
<1>1. CASE WithRoom(p) # {} /\ r \in SubscribeOn(p, FirstWithRoom(p), k)
  BY <1>1, RoomIsFound, SubscribeOnIs
<1>2. CASE r \in SubscribeOn(w, i, k)
  <2>1. /\ InOrder(w) /\ Orphans(w) \subseteq Orphans(p) /\ w.tracked = p.tracked
        /\ Len(w.counts) = i /\ \A j \in Keys : Serves(p, j) => Serves(w, j)
    BY WithConnectionIs
  <2> HIDE DEF w
  <2>2. Len(p.counts) \in Nat  BY LenProperties DEF InOrder, Pool
  <2>3. i \in Connections(w)  BY <2>1, <2>2 DEF Connections
  <2>4. ModesOf(w, k[1]) = {}  BY <2>1 DEF ModesOf
  <2>5. Sound(r) /\ (r.failed = 0 => r.ok /\ Calm(w, r.pool, k))
    <3> HIDE DEF i
    <3> QED BY <1>2, <2>1, <2>3, <2>4, SubscribeOnIs
  <2>6. Calm(p, w, k)  BY <2>1 DEF Calm
  <2> QED BY <2>5, <2>6, CalmTwice
<1>3. CASE \E failed \in {0, 1} : r = Result(p, FALSE, failed)
  <2>1. PICK failed \in {0, 1} : r = Result(p, FALSE, failed)  BY <1>3
  <2>2. Sound(Result(p, FALSE, failed)) /\ Calm(p, p, k) /\ Result(p, FALSE, failed).pool = p
    BY DEF Result, Sound, Calm
  <2> QED BY <2>1, <2>2
<1>4. \/ WithRoom(p) # {} /\ r \in SubscribeOn(p, FirstWithRoom(p), k)
      \/ r \in SubscribeOn(w, i, k)
      \/ \E failed \in {0, 1} : r = Result(p, FALSE, failed)
  BY DEF SubscribeNewSymbol
<1> QED BY <1>1, <1>2, <1>3, <1>4

\* subscribe: whatever the broker answers, the pool stays in order, and if it
\* does not fail only key k is changed, unless it was refused.
LEMMA SubscribeIs ==
    ASSUME NEW p, InOrder(p), NEW k \in Keys, NEW r \in Subscribe(p, k)
    PROVE  /\ Sound(r)
           /\ r.failed = 0 => Calm(p, r.pool, k) /\ (r.ok \/ r.pool = p)
                              /\ (Serves(p, k) => Serves(r.pool, k))
<1> DEFINE n == Highest(p, k[1])
           i == p.tracked[<<k[1], n>>]
<1>1. k[1] \in Symbols /\ k[2] \in Modes /\ k[2] \in 1..3 /\ k = <<k[1], k[2]>>  BY KeyParts
<1>2. /\ ModesOf(p, k[1]) = {} <=> n = 0
      /\ ModesOf(p, k[1]) # {} => n \in ModesOf(p, k[1])
      /\ \A m \in ModesOf(p, k[1]) : m <= n
  BY HighestIs
<1> HIDE DEF n
<1>3. CASE p.tracked[k] # 0
  <2>1. r = Result(p, TRUE, 0)  BY <1>3 DEF Subscribe
  <2>2. Sound(Result(p, TRUE, 0)) /\ Calm(p, p, k) /\ Result(p, TRUE, 0).pool = p /\ Result(p, TRUE, 0).ok
    BY RefusedIs
  <2> QED BY <2>1, <2>2
<1>4. CASE p.tracked[k] = 0 /\ n = 0
  <2>1. r \in SubscribeNewSymbol(p, k)  BY <1>4 DEF Subscribe, n
  <2>2. Sound(r) /\ (r.failed = 0 => Calm(p, r.pool, k) /\ (r.ok \/ r.pool = p))
    BY <1>2, <1>4, <2>1, SubscribeNewSymbolIs
  <2> QED BY <1>4, <2>2 DEF Serves
<1>5. CASE p.tracked[k] = 0 /\ n # 0
  <2>1. n \in ModesOf(p, k[1])  BY <1>2, <1>5
  <2>2. k[2] \notin ModesOf(p, k[1])
    <3>1. p.tracked[<<k[1], k[2]>>] = 0  BY <1>1, <1>5
    <3> QED BY <3>1 DEF ModesOf
  <2>3. CASE k[2] > n
    <3>1. r \in Upgrade(p, k, i)  BY <1>5, <2>3 DEF Subscribe, n
    <3>2. \A m \in ModesOf(p, k[1]) : m < k[2]
      <4>1. \A m \in ModesOf(p, k[1]) : m \in 1..3  BY DEF ModesOf
      <4> QED BY <1>1, <1>2, <2>1, <2>3, <4>1
    <3>3. Sound(r) /\ (r.failed = 0 => r.ok /\ Calm(p, r.pool, k))
      BY <2>1, <3>1, <3>2, UpgradeIs
    <3> QED BY <1>5, <3>3 DEF Serves
  <2>4. CASE ~(k[2] > n)
    <3>1. r = Result(Track(p, k, i), TRUE, 0)  BY <1>5, <2>4 DEF Subscribe, n
    <3>2. InOrder(Track(p, k, i)) /\ Calm(p, Track(p, k, i), k)
      BY <2>1, <2>2, TrackOnlyIs
    <3> QED BY <1>5, <3>1, <3>2 DEF Result, Sound, Serves
  <2> QED BY <2>3, <2>4
<1>6. p.tracked[k] \in Nat  BY DEF InOrder, Pool
<1> QED BY <1>3, <1>4, <1>5, <1>6

\* The last mode of a symbol.
LEMMA UnsubscribeSymbolIs ==
    ASSUME NEW p, InOrder(p), NEW k \in Keys, ModesOf(p, k[1]) = {k[2]},
           NEW i, i = p.tracked[k], NEW r \in UnsubscribeSymbol(p, k, i)
    PROVE  Sound(r) /\ (r.failed = 0 => r.pool.tracked[k] = 0 /\ Calm(p, r.pool, k))
<1> DEFINE a == Track(p, k, 0)
           b == Stream(a, i, k[1], 0)
           q == Count(b, i, -1)
<1>0. k[1] \in Symbols /\ k[2] \in Modes /\ p \in Pool /\ Len(p.streams) = Len(p.counts)
  BY KeyParts DEF InOrder
<1>k. k = <<k[1], k[2]>>  BY KeyParts
<1>1. i \in Connections(p) /\ i = p.tracked[<<k[1], k[2]>>]
  <2>1. i = p.tracked[<<k[1], k[2]>>]  BY <1>k
  <2> QED BY <1>0, <2>1, PlaceIs
<1>2. p.counts[i] + -1 \in Nat
  <2>1. k[1] \in SymbolsOn(p, i)  BY <1>0, <1>1 DEF SymbolsOn
  <2>2. IsFiniteSet(SymbolsOn(p, i)) /\ p.counts[i] = Cardinality(SymbolsOn(p, i))
    BY <1>1 DEF InOrder, CountsAreRight
  <2>3. Cardinality(SymbolsOn(p, i)) \in Nat /\ Cardinality(SymbolsOn(p, i)) # 0
    BY <2>1, <2>2, FS_CardinalityType, FS_EmptySet
  <2> QED BY <2>2, <2>3
<1>3. /\ a \in Pool /\ a.counts = p.counts /\ a.streams = p.streams
      /\ \A j \in Keys : a.tracked[j] = IF j = k THEN 0 ELSE p.tracked[j]
  BY <1>0, TrackIs
<1> HIDE DEF a
<1>4. /\ b \in Pool /\ Same(a, b) /\ Len(b.streams) = Len(a.streams)
      /\ \A j \in Connections(a) : \A t \in Symbols :
            b.streams[j][t] = IF j = i /\ t = k[1] THEN 0 ELSE a.streams[j][t]
  <2>1. a \in Pool /\ Len(a.streams) = Len(a.counts) /\ i \in Connections(a)
    BY <1>0, <1>1, <1>3 DEF Connections
  <2>2. k[1] \in Symbols  BY <1>0
  <2> QED BY <2>1, <2>2, StreamIs
<1> HIDE DEF b
<1>5. /\ q \in Pool /\ Len(q.counts) = Len(b.counts) /\ q.tracked = b.tracked /\ q.streams = b.streams
      /\ \A j \in Connections(b) : q.counts[j] = IF j = i THEN b.counts[i] + -1 ELSE b.counts[j]
  <2>1. i \in Connections(b) /\ b.counts[i] + -1 \in Nat /\ -1 \in Int
    BY <1>1, <1>2, <1>3, <1>4 DEF Connections, Same
  <2> QED BY <1>4, <2>1, CountIs
<1> HIDE DEF q
<1>6. /\ Connections(q) = Connections(p) /\ Connections(a) = Connections(p) /\ Connections(b) = Connections(p)
      /\ Len(q.counts) = Len(p.counts) /\ Len(q.streams) = Len(q.counts)
      /\ \A j \in Keys : q.tracked[j] = IF j = k THEN 0 ELSE p.tracked[j]
      /\ \A j \in Connections(p) : q.counts[j] = IF j = i THEN p.counts[i] + -1 ELSE p.counts[j]
      /\ \A j \in Connections(p) : \A t \in Symbols :
            q.streams[j][t] = IF j = i /\ t = k[1] THEN 0 ELSE p.streams[j][t]
  BY <1>0, <1>3, <1>4, <1>5 DEF Connections, Same
<1>7. InOrder(q) /\ Booked(p, q, i, k[1], 0)
  <2>1. Retracked(p, q, k[1], k[2], 0)  BY <1>6, <1>k DEF Retracked
  <2>2. q \in Pool /\ Len(q.counts) = Len(p.counts) /\ Len(q.streams) = Len(q.counts)
    BY <1>5, <1>6
  <2>3. Recounted(p, q, i, -1)
    BY <1>6 DEF Recounted
  <2>4. k[1] \in Symbols /\ k[2] \in Modes /\ i \in Connections(p) /\ p.tracked[<<k[1], k[2]>>] = i
    BY <1>0, <1>1
  <2>5. \A l \in Modes \ {k[2]} : p.tracked[<<k[1], l>>] = 0
    BY DEF ModesOf
  <2> QED BY <2>1, <2>2, <2>3, <2>4, <2>5, RemovedSymbol
<1>8. Retuned(p, q, i, k[1], 0)  BY <1>6 DEF Retuned
<1>9. Orphans(q) \subseteq Orphans(p)
  BY <1>7, <1>8, NoNewOrphans
<1>10. ASSUME NEW j \in Keys \ {k}, Serves(p, j) PROVE Serves(q, j)
  <2>1. j[1] # k[1]
    <3>1. p.tracked[<<j[1], j[2]>>] # 0 /\ j[2] \in Modes  BY <1>10, KeyParts DEF Serves
    <3>2. j[1] # k[1] \/ j[2] # k[2]  BY KeysDiffer
    <3> QED BY <3>1, <3>2 DEF ModesOf
  <2>2. q.tracked[j] = p.tracked[j]  BY <1>6
  <2> QED BY <1>8, <1>10, <2>1, <2>2, StillServed
<1>11. Calm(p, q, k) /\ q.tracked[k] = 0  BY <1>6, <1>9, <1>10 DEF Calm
<1>12. r = Result(q, TRUE, 0) \/ r = Result(p, FALSE, 1)  BY DEF UnsubscribeSymbol, q, b, a
<1>13. CASE r = Result(q, TRUE, 0)  BY <1>7, <1>11, <1>13 DEF Result, Sound
<1>14. CASE r = Result(p, FALSE, 1)  BY <1>14 DEF Result, Sound
<1> QED BY <1>12, <1>13, <1>14

\* Another mode streamed on a connection changes nothing on the books.
LEMMA RestreamIs ==
    ASSUME NEW p, InOrder(p), NEW i \in Connections(p), NEW s \in Symbols, NEW mode, mode = 0 \/ mode \in Modes
    PROVE  /\ InOrder(Stream(p, i, s, mode)) /\ Same(p, Stream(p, i, s, mode))
           /\ Retuned(p, Stream(p, i, s, mode), i, s, mode)
<1> DEFINE q == Stream(p, i, s, mode)
<1>1. p \in Pool /\ Len(p.streams) = Len(p.counts)  BY DEF InOrder
<1>2. /\ q \in Pool /\ Same(p, q) /\ Len(q.streams) = Len(p.streams)
      /\ \A j \in Connections(p) : \A t \in Symbols :
            q.streams[j][t] = IF j = i /\ t = s THEN mode ELSE p.streams[j][t]
  BY <1>1, StreamIs
<1> HIDE DEF q
<1>3. Len(q.streams) = Len(q.counts) /\ Connections(q) = Connections(p)
  BY <1>1, <1>2 DEF Same, Connections
<1>4. InOrder(q)  BY <1>2, <1>3, SameOrder
<1> QED BY <1>2, <1>3, <1>4 DEF Retuned, q

\* The highest of several modes: the next one is streamed instead, or, if the
\* broker refuses, whatever it left.
LEMMA DowngradeIs ==
    ASSUME NEW p, InOrder(p), NEW k \in Keys, k[2] \in ModesOf(p, k[1]), NEW n \in ModesOf(p, k[1]) \ {k[2]},
           NEW i, i = p.tracked[k], NEW r \in Downgrade(p, k, i)
    PROVE  Sound(r) /\ (r.failed = 0 => r.pool.tracked[k] = 0 /\ Calm(p, r.pool, k))
<1> DEFINE lower == Highest(Track(p, k, 0), k[1])
           silent == Stream(p, i, k[1], 0)
           t(v) == Track(v, k, 0)
           q(v) == Stream(Track(v, k, 0), i, k[1], lower)
           b(v) == Stream(v, i, k[1], k[2])
<1>1. k[1] \in Symbols /\ k[2] \in Modes  BY KeyParts
<1>2. i \in Connections(p) /\ i = p.tracked[<<k[1], n>>]
  <2>1. i = p.tracked[<<k[1], k[2]>>]  BY KeyParts
  <2> QED BY <1>1, <2>1, PlaceIs DEF InOrder, OnePlace
<1>3. /\ lower \in Modes
      /\ \A m \in ModesOf(p, k[1]) \ {k[2]} : m <= lower
  <2> DEFINE a == Track(p, k, 0)
  <2>1. \A j \in Keys : a.tracked[j] = IF j = k THEN 0 ELSE p.tracked[j]  BY UntrackIs
  <2> HIDE DEF a
  <2>2. \A m \in ModesOf(p, k[1]) \ {k[2]} : m \in ModesOf(a, k[1])
    <3> SUFFICES ASSUME NEW m \in ModesOf(p, k[1]) \ {k[2]} PROVE m \in ModesOf(a, k[1])
      OBVIOUS
    <3>1. <<k[1], m>> \in Keys /\ <<k[1], m>> # k  BY <1>1 DEF ModesOf, Keys
    <3> QED BY <2>1, <3>1 DEF ModesOf
  <2>3. ModesOf(a, k[1]) # {} /\ ModesOf(a, k[1]) \subseteq Modes  BY <2>2 DEF ModesOf
  <2>4. Highest(a, k[1]) \in ModesOf(a, k[1]) /\ \A m \in ModesOf(a, k[1]) : m <= Highest(a, k[1])
    BY <2>3, HighestIs
  <2> QED BY <2>2, <2>3, <2>4 DEF a
<1> HIDE DEF lower
<1>4. InOrder(silent) /\ Same(p, silent) /\ Retuned(p, silent, i, k[1], 0)
  BY <1>1, <1>2, RestreamIs
<1> HIDE DEF silent
<1>5. ASSUME NEW v, InOrder(v), Same(p, v), NEW x, Retuned(p, v, i, k[1], x)
      PROVE  /\ InOrder(q(v)) /\ Calm(p, q(v), k) /\ q(v).tracked[k] = 0
             /\ InOrder(t(v)) /\ InOrder(b(v))
  <2> DEFINE a == Track(v, k, 0)
             w == q(v)
  <2>1. /\ n \in ModesOf(v, k[1]) \ {k[2]} /\ Connections(v) = Connections(p)
        /\ \A j : SymbolsOn(v, j) = SymbolsOn(p, j)
    BY <1>5 DEF Same, ModesOf, Connections, SymbolsOn
  <2>2. /\ InOrder(a) /\ a.counts = v.counts /\ a.streams = v.streams
        /\ \A j \in Keys : a.tracked[j] = IF j = k THEN 0 ELSE v.tracked[j]
        /\ \A j \in Connections(v) : SymbolsOn(a, j) = SymbolsOn(v, j)
    BY <1>5, <2>1, UntrackIs
  <2> HIDE DEF a
  <2>3. i \in Connections(a) /\ Connections(a) = Connections(p)  BY <1>2, <2>1, <2>2 DEF Connections
  <2>4. InOrder(w) /\ Same(a, w) /\ Retuned(a, w, i, k[1], lower)
    <3>1. w = Stream(a, i, k[1], lower)  BY DEF a
    <3> QED BY <1>1, <1>3, <2>2, <2>3, <3>1, RestreamIs
  <2> HIDE DEF w
  <2>5. Retuned(p, w, i, k[1], lower)
    BY <1>5, <2>2, <2>3, <2>4 DEF Retuned
  <2>6. /\ \A j \in Keys : w.tracked[j] = IF j = k THEN 0 ELSE p.tracked[j]
        /\ \A j \in Connections(p) : SymbolsOn(w, j) = SymbolsOn(p, j)
    BY <1>5, <2>1, <2>2, <2>4 DEF Same, SymbolsOn
  <2>7. k[1] \in SymbolsOn(w, i)  
    <3>1. k[1] \in SymbolsOn(p, i)  BY <1>1, <1>2 DEF SymbolsOn, ModesOf
    <3> QED BY <1>2, <2>6, <3>1
  <2>8. Booked(p, w, i, k[1], lower)  BY <2>6, <2>7 DEF Booked
  <2>9. Orphans(w) \subseteq Orphans(p)  BY <2>5, <2>8, NoNewOrphans
  <2>10. ASSUME NEW j \in Keys \ {k}, Serves(p, j) PROVE Serves(w, j)
    <3>1. j[1] = k[1] => lower >= j[2]
      <4> HAVE j[1] = k[1]
      <4>1. p.tracked[<<j[1], j[2]>>] # 0 /\ j[2] \in Modes  BY <2>10, KeyParts DEF Serves
      <4>2. j[2] # k[2]  BY KeysDiffer
      <4>3. j[2] \in ModesOf(p, k[1]) \ {k[2]}  BY <4>1, <4>2 DEF ModesOf
      <4>4. j[2] \in 1..3 /\ lower \in 1..3  BY <1>3, <4>1
      <4> QED BY <1>3, <4>3, <4>4
    <3>2. w.tracked[j] = p.tracked[j]  BY <2>6
    <3> QED BY <2>5, <2>10, <3>1, <3>2, StillServed
  <2>11. Calm(p, w, k) /\ w.tracked[k] = 0  BY <2>6, <2>9, <2>10 DEF Calm
  <2>12. InOrder(b(v))  BY <1>1, <1>2, <1>5, <2>1, RestreamIs
  <2> QED BY <2>2, <2>4, <2>11, <2>12 DEF a, w
<1>6. PICK v \in {silent, p}, failed \in {0, 1} :
        \/ r = Result(q(v), TRUE, failed)
        \/ r = Result(t(v), TRUE, failed + 1)
        \/ r = Result(b(v), FALSE, failed + 1)
        \/ r = Result(v, FALSE, failed + 1)
        \/ r = Result(p, FALSE, 1)
  <2> DEFINE stopped == {Result(silent, TRUE, 0), Result(p, TRUE, 1)}
  <2>1. \A x \in stopped : x.pool \in {silent, p} /\ x.failed \in {0, 1}
    BY DEF Result
  <2>2. \/ \E x \in stopped : r = Result(q(x.pool), TRUE, x.failed)
        \/ \E x \in stopped : r = Result(t(x.pool), TRUE, x.failed + 1)
        \/ \E x \in stopped : r = Result(b(x.pool), FALSE, x.failed + 1)
        \/ \E x \in stopped : r = Result(x.pool, FALSE, x.failed + 1)
        \/ r = Result(p, FALSE, 1)
    BY DEF Downgrade, lower, silent
  <2> QED BY <2>1, <2>2
<1>7. InOrder(v) /\ Same(p, v) /\ \E x : Retuned(p, v, i, k[1], x)
  <2>1. Retuned(p, p, i, k[1], p.streams[i][k[1]])  BY DEF Retuned
  <2> QED BY <1>4, <2>1 DEF Same
<1>8. InOrder(q(v)) /\ Calm(p, q(v), k) /\ q(v).tracked[k] = 0 /\ InOrder(t(v)) /\ InOrder(b(v))
  BY <1>5, <1>7
<1> HIDE DEF q, t, b
<1>9. CASE r = Result(q(v), TRUE, failed)  BY <1>8, <1>9 DEF Result, Sound
<1>10. CASE r = Result(b(v), FALSE, failed + 1)  BY <1>8, <1>10 DEF Result, Sound
<1>11. CASE r = Result(v, FALSE, failed + 1)  BY <1>7, <1>11 DEF Result, Sound
<1>12. CASE r = Result(t(v), TRUE, failed + 1)  BY <1>8, <1>12 DEF Result, Sound
<1>13. CASE r = Result(p, FALSE, 1)  BY <1>13 DEF Result, Sound
<1> QED BY <1>6, <1>9, <1>10, <1>11, <1>12, <1>13

\* unsubscribe: the pool stays in order, and if no call fails the key is off
\* the books and the other keys keep their feeds.
LEMMA UnsubscribeIs ==
    ASSUME NEW p, InOrder(p), NEW k \in Keys, NEW r \in Unsubscribe(p, k)
    PROVE  Sound(r) /\ (r.failed = 0 => r.pool.tracked[k] = 0 /\ Calm(p, r.pool, k))
<1> DEFINE i == p.tracked[k]
           remaining == ModesOf(p, k[1]) \ {k[2]}
<1>1. CASE i = 0
  <2>1. r = Result(p, FALSE, 0)  BY <1>1 DEF Unsubscribe
  <2>2. Sound(Result(p, FALSE, 0)) /\ Calm(p, p, k) /\ Result(p, FALSE, 0).pool = p  BY RefusedIs
  <2> QED BY <1>1, <2>1, <2>2
<1>2. ASSUME i # 0 PROVE k[2] \in ModesOf(p, k[1])
  <2>1. k[2] \in Modes /\ k = <<k[1], k[2]>>  BY KeyParts
  <2>2. p.tracked[<<k[1], k[2]>>] # 0  BY <1>2, <2>1
  <2> QED BY <2>1, <2>2 DEF ModesOf
<1>3. CASE i # 0 /\ remaining = {}
  <2>1. r \in UnsubscribeSymbol(p, k, i)  BY <1>3 DEF Unsubscribe
  <2>2. ModesOf(p, k[1]) = {k[2]}  BY <1>2, <1>3
  <2> QED BY <2>1, <2>2, UnsubscribeSymbolIs
<1>4. CASE i # 0 /\ remaining # {}
  <2>1. PICK n \in ModesOf(p, k[1]) \ {k[2]} : TRUE  BY <1>4
  <2>2. CASE r \in Downgrade(p, k, i)  BY <1>2, <1>4, <2>1, <2>2, DowngradeIs
  <2>3. CASE r = Result(Track(p, k, 0), TRUE, 0)
    <3>1. InOrder(Track(p, k, 0)) /\ Calm(p, Track(p, k, 0), k) /\ Track(p, k, 0).tracked[k] = 0
      BY <2>1, UntrackIs
    <3> QED BY <2>3, <3>1 DEF Result, Sound
  <2> QED BY <1>4, <2>2, <2>3 DEF Unsubscribe
<1> QED BY <1>1, <1>3, <1>4

\* Silencing adapters leaves the books alone.
LEMMA SilencedIs ==
    ASSUME NEW p \in Pool, Len(p.streams) = Len(p.counts), NEW deaf
    PROVE  /\ Silenced(p, deaf) \in Pool /\ Same(p, Silenced(p, deaf))
           /\ Len(Silenced(p, deaf).streams) = Len(p.counts)
           /\ \A i \in Connections(p) : i \notin deaf => Silenced(p, deaf).streams[i] = Silent
<1> DEFINE F == [Symbols -> Modes \cup {0}]
           e == [i \in Connections(p) |-> IF i \in deaf THEN p.streams[i] ELSE Silent]
           q == Silenced(p, deaf)
<1>1. Len(p.counts) \in Nat /\ p.streams \in Seq(F)
  BY LenProperties DEF Pool
<1>2. e \in Seq(F) /\ Len(e) = Len(p.counts)
  <2>1. \A i \in Connections(p) : p.streams[i] \in F
    <3> HIDE DEF F
    <3> QED BY <1>1, ElementOfSeq DEF Connections
  <2>2. Silent \in F  BY DEF Silent
  <2>3. e \in [1..Len(p.counts) -> F]
    <3> HIDE DEF F
    <3> QED BY <2>1, <2>2 DEF Connections
  <2> HIDE DEF F, e
  <2> QED BY <1>1, <2>3, SeqDef, LenProperties
<1>3. \A i \in Connections(p) : i \notin deaf => e[i] = Silent  OBVIOUS
<1>4. q = [counts |-> p.counts, streams |-> e, tracked |-> p.tracked,
           initialized |-> p.initialized, connected |-> p.connected]
  <2>1. q = [p EXCEPT !.streams = e]  BY DEF Silenced
  <2> HIDE DEF e, q
  <2> QED BY <2>1 DEF Pool
<1> HIDE DEF e, q
<1>5. q \in Pool /\ Same(p, q)  BY <1>2, <1>4 DEF Pool, Same
<1>6. q.streams = e  BY <1>4
<1> QED BY <1>2, <1>3, <1>5, <1>6 DEF q

\* What forgetting all subscriptions leaves.
LEMMA ClearedIs ==
    ASSUME NEW p \in Pool
    PROVE  /\ Cleared(p) \in Pool
           /\ Len(Cleared(p).counts) = Len(p.counts) /\ Cleared(p).streams = p.streams
           /\ \A k \in Keys : Cleared(p).tracked[k] = 0
           /\ \A i \in Connections(p) : Cleared(p).counts[i] = 0
<1> DEFINE none == [k \in Keys |-> 0]
           zero == [i \in Connections(p) |-> 0]
           q == Cleared(p)
<1>1. Len(p.counts) \in Nat  BY LenProperties DEF Pool
<1>2. zero \in Seq(Nat) /\ Len(zero) = Len(p.counts)
  <2>1. zero \in [1..Len(p.counts) -> Nat]  BY DEF Connections
  <2> QED BY <1>1, <2>1, SeqDef, LenProperties
<1>3. none \in [Keys -> Nat] /\ \A k \in Keys : none[k] = 0  OBVIOUS
<1>4. \A i \in Connections(p) : zero[i] = 0  OBVIOUS
<1>5. q = [counts |-> zero, streams |-> p.streams, tracked |-> none,
           initialized |-> p.initialized, connected |-> p.connected]
  <2>1. q = [p EXCEPT !.tracked = none, !.counts = zero]  BY DEF Cleared, NewPool
  <2> HIDE DEF zero, none, q
  <2> QED BY <2>1 DEF Pool
<1> HIDE DEF zero, none, q
<1>6. q \in Pool  BY <1>2, <1>3, <1>5 DEF Pool
<1> QED BY <1>2, <1>3, <1>4, <1>5, <1>6 DEF q

\* unsubscribe_all empties the books, without an error nothing is streamed;
\* when it raises, the books are as before.
LEMMA UnsubscribeAllIs ==
    ASSUME NEW p, InOrder(p), NEW r \in UnsubscribeAll(p)
    PROVE  /\ Sound(r)
           /\ r.ok => /\ \A k \in Keys : r.pool.tracked[k] = 0
                      /\ r.failed = 0 => Orphans(r.pool) = {}
           /\ ~r.ok => r.failed # 0 /\ r.pool.tracked = p.tracked
<1>1. Len(p.counts) \in Nat /\ p \in Pool /\ Len(p.streams) = Len(p.counts)
  BY LenProperties DEF InOrder, Pool
<1>2. ASSUME NEW deaf \in SUBSET Connections(p), r = Result(Silenced(Cleared(p), deaf), TRUE, Cardinality(deaf))
      PROVE  /\ Sound(r) /\ r.ok = TRUE /\ \A k \in Keys : r.pool.tracked[k] = 0
             /\ r.failed = 0 => Orphans(r.pool) = {}
  <2> DEFINE v == Cleared(p)
             q == Silenced(v, deaf)
  <2>1. /\ v \in Pool /\ Len(v.counts) = Len(p.counts) /\ v.streams = p.streams
        /\ \A k \in Keys : v.tracked[k] = 0
        /\ \A i \in Connections(p) : v.counts[i] = 0
    BY <1>1, ClearedIs
  <2> HIDE DEF v
  <2>2. Connections(v) = Connections(p) /\ Len(v.streams) = Len(v.counts)
    BY <1>1, <2>1 DEF Connections
  <2>3. /\ q \in Pool /\ Same(v, q) /\ Len(q.streams) = Len(v.counts)
        /\ \A i \in Connections(v) : i \notin deaf => q.streams[i] = Silent
    BY <2>1, <2>2, SilencedIs
  <2> HIDE DEF q
  <2>4. /\ Connections(q) = Connections(p) /\ Len(q.streams) = Len(q.counts)
        /\ \A k \in Keys : q.tracked[k] = 0
        /\ \A j \in Connections(q) : q.counts[j] = 0
    BY <2>1, <2>2, <2>3 DEF Same, Connections
  <2>5. InOrder(q)  BY <2>3, <2>4, EmptyPool
  <2>6. IsFiniteSet(deaf)
    <3>1. IsFiniteSet(1..Len(p.counts))  BY <1>1, FS_Interval
    <3> QED BY <3>1, FS_Subset DEF Connections
  <2>7. Cardinality(deaf) \in Nat /\ (Cardinality(deaf) = 0 => deaf = {})
    BY <2>6, FS_CardinalityType, FS_EmptySet
  <2>8. deaf = {} => Orphans(q) = {}
    BY <2>2, <2>3, <2>4 DEF Orphans, Silent
  <2>9. r = Result(q, TRUE, Cardinality(deaf))  BY <1>2 DEF q, v
  <2> QED BY <2>4, <2>5, <2>7, <2>8, <2>9 DEF Result, Sound
<1>3. ASSUME NEW deaf, r = Result(Silenced(p, deaf), FALSE, 1)
      PROVE  Sound(r) /\ r.ok = FALSE /\ r.failed # 0 /\ r.pool.tracked = p.tracked
  <2> DEFINE q == Silenced(p, deaf)
  <2>1. q \in Pool /\ Same(p, q) /\ Len(q.streams) = Len(p.counts)
    BY <1>1, SilencedIs
  <2> HIDE DEF q
  <2>2. Len(q.streams) = Len(q.counts)  BY <2>1 DEF Same
  <2>3. InOrder(q)  BY <2>1, <2>2, SameOrder
  <2>4. r = Result(q, FALSE, 1)  BY <1>3 DEF q
  <2> QED BY <2>1, <2>3, <2>4 DEF Result, Sound, Same
<1>4. \/ \E deaf \in SUBSET Connections(p) : r = Result(Silenced(Cleared(p), deaf), TRUE, Cardinality(deaf))
      \/ \E deaf : r = Result(Silenced(p, deaf), FALSE, 1)
  BY DEF UnsubscribeAll
<1>5. CASE \E deaf \in SUBSET Connections(p) : r = Result(Silenced(Cleared(p), deaf), TRUE, Cardinality(deaf))
  BY <1>2, <1>5
<1>6. CASE \E deaf : r = Result(Silenced(p, deaf), FALSE, 1)
  BY <1>3, <1>6
<1> QED BY <1>4, <1>5, <1>6

\* What logging in may do to a pool: it may forget, and then nothing streams.
Opened(p, q) ==
    /\ InOrder(q) /\ Orphans(q) \subseteq Orphans(p)
    /\ \A k \in Keys : q.tracked[k] = 0 \/ q.tracked[k] = p.tracked[k]

\* Opening one after the other.
LEMMA OpenedTwice ==
    ASSUME NEW p, NEW w, NEW q, Opened(p, w), Opened(w, q)
    PROVE  Opened(p, q)
BY DEF Opened

\* The flags of a pool are not on its books.
LEMMA FlagsAreFree ==
    ASSUME NEW p, InOrder(p),
           NEW q, q.counts = p.counts, q.streams = p.streams, q.tracked = p.tracked, q \in Pool
    PROVE  Opened(p, q)
<1>1. Same(p, q) /\ Len(q.streams) = Len(q.counts) /\ Connections(q) = Connections(p)
  BY DEF Same, InOrder, Connections
<1>2. InOrder(q)  BY <1>1, SameOrder
<1>3. Orphans(q) \subseteq Orphans(p)  BY <1>1 DEF Orphans, SymbolsOn
<1> QED BY <1>2, <1>3 DEF Opened

\* initialize.
LEMMA InitializeIs ==
    ASSUME NEW p, InOrder(p), NEW force \in BOOLEAN, NEW r \in Initialize(p, force)
    PROVE  Opened(p, r.pool) /\ r.ok \in BOOLEAN
<1> DEFINE start == IF force /\ p.initialized THEN NewPool ELSE p
           w == WithConnection(start)
           q == [w EXCEPT !.initialized = TRUE]
<1>1. Opened(p, p)  BY DEF Opened
<1>2. Opened(p, start)
  <2>1. Opened(p, NewPool)  BY NewPoolInOrder DEF Opened, NewPool
  <2> QED BY <1>1, <2>1
<1>3. \/ r = Result(p, TRUE, 0) \/ r = Result(q, TRUE, 0) \/ r = Result(start, FALSE, 1)
  BY DEF Initialize
<1> HIDE DEF start
<1>4. Opened(start, w)
  BY <1>2, WithConnectionIs DEF Opened
<1> HIDE DEF w
<1>5. w \in Pool  BY <1>4 DEF Opened, InOrder
<1>6. /\ q.counts = w.counts /\ q.streams = w.streams /\ q.tracked = w.tracked
      /\ q \in Pool
  BY <1>5 DEF Pool
<1> HIDE DEF q
<1>7. Opened(w, q)  BY <1>4, <1>6, FlagsAreFree DEF Opened
<1>8. Opened(p, q)  BY <1>2, <1>4, <1>7, OpenedTwice
<1>9. CASE r = Result(p, TRUE, 0)  BY <1>1, <1>9 DEF Result
<1>10. CASE r = Result(q, TRUE, 0)  BY <1>8, <1>10 DEF Result
<1>11. CASE r = Result(start, FALSE, 1)  BY <1>2, <1>11 DEF Result
<1> QED BY <1>3, <1>9, <1>10, <1>11

\* connect.
LEMMA ConnectIs ==
    ASSUME NEW p, InOrder(p), NEW r \in Connect(p)
    PROVE  Opened(p, r.pool) /\ r.ok \in BOOLEAN
<1> DEFINE q == [p EXCEPT !.connected = TRUE]
<1>1. Opened(p, p)  BY DEF Opened
<1>2. p \in Pool  BY DEF InOrder
<1>3. /\ q.counts = p.counts /\ q.streams = p.streams /\ q.tracked = p.tracked
      /\ q \in Pool
  BY <1>2 DEF Pool
<1>4. \/ r = Result(p, FALSE, 0) \/ r = Result(p, TRUE, 0)
      \/ r = Result(q, TRUE, 0) \/ r = Result(p, FALSE, 1)
  BY DEF Connect
<1> HIDE DEF q
<1>5. Opened(p, q)  BY <1>3, FlagsAreFree
<1>6. CASE r = Result(p, FALSE, 0)  BY <1>1, <1>6 DEF Result
<1>7. CASE r = Result(p, TRUE, 0)  BY <1>1, <1>7 DEF Result
<1>8. CASE r = Result(q, TRUE, 0)  BY <1>5, <1>8 DEF Result
<1>9. CASE r = Result(p, FALSE, 1)  BY <1>1, <1>9 DEF Result
<1> QED BY <1>4, <1>6, <1>7, <1>8, <1>9

\* Logging in, however often it opens the connections.
LEMMA LoginIs ==
    ASSUME NEW p, InOrder(p), NEW r \in Login(p)
    PROVE  Opened(p, r.pool) /\ r.ok \in BOOLEAN
<1> DEFINE opened   == UNION {Connect(x.pool) : x \in Initialize(p, FALSE)}
           reopened == UNION {Initialize(x.pool, TRUE) : x \in opened}
<1>1. ASSUME NEW x \in opened PROVE Opened(p, x.pool) /\ x.ok \in BOOLEAN
  <2>1. PICK y \in Initialize(p, FALSE) : x \in Connect(y.pool)  OBVIOUS
  <2>2. Opened(p, y.pool)  BY InitializeIs
  <2>3. Opened(y.pool, x.pool) /\ x.ok \in BOOLEAN  BY <2>1, <2>2, ConnectIs DEF Opened
  <2> QED BY <2>2, <2>3, OpenedTwice
<1>2. ASSUME NEW x \in reopened PROVE Opened(p, x.pool) /\ x.ok \in BOOLEAN
  <2>1. PICK y \in opened : x \in Initialize(y.pool, TRUE)  OBVIOUS
  <2>2. Opened(p, y.pool)  BY <1>1
  <2>3. Opened(y.pool, x.pool) /\ x.ok \in BOOLEAN  BY <2>1, <2>2, InitializeIs DEF Opened
  <2> QED BY <2>2, <2>3, OpenedTwice
<1>3. ASSUME NEW y \in reopened, r \in Connect(y.pool) PROVE Opened(p, r.pool) /\ r.ok \in BOOLEAN
  <2>1. Opened(p, y.pool)  BY <1>2
  <2>2. Opened(y.pool, r.pool) /\ r.ok \in BOOLEAN  BY <1>3, <2>1, ConnectIs DEF Opened
  <2> QED BY <2>1, <2>2, OpenedTwice
<1>4. r \in opened \/ r \in reopened \/ \E y \in reopened : r \in Connect(y.pool)
  BY DEF Login
<1> HIDE DEF opened, reopened
<1> QED BY <1>1, <1>2, <1>3, <1>4

-----------------------------------------------------------------------------
(* The server                                                              *)

Tables ==
    /\ online \subseteq Clients
    /\ user \in [Clients -> Users \cup {Nobody}]
    /\ wants \in [Clients -> SUBSET Keys]
    /\ index \in [Keys -> SUBSET Clients]
    /\ live \subseteq Users /\ keeps \subseteq Users
    /\ pools \in [Users -> Pool]
    /\ task \in [kind : {"none", "clear", "leave"}, client : Clients \cup {Nobody}]
    /\ ~Idle => task.client \in Clients
    /\ failures \in 0..MaxFailures

PoolsInOrder == \A u \in Users : InOrder(pools[u])

\* A user without open connections has nothing on the books, and a client
\* that is nobody's wants nothing.
NothingLeft ==
    /\ \A u \in Users \ live : \A k \in Keys : pools[u].tracked[k] = 0
    /\ \A c \in Clients : user[c] = Nobody => wants[c] = {}

ProxyInv == Tables /\ PoolsInOrder /\ IndexMatchesClients /\ NothingLeft

\* A server that has just started.
LEMMA ProxyInvInit == Init => ProxyInv
<1> SUFFICES ASSUME Init PROVE ProxyInv  OBVIOUS
<1>1. NewPool \in Pool /\ InOrder(NewPool) /\ \A k \in Keys : NewPool.tracked[k] = 0
  BY NewPoolInOrder DEF InOrder, NewPool
<1>2. Tables  BY <1>1 DEF Init, Tables, Idle, NoTask
<1>3. PoolsInOrder /\ NothingLeft  BY <1>1 DEF Init, PoolsInOrder, NothingLeft
<1>4. IndexMatchesClients  BY DEF Init, IndexMatchesClients
<1> QED BY <1>2, <1>3, <1>4 DEF ProxyInv

\* One user's pool is exchanged for another that is in order.
LEMMA PoolExchanged ==
    ASSUME Tables, PoolsInOrder, NEW u \in Users, NEW q, InOrder(q), pools' = [pools EXCEPT ![u] = q]
    PROVE  /\ pools' \in [Users -> Pool] /\ PoolsInOrder'
           /\ pools'[u] = q /\ \A v \in Users \ {u} : pools'[v] = pools[v]
<1>1. q \in Pool  BY DEF InOrder
<1>2. pools \in [Users -> Pool]  BY DEF Tables
<1>3. pools'[u] = q /\ \A v \in Users \ {u} : pools'[v] = pools[v]  BY <1>2
<1>4. pools' \in [Users -> Pool]  BY <1>1, <1>2
<1>5. PoolsInOrder'
  <2> SUFFICES ASSUME NEW v \in Users PROVE InOrder(pools'[v])
    BY DEF PoolsInOrder
  <2> QED BY <1>3 DEF PoolsInOrder
<1> QED BY <1>3, <1>4, <1>5

\* A client has been given a key, or one has been taken from it, in both tables.
LEMMA IndexStays ==
    ASSUME Tables, IndexMatchesClients, NEW c \in Clients, NEW k \in Keys,
           \/ /\ wants' = [wants EXCEPT ![c] = @ \cup {k}]
              /\ index' = [index EXCEPT ![k] = @ \cup {c}]
           \/ /\ wants' = [wants EXCEPT ![c] = @ \ {k}]
              /\ index' = [index EXCEPT ![k] = @ \ {c}]
    PROVE  /\ wants' \in [Clients -> SUBSET Keys] /\ index' \in [Keys -> SUBSET Clients]
           /\ IndexMatchesClients'
<1>1. wants \in [Clients -> SUBSET Keys] /\ index \in [Keys -> SUBSET Clients]  BY DEF Tables
<1>2. wants' \in [Clients -> SUBSET Keys] /\ index' \in [Keys -> SUBSET Clients]  BY <1>1
<1>3. ASSUME NEW d \in Clients, NEW j \in Keys PROVE d \in index'[j] <=> j \in wants'[d]
  <2>1. d \in index[j] <=> j \in wants[d]  BY DEF IndexMatchesClients
  <2>2. CASE /\ wants' = [wants EXCEPT ![c] = @ \cup {k}]
             /\ index' = [index EXCEPT ![k] = @ \cup {c}]
    BY <1>1, <2>1, <2>2
  <2>3. CASE /\ wants' = [wants EXCEPT ![c] = @ \ {k}]
             /\ index' = [index EXCEPT ![k] = @ \ {c}]
    BY <1>1, <2>1, <2>3
  <2> QED BY <2>2, <2>3
<1>4. ASSUME NEW j \in Keys PROVE index'[j] = {d \in Clients : j \in wants'[d]}
  BY <1>2, <1>3
<1> QED BY <1>2, <1>4 DEF IndexMatchesClients

\* What a step without a failed call promises: no orphans, no slot for nobody,
\* no feed lost.
OrphansKept == failures' = failures => \A u \in Users : Orphans(pools'[u]) \subseteq Orphans(pools[u])
SlotsKept   == failures' = failures => \A u \in Users : Unwanted(u)' \subseteq Unwanted(u)
FeedsKept   == failures' = failures =>
                 \A c \in Clients, k \in Keys : Fed(c, k) /\ c \in index'[k] => Fed(c, k)'

\* A feed is an open connection that serves a key of the client's.
LEMMA FedIs ==
    ASSUME NEW c, NEW k
    PROVE  /\ Fed(c, k)  <=> c \in index[k] /\ user[c] \in live /\ Serves(pools[user[c]], k)
           /\ Fed(c, k)' <=> c \in index'[k] /\ user'[c] \in live' /\ Serves(pools'[user'[c]], k)
BY DEF Fed, Streaming, Serves

\* A step that leaves the pools, the users and the index alone.
LEMMA QuietStep ==
    ASSUME UNCHANGED <<pools, index, user, live>>
    PROVE  OrphansKept /\ SlotsKept /\ FeedsKept
BY FedIs DEF OrphansKept, SlotsKept, FeedsKept, Unwanted

\* subscribe_client: the key is the client's before anything can be freed.
LEMMA SubscribeClientIs ==
    ASSUME ProxyInv, NEW c \in Clients, NEW k \in Keys, SubscribeClient(c, k)
    PROVE  ProxyInv' /\ OrphansKept /\ SlotsKept /\ FeedsKept
<1> DEFINE u == user[c]
           p == pools[u]
<1>1. PICK r \in Subscribe(p, k) :
        /\ PoolStep(u, r)
        /\ IF r.ok
           THEN /\ wants' = [wants EXCEPT ![c] = @ \cup {k}]
                /\ index' = [index EXCEPT ![k] = @ \cup {c}]
           ELSE UNCHANGED <<wants, index>>
  BY DEF SubscribeClient
<1>2. u \in live /\ UNCHANGED <<online, user, live, keeps, task>>  BY DEF SubscribeClient
<1>3. Tables /\ PoolsInOrder /\ IndexMatchesClients /\ NothingLeft  BY DEF ProxyInv
<1>4. u \in Users /\ InOrder(p)  BY <1>2, <1>3 DEF Tables, PoolsInOrder
<1>5. /\ Sound(r)
      /\ r.failed = 0 => Calm(p, r.pool, k) /\ (r.ok \/ r.pool = p) /\ (Serves(p, k) => Serves(r.pool, k))
  BY <1>4, SubscribeIs
<1>6. /\ pools' \in [Users -> Pool] /\ PoolsInOrder'
      /\ pools'[u] = r.pool /\ \A v \in Users \ {u} : pools'[v] = pools[v]
  BY <1>1, <1>3, <1>4, <1>5, PoolExchanged DEF PoolStep, Sound
<1>7. failures' \in 0..MaxFailures /\ (failures' = failures => r.failed = 0)
  BY <1>1, <1>3, <1>5 DEF PoolStep, Tables, Sound
<1>8. wants' \in [Clients -> SUBSET Keys] /\ index' \in [Keys -> SUBSET Clients] /\ IndexMatchesClients'
  <2>1. CASE r.ok  BY <1>1, <1>3, <2>1, IndexStays
  <2>2. CASE ~r.ok  BY <1>1, <1>3, <2>2 DEF Tables, IndexMatchesClients
  <2> QED BY <2>1, <2>2
<1>9. /\ \A j \in Keys : index[j] \subseteq index'[j]
      /\ \A j \in Keys \ {k} : index'[j] = index[j]
      /\ r.ok => c \in index'[k]
      /\ ~r.ok => index' = index
      /\ \A d \in Clients \ {c} : wants'[d] = wants[d]
  BY <1>1, <1>3 DEF Tables
<1> HIDE DEF p, u
<1>10. Tables'  BY <1>2, <1>3, <1>6, <1>7, <1>8 DEF Tables, Idle, NoTask
<1>11. NothingLeft'
  <2>1. \A v \in Users \ live' : \A j \in Keys : pools'[v].tracked[j] = 0
    BY <1>2, <1>3, <1>6 DEF NothingLeft
  <2>2. \A d \in Clients : user'[d] = Nobody => wants'[d] = {}
    BY <1>2, <1>3, <1>4, <1>9 DEF NothingLeft, u
  <2> QED BY <2>1, <2>2 DEF NothingLeft
<1>12. OrphansKept
  BY <1>5, <1>6, <1>7 DEF OrphansKept, Calm, p
<1>13. SlotsKept
  <2> SUFFICES ASSUME failures' = failures, NEW v \in Users, NEW j \in Keys,
                      pools'[v].tracked[j] # 0, index'[j] = {}
               PROVE  pools[v].tracked[j] # 0 /\ index[j] = {}
    BY DEF SlotsKept, Unwanted
  <2>1. index[j] = {}  BY <1>9
  <2>2. CASE v # u  BY <1>6, <2>1, <2>2
  <2>3. CASE v = u /\ j # k  BY <1>5, <1>6, <1>7, <2>1, <2>3 DEF Calm, p
  <2>4. CASE v = u /\ j = k
    <3>1. ~r.ok  BY <1>9, <2>4
    <3>2. r.pool = p  BY <1>5, <1>7, <3>1
    <3> QED BY <1>6, <2>1, <2>4, <3>2 DEF p
  <2> QED BY <2>2, <2>3, <2>4
<1>14. FeedsKept
  <2> SUFFICES ASSUME failures' = failures, NEW d \in Clients, NEW j \in Keys, Fed(d, j), d \in index'[j]
               PROVE  Fed(d, j)'
    BY DEF FeedsKept
  <2>1. d \in index[j] /\ user[d] \in live /\ Serves(pools[user[d]], j)  BY FedIs
  <2>2. Serves(pools'[user[d]], j)
    <3>1. CASE user[d] # u  BY <1>3, <1>6, <2>1, <3>1 DEF Tables
    <3>2. CASE user[d] = u  BY <1>5, <1>6, <1>7, <2>1, <3>2 DEF Calm, p
    <3> QED BY <3>1, <3>2
  <2> QED BY <1>2, <2>1, <2>2, FedIs
<1> QED BY <1>6, <1>8, <1>10, <1>11, <1>12, <1>13, <1>14 DEF ProxyInv

\* One user: the deployment that this server is written for.
OneUser == \A u, v \in Users : u = v

\* Giving up a key, by request or because the client is gone.
LEMMA ReleaseIs ==
    ASSUME ProxyInv, NEW c \in Clients, NEW k \in Keys, user[c] \in Users, Release(c, k),
           UNCHANGED <<online, user, live, keeps, task>>
    PROVE  ProxyInv' /\ OrphansKept /\ FeedsKept /\ (OneUser => SlotsKept)
<1> DEFINE u == user[c]
           p == pools[u]
<1>1. Tables /\ PoolsInOrder /\ IndexMatchesClients /\ NothingLeft  BY DEF ProxyInv
<1>2. u \in Users /\ InOrder(p)  BY <1>1 DEF PoolsInOrder
<1>3. /\ wants' = [wants EXCEPT ![c] = @ \ {k}]
      /\ index' = [index EXCEPT ![k] = @ \ {c}]
  BY DEF Release
<1>4. wants' \in [Clients -> SUBSET Keys] /\ index' \in [Keys -> SUBSET Clients] /\ IndexMatchesClients'
  BY <1>1, <1>3, IndexStays
<1>5. /\ \A j \in Keys \ {k} : index'[j] = index[j]
      /\ index'[k] = index[k] \ {c}
      /\ \A j \in Keys : index'[j] \subseteq index[j]
      /\ \A d \in Clients : wants'[d] \subseteq wants[d]
  BY <1>1, <1>3 DEF Tables
<1>6. NothingLeft' <=> \A v \in Users \ live : \A j \in Keys : pools'[v].tracked[j] = 0
  BY <1>1, <1>5 DEF NothingLeft
<1>7. CASE LastHolder(c, k) /\ u \in live
  <2>1. PICK r \in Unsubscribe(p, k) : PoolStep(u, r)  BY <1>7 DEF Release
  <2>2. Sound(r) /\ (r.failed = 0 => r.pool.tracked[k] = 0 /\ Calm(p, r.pool, k))
    BY <1>2, UnsubscribeIs
  <2>3. /\ pools' \in [Users -> Pool] /\ PoolsInOrder'
        /\ pools'[u] = r.pool /\ \A v \in Users \ {u} : pools'[v] = pools[v]
    BY <1>1, <1>2, <2>1, <2>2, PoolExchanged DEF PoolStep, Sound
  <2>4. failures' \in 0..MaxFailures /\ (failures' = failures => r.failed = 0)
    BY <1>1, <2>1, <2>2 DEF PoolStep, Tables, Sound
  <2>5. index'[k] = {}  BY <1>5, <1>7 DEF LastHolder
  <2> HIDE DEF p, u
  <2>6. Tables'  BY <1>1, <1>4, <2>3, <2>4 DEF Tables, Idle, NoTask
  <2>7. NothingLeft'  BY <1>1, <1>6, <1>7, <2>3 DEF NothingLeft
  <2>8. OrphansKept  BY <2>2, <2>3, <2>4 DEF OrphansKept, Calm, p
  <2>9. OneUser => SlotsKept
    <3> SUFFICES ASSUME OneUser, failures' = failures, NEW v \in Users, NEW j \in Keys,
                        pools'[v].tracked[j] # 0, index'[j] = {}
                 PROVE  pools[v].tracked[j] # 0 /\ index[j] = {}
      BY DEF SlotsKept, Unwanted
    <3>1. v = u  BY <1>2 DEF OneUser, u
    <3>2. j # k  BY <2>2, <2>3, <2>4, <3>1
    <3> QED BY <1>5, <2>2, <2>3, <2>4, <3>1, <3>2 DEF Calm, p
  <2>10. FeedsKept
    <3> SUFFICES ASSUME failures' = failures, NEW d \in Clients, NEW j \in Keys, Fed(d, j), d \in index'[j]
                 PROVE  Fed(d, j)'
      BY DEF FeedsKept
    <3>1. d \in index[j] /\ user[d] \in live /\ Serves(pools[user[d]], j) /\ j # k  BY <2>5, FedIs
    <3>2. Serves(pools'[user[d]], j)
      <4>1. CASE user[d] # u  BY <1>1, <2>3, <3>1, <4>1 DEF Tables
      <4>2. CASE user[d] = u  BY <2>2, <2>3, <2>4, <3>1, <4>2 DEF Calm, p
      <4> QED BY <4>1, <4>2
    <3> QED BY <3>1, <3>2, FedIs
  <2> QED BY <1>4, <2>3, <2>6, <2>7, <2>8, <2>9, <2>10 DEF ProxyInv
<1>8. CASE ~(LastHolder(c, k) /\ u \in live)
  <2>1. UNCHANGED <<pools, failures>>  BY <1>8 DEF Release
  <2>2. Tables' /\ PoolsInOrder' /\ NothingLeft'
    BY <1>1, <1>4, <1>6, <2>1 DEF Tables, Idle, NoTask, PoolsInOrder, NothingLeft
  <2>3. OrphansKept  BY <2>1 DEF OrphansKept
  <2>4. OneUser => SlotsKept
    <3> SUFFICES ASSUME OneUser, NEW v \in Users, NEW j \in Keys,
                        pools[v].tracked[j] # 0, index'[j] = {}
                 PROVE  index[j] = {}
      BY <2>1 DEF SlotsKept, Unwanted
    <3>1. CASE j # k  BY <1>5, <3>1
    <3>2. CASE j = k
      <4>1. index[k] \subseteq {c}  BY <1>5, <3>2
      <4>2. v = u  BY <1>2 DEF OneUser
      <4>3. u \in live  BY <1>1, <3>2, <4>2 DEF NothingLeft
      <4>4. index[k] # {c}  BY <1>8, <4>3 DEF LastHolder
      <4> QED BY <3>2, <4>1, <4>4
    <3> QED BY <3>1, <3>2
  <2>5. FeedsKept
    <3> SUFFICES ASSUME NEW d \in Clients, NEW j \in Keys, Fed(d, j), d \in index'[j]
                 PROVE  Fed(d, j)'
      BY DEF FeedsKept
    <3> QED BY <2>1, FedIs
  <2> QED BY <1>4, <2>2, <2>3, <2>4, <2>5 DEF ProxyInv
<1> QED BY <1>7, <1>8

\* A login opens what is not open.
LEMMA AuthenticateIs ==
    ASSUME ProxyInv, NEW c \in Clients, NEW u \in Users, Authenticate(c, u)
    PROVE  ProxyInv' /\ OrphansKept /\ SlotsKept /\ (OneUser => FeedsKept)
<1>1. Tables /\ PoolsInOrder /\ IndexMatchesClients /\ NothingLeft  BY DEF ProxyInv
<1>2. /\ UNCHANGED <<online, wants, index, keeps, task, failures>>
      /\ user' \in [Clients -> Users \cup {Nobody}]
      /\ user'[c] = u /\ \A d \in Clients \ {c} : user'[d] = user[d]
  BY <1>1 DEF Authenticate, Tables
<1>3. IndexMatchesClients' /\ \A d \in Clients : user'[d] = Nobody => wants'[d] = {}
  BY <1>1, <1>2 DEF IndexMatchesClients, NothingLeft
<1>4. CASE u \in live
  <2>1. UNCHANGED <<pools, live>>  BY <1>4 DEF Authenticate
  <2>2. ProxyInv'
    <3>1. Tables'  BY <1>1, <1>2, <2>1 DEF Tables, Idle, NoTask
    <3>2. PoolsInOrder' /\ NothingLeft'  BY <1>1, <1>3, <2>1 DEF PoolsInOrder, NothingLeft
    <3> QED BY <1>3, <3>1, <3>2 DEF ProxyInv
  <2>3. OrphansKept /\ SlotsKept  BY <1>2, <2>1 DEF OrphansKept, SlotsKept, Unwanted
  <2>4. OneUser => FeedsKept
    <3> SUFFICES ASSUME OneUser, NEW d \in Clients, NEW j \in Keys, Fed(d, j)
                 PROVE  Fed(d, j)'
      BY DEF FeedsKept
    <3>1. d \in index[j] /\ user[d] \in live /\ Serves(pools[user[d]], j)  BY FedIs
    <3>2. user'[d] = user[d]  BY <1>1, <1>2, <3>1 DEF Tables, OneUser
    <3> QED BY <1>2, <2>1, <3>1, <3>2, FedIs
  <2> QED BY <2>2, <2>3, <2>4
<1>5. CASE u \notin live
  <2>1. PICK r \in Login(pools[u]) :
          /\ pools' = [pools EXCEPT ![u] = r.pool]
          /\ live' = IF r.ok THEN live \cup {u} ELSE live
    BY <1>5 DEF Authenticate
  <2>2. Opened(pools[u], r.pool) /\ r.ok \in BOOLEAN  BY <1>1, LoginIs DEF PoolsInOrder
  <2>3. /\ pools' \in [Users -> Pool] /\ PoolsInOrder'
        /\ pools'[u] = r.pool /\ \A v \in Users \ {u} : pools'[v] = pools[v]
    BY <1>1, <2>1, <2>2, PoolExchanged DEF Opened
  <2>4. live \subseteq live' /\ live' \subseteq live \cup {u}  BY <2>1
  <2>5. ProxyInv'
    <3>1. Tables'  BY <1>1, <1>2, <2>3, <2>4 DEF Tables, Idle, NoTask
    <3>2. \A v \in Users \ live' : \A j \in Keys : pools'[v].tracked[j] = 0
      BY <1>1, <2>2, <2>3, <2>4 DEF NothingLeft, Opened
    <3> QED BY <1>3, <2>3, <3>1, <3>2 DEF ProxyInv, NothingLeft
  <2>6. OrphansKept  BY <2>2, <2>3 DEF OrphansKept, Opened
  <2>7. SlotsKept  BY <1>2, <2>2, <2>3 DEF SlotsKept, Unwanted, Opened
  <2>8. OneUser => FeedsKept
    <3> SUFFICES ASSUME OneUser, NEW d \in Clients, NEW j \in Keys, Fed(d, j) PROVE FALSE
      BY DEF FeedsKept
    <3> QED BY <1>1, <1>5, FedIs DEF Tables, OneUser
  <2> QED BY <2>5, <2>6, <2>7, <2>8
<1> QED BY <1>4, <1>5

\* The last client of a user takes the feeds with it, and only its own.
LEMMA EndCleanupIs ==
    ASSUME ProxyInv, EndCleanup
    PROVE  ProxyInv' /\ OrphansKept /\ SlotsKept /\ FeedsKept
<1> DEFINE c == task.client
           u == user[c]
<1>1. Tables /\ PoolsInOrder /\ IndexMatchesClients /\ NothingLeft  BY DEF ProxyInv
<1>2. c \in Clients /\ wants[c] = {}  BY <1>1 DEF EndCleanup, Done, Tables
<1>3. /\ UNCHANGED <<online, wants, index, keeps>> /\ task' = NoTask
      /\ user' = [user EXCEPT ![c] = Nobody] \/ user' = user
  BY DEF EndCleanup
<1>4. /\ user' \in [Clients -> Users \cup {Nobody}]
      /\ \A d \in Clients \ {c} : user'[d] = user[d]
  BY <1>1, <1>2, <1>3 DEF Tables
<1>5. IndexMatchesClients' /\ \A d \in Clients : user'[d] = Nobody => wants'[d] = {}
  BY <1>1, <1>2, <1>3, <1>4 DEF IndexMatchesClients, NothingLeft
<1>6. NoTask \in [kind : {"none", "clear", "leave"}, client : Clients \cup {Nobody}]  BY DEF NoTask
<1>7. ASSUME NEW d \in Clients, NEW j \in Keys, Fed(d, j)
      PROVE  d # c /\ user[d] \in live /\ Serves(pools[user[d]], j) /\ d \in index[j] /\ user'[d] = user[d]
  <2>1. d \in index[j] /\ user[d] \in live /\ Serves(pools[user[d]], j)  BY <1>7, FedIs
  <2>2. d # c  BY <1>1, <1>2, <2>1 DEF IndexMatchesClients
  <2> QED BY <1>4, <2>1, <2>2
<1>8. CASE UNCHANGED <<live, pools, failures>>
  <2>1. Tables'  BY <1>1, <1>3, <1>4, <1>6, <1>8 DEF Tables, Idle
  <2>2. PoolsInOrder' /\ NothingLeft'  BY <1>1, <1>5, <1>8 DEF PoolsInOrder, NothingLeft
  <2>3. OrphansKept /\ SlotsKept  BY <1>3, <1>8 DEF OrphansKept, SlotsKept, Unwanted
  <2>4. FeedsKept  BY <1>3, <1>7, <1>8, FedIs DEF FeedsKept
  <2> QED BY <1>5, <2>1, <2>2, <2>3, <2>4 DEF ProxyInv
<1>9. ASSUME LastOfUser(c),
             NEW q, InOrder(q), \A j \in Keys : q.tracked[j] = 0,
             pools' = [pools EXCEPT ![u] = q], live \ {u} \subseteq live', live' \subseteq live,
             failures' \in 0..MaxFailures, failures' = failures => Orphans(q) = {}
      PROVE  ProxyInv' /\ OrphansKept /\ SlotsKept /\ FeedsKept
  <2>1. u \in Users  BY <1>1, <1>9 DEF LastOfUser, Tables
  <2>2. /\ pools' \in [Users -> Pool] /\ PoolsInOrder'
        /\ pools'[u] = q /\ \A v \in Users \ {u} : pools'[v] = pools[v]
    BY <1>1, <1>9, <2>1, PoolExchanged
  <2>3. \A d \in Clients \ {c} : user[d] # u  BY <1>9 DEF LastOfUser
  <2> HIDE DEF c, u
  <2>4. Tables'  BY <1>1, <1>3, <1>4, <1>6, <1>9, <2>2 DEF Tables, Idle
  <2>5. \A v \in Users \ live' : \A j \in Keys : pools'[v].tracked[j] = 0
    BY <1>1, <1>9, <2>2 DEF NothingLeft
  <2>6. NothingLeft'  BY <1>5, <2>5 DEF NothingLeft
  <2>7. OrphansKept  BY <1>9, <2>2 DEF OrphansKept
  <2>8. SlotsKept  BY <1>3, <1>9, <2>2 DEF SlotsKept, Unwanted
  <2>9. FeedsKept
    <3> SUFFICES ASSUME NEW d \in Clients, NEW j \in Keys, Fed(d, j) PROVE Fed(d, j)'
      BY DEF FeedsKept
    <3>1. d # c /\ user[d] \in live /\ Serves(pools[user[d]], j) /\ d \in index[j] /\ user'[d] = user[d]
      BY <1>7
    <3>2. user[d] \in Users \ {u}  BY <1>1, <2>3, <3>1 DEF Tables
    <3> QED BY <1>3, <1>9, <2>2, <3>1, <3>2, FedIs
  <2> QED BY <1>5, <2>2, <2>4, <2>6, <2>7, <2>8, <2>9 DEF ProxyInv
<1>10. CASE LastOfUser(c) /\ \E r \in UnsubscribeAll(pools[u]) : PoolStep(u, r) /\ UNCHANGED live
  <2>1. PICK r \in UnsubscribeAll(pools[u]) : PoolStep(u, r)  BY <1>10
  <2>2. u \in Users /\ u \in live /\ InOrder(pools[u])  BY <1>1, <1>10 DEF LastOfUser, Tables, PoolsInOrder
  <2>3. /\ Sound(r)
        /\ r.ok => /\ \A j \in Keys : r.pool.tracked[j] = 0
                   /\ r.failed = 0 => Orphans(r.pool) = {}
        /\ ~r.ok => r.failed # 0
    BY <2>2, UnsubscribeAllIs
  <2>4. failures' \in 0..MaxFailures /\ (failures' = failures => r.failed = 0)
    BY <1>1, <2>1, <2>3 DEF PoolStep, Tables, Sound
  <2>5. pools' = [pools EXCEPT ![u] = r.pool] /\ InOrder(r.pool)  BY <2>1, <2>3 DEF PoolStep, Sound
  <2>6. CASE r.ok
    <3>1. live \ {u} \subseteq live' /\ live' \subseteq live  BY <1>10
    <3> QED BY <1>9, <1>10, <2>3, <2>4, <2>5, <2>6, <3>1
  <2>7. CASE ~r.ok
    <3>1. failures' # failures  BY <2>3, <2>4, <2>7
    <3>2. OrphansKept /\ SlotsKept /\ FeedsKept  BY <3>1 DEF OrphansKept, SlotsKept, FeedsKept
    <3>3. /\ pools' \in [Users -> Pool] /\ PoolsInOrder'
          /\ \A v \in Users \ {u} : pools'[v] = pools[v]
      BY <1>1, <2>2, <2>5, PoolExchanged
    <3> HIDE DEF c, u
    <3>4. Tables'  BY <1>1, <1>3, <1>4, <1>6, <1>10, <2>4, <3>3 DEF Tables, Idle
    <3>5. \A v \in Users \ live' : \A j \in Keys : pools'[v].tracked[j] = 0
      BY <1>1, <1>10, <2>2, <3>3 DEF NothingLeft
    <3>6. NothingLeft'  BY <1>5, <3>5 DEF NothingLeft
    <3> QED BY <1>5, <3>2, <3>3, <3>4, <3>6 DEF ProxyInv
  <2> QED BY <2>6, <2>7
<1>11. CASE /\ LastOfUser(c)
            /\ pools' = [pools EXCEPT ![u] = NewPool]
            /\ live' = live \ {u}
            /\ UNCHANGED failures
  <2>1. InOrder(NewPool) /\ Orphans(NewPool) = {} /\ \A j \in Keys : NewPool.tracked[j] = 0
    BY NewPoolInOrder DEF NewPool
  <2>2. failures' \in 0..MaxFailures  BY <1>1, <1>11 DEF Tables
  <2> QED BY <1>9, <1>11, <2>1, <2>2
<1> QED BY <1>8, <1>10, <1>11 DEF EndCleanup

\* Closing the connections of a user leaves the tables and no stream.
LEMMA InvalidateIs ==
    ASSUME ProxyInv, NEW u \in Users, Invalidate(u)
    PROVE  ProxyInv' /\ OrphansKept /\ SlotsKept
<1>1. Tables /\ PoolsInOrder /\ IndexMatchesClients /\ NothingLeft  BY DEF ProxyInv
<1>2. /\ pools' = [pools EXCEPT ![u] = NewPool] /\ live' = live \ {u}
      /\ UNCHANGED <<online, user, wants, index, keeps, task, failures>>
  BY DEF Invalidate
<1>3. InOrder(NewPool) /\ Orphans(NewPool) = {} /\ \A j \in Keys : NewPool.tracked[j] = 0
  BY NewPoolInOrder DEF NewPool
<1>4. /\ pools' \in [Users -> Pool] /\ PoolsInOrder'
      /\ pools'[u] = NewPool /\ \A v \in Users \ {u} : pools'[v] = pools[v]
  BY <1>1, <1>2, <1>3, PoolExchanged
<1>5. Tables'  BY <1>1, <1>2, <1>4 DEF Tables, Idle, NoTask
<1>6. NothingLeft' /\ IndexMatchesClients'
  BY <1>1, <1>2, <1>3, <1>4 DEF NothingLeft, IndexMatchesClients
<1>7. OrphansKept  BY <1>3, <1>4 DEF OrphansKept
<1>8. SlotsKept  BY <1>2, <1>3, <1>4 DEF SlotsKept, Unwanted
<1> QED BY <1>4, <1>5, <1>6, <1>7, <1>8 DEF ProxyInv

\* Every step keeps the invariant and its promises.
LEMMA ProxyStep ==
    ASSUME ProxyInv, [Next]_vars
    PROVE  /\ ProxyInv' /\ OrphansKept
           /\ OneUser => SlotsKept /\ (FeedsKept \/ \E u \in Users : Invalidate(u))
<1>0. Tables /\ PoolsInOrder /\ IndexMatchesClients /\ NothingLeft  BY DEF ProxyInv
<1>1. ASSUME UNCHANGED <<user, wants, index, live, pools, keeps, failures>>,
             online' \subseteq Clients,
             task' \in [kind : {"none", "clear", "leave"}, client : Clients \cup {Nobody}],
             task' # NoTask => task'.client \in Clients
      PROVE  ProxyInv' /\ OrphansKept /\ SlotsKept /\ FeedsKept
  <2>1. Tables'  BY <1>0, <1>1 DEF Tables, Idle
  <2>2. PoolsInOrder' /\ IndexMatchesClients' /\ NothingLeft'
    BY <1>0, <1>1 DEF PoolsInOrder, IndexMatchesClients, NothingLeft
  <2> QED BY <1>1, <2>1, <2>2, QuietStep DEF ProxyInv
<1>2. ASSUME NEW c \in Clients, Accept(c) PROVE ProxyInv' /\ OrphansKept /\ SlotsKept /\ FeedsKept
  BY <1>0, <1>1, <1>2 DEF Accept, Tables, Idle
<1>3. ASSUME NEW c \in Clients, NEW k \in Keys, UnsubscribeClient(c, k)
      PROVE  ProxyInv' /\ OrphansKept /\ FeedsKept /\ (OneUser => SlotsKept)
  BY <1>0, <1>3, ReleaseIs DEF UnsubscribeClient, Tables
<1>4. ASSUME NEW c \in Clients, BeginUnsubscribeAll(c) \/ BeginCleanup(c)
      PROVE  ProxyInv' /\ OrphansKept /\ SlotsKept /\ FeedsKept
  BY <1>0, <1>1, <1>4 DEF BeginUnsubscribeAll, BeginCleanup, Tables
<1>5. ASSUME NEW k \in Keys, DropSubscription(k)
      PROVE  ProxyInv' /\ OrphansKept /\ FeedsKept /\ (OneUser => SlotsKept)
  <2>1. task.client \in Clients /\ k \in wants[task.client]  BY <1>0, <1>5 DEF DropSubscription, Tables
  <2>2. user[task.client] \in Users  BY <1>0, <2>1 DEF Tables, NothingLeft
  <2> QED BY <1>5, <2>1, <2>2, ReleaseIs DEF DropSubscription
<1>6. ASSUME EndUnsubscribeAll PROVE ProxyInv' /\ OrphansKept /\ SlotsKept /\ FeedsKept
  BY <1>0, <1>1, <1>6 DEF EndUnsubscribeAll, Tables, NoTask
<1>7. ASSUME UNCHANGED vars PROVE ProxyInv' /\ OrphansKept /\ SlotsKept /\ FeedsKept
  BY <1>0, <1>1, <1>7 DEF vars, Tables, Idle
<1>8. CASE Next
  BY <1>2, <1>3, <1>4, <1>5, <1>6, <1>8, AuthenticateIs, SubscribeClientIs, EndCleanupIs, InvalidateIs DEF Next
<1> QED BY <1>7, <1>8

-----------------------------------------------------------------------------
(* Theorems                                                                *)

\* The invariant the theorems below rest on: pools in order, tables that agree,
\* nothing left behind by who is gone.
THEOREM ProxyInvariant == Spec => []ProxyInv
<1>1. ProxyInv /\ [Next]_vars => ProxyInv'  BY ProxyStep
<1> QED BY <1>1, ProxyInvInit, PTL DEF Spec

\* Tables, counters and pools hold values of their kind, whatever fails.
THEOREM ProxyType == Spec => []TypeOK
<1>1. ProxyInv => TypeOK  BY DEF ProxyInv, Tables, TypeOK
<1> QED BY <1>1, ProxyInvariant, PTL

\* Through every sequence of calls and failures the slots a pool counts on a
\* connection are the symbols it tracks there.
THEOREM ProxySlotsMatch == Spec => []SlotsMatchSymbols
<1>1. ProxyInv => SlotsMatchSymbols
  BY DEF ProxyInv, PoolsInOrder, InOrder, CountsAreRight, OnePlace, SlotsMatchSymbols
<1> QED BY <1>1, ProxyInvariant, PTL

\* With one user, the index is that of the clients' own sets, and connections
\* are open for somebody.
THEOREM ProxyFollows ==
    ASSUME OneUser
    PROVE  Spec => []ServerFollowsClients
<1>1. Init => ConnectionsHaveClients  BY DEF Init, ConnectionsHaveClients
<1>2. ProxyInv /\ ConnectionsHaveClients /\ [Next]_vars => ConnectionsHaveClients'
  <2> SUFFICES ASSUME ProxyInv, ConnectionsHaveClients, [Next]_vars PROVE ConnectionsHaveClients'
    OBVIOUS
  <2>0. Tables  BY DEF ProxyInv
  <2>1. CASE UNCHANGED <<user, keeps>> /\ live' \subseteq live
    BY <2>1 DEF ConnectionsHaveClients
  <2>2. ASSUME NEW c \in Clients, NEW u \in Users, Authenticate(c, u) PROVE ConnectionsHaveClients'
    <3>1. user'[c] = u /\ live' \subseteq Users
      <4>1. user'[c] = u  BY <2>0, <2>2 DEF Authenticate, Tables
      <4>2. live' = live \/ live' = live \cup {u}  BY <2>2 DEF Authenticate
      <4> QED BY <2>0, <4>1, <4>2 DEF Tables
    <3> QED BY <3>1 DEF OneUser, ConnectionsHaveClients
  <2>3. ASSUME EndCleanup PROVE ConnectionsHaveClients'
    <3> DEFINE c == task.client
    <3>1. /\ UNCHANGED keeps /\ \A d \in Clients \ {c} : user'[d] = user[d]
          /\ \/ ~LastOfUser(c) /\ live' = live
             \/ user[c] \in keeps /\ live' = live
             \/ live' = live \ {user[c]}
      BY <2>0, <2>3 DEF EndCleanup, Tables
    <3> SUFFICES ASSUME NEW v \in live' PROVE v \in keeps' \/ \E d \in Clients : user'[d] = v
      BY DEF ConnectionsHaveClients
    <3>2. v \in live  BY <3>1
    <3>3. CASE v # user[c]  BY <3>1, <3>2, <3>3 DEF ConnectionsHaveClients
    <3>4. CASE v = user[c]
      <4>1. CASE ~LastOfUser(c)
        <5>1. PICK d \in Clients \ {c} : user[d] = user[c]  BY <3>2, <3>4, <4>1 DEF LastOfUser
        <5> QED BY <3>1, <3>4, <5>1
      <4>2. CASE LastOfUser(c)  BY <3>1, <3>4, <4>2
      <4> QED BY <4>1, <4>2
    <3> QED BY <3>3, <3>4
  <2>4. \/ UNCHANGED <<user, keeps>> /\ live' \subseteq live
        \/ \E c \in Clients, u \in Users : Authenticate(c, u)
        \/ EndCleanup
    BY DEF Next, vars, Accept, SubscribeClient, UnsubscribeClient, BeginUnsubscribeAll, BeginCleanup,
           DropSubscription, EndUnsubscribeAll, Invalidate
  <2> QED BY <2>1, <2>2, <2>3, <2>4
<1>3. ProxyInv /\ ConnectionsHaveClients => ServerFollowsClients  BY DEF ProxyInv, ServerFollowsClients
<1> QED BY <1>1, <1>2, <1>3, ProxyInvariant, PTL DEF Spec

\* No step without a failed call leaves the broker streaming a symbol that
\* the pool forgot.
THEOREM ProxyNoOrphans == Spec => NoOrphanStreams
<1>1. ProxyInv /\ [Next]_vars =>
        [failures' = failures => \A u \in Users : Orphans(pools'[u]) \subseteq Orphans(pools[u])]_vars
  BY ProxyStep DEF OrphansKept
<1> QED BY <1>1, ProxyInvariant, PTL DEF Spec, NoOrphanStreams

\* With one user, no step without a failed call leaves a slot occupied for a
\* key that nobody wants.
THEOREM ProxySlotsAreFreed ==
    ASSUME OneUser
    PROVE  Spec => SlotsAreFreed
<1>1. ProxyInv /\ [Next]_vars =>
        [failures' = failures => \A u \in Users : Unwanted(u)' \subseteq Unwanted(u)]_vars
  BY ProxyStep DEF SlotsKept
<1> QED BY <1>1, ProxyInvariant, PTL DEF Spec, SlotsAreFreed

\* With one user, what one client does never takes the feed of another.
THEOREM ProxyNoFeedLost ==
    ASSUME OneUser
    PROVE  Spec => NoFeedLost
<1>1. ProxyInv /\ [Next]_vars =>
        [failures' = failures =>
            \/ \A c \in Clients, k \in Keys :
                  Fed(c, k) /\ c \in index'[k] => Fed(c, k)'
            \/ \E u \in Users : Invalidate(u)]_vars
  BY ProxyStep DEF FeedsKept
<1> QED BY <1>1, ProxyInvariant, PTL DEF Spec, NoFeedLost

=============================================================================
