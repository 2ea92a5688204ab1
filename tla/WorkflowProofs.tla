---------------------------- MODULE WorkflowProofs ----------------------------
(***************************************************************************)
(* What the SDK tells of a workflow is contradictory only where the host's *)
(* calls were, no completion counts that took the timeout or longer, what  *)
(* is concluded from the stored rows depends on which they are, and what   *)
(* was concluded of the past stands: for any workflows (any steps and      *)
(* triggers, timeout, session length and limits), any number of instances, *)
(* operations, failing writes and rows, and any time.                      *)
(*                                                                         *)
(* None of it is inductive.  RuntimeInvariant says of the history of all   *)
(* events ever told how each goes with those before it, and of each        *)
(* instance in memory or in the session storage which of them it stands    *)
(* for; both are stated for as long as the storage works, and in a weaker  *)
(* form for after it has failed.  The server's fold over the stored rows   *)
(* is a recursive function; its value is given by an invariant of its      *)
(* rounds.  By itself it takes the first of several ends at one time in    *)
(* the order of the rows; that the rows come in the order of the query,    *)
(* which puts the lesser id first, belongs to the invariant.               *)
(***************************************************************************)
EXTENDS MCBrowser, FiniteSetTheorems, NaturalsInduction, WellFoundedInduction, TLAPS

\* A set of numbers has a least one.
LEMMA LeastOf ==
    ASSUME NEW S \in SUBSET Nat, S # {}
    PROVE  \E n \in S : \A m \in S : n <= m
<1> DEFINE R == OpToRel(<, Nat)
<1> HIDE DEF R
<1>1. PICK n \in S : \A m \in S : ~ (<<m, n>> \in R)
    BY WFMin, NatLessThanWellFounded DEF R
<1>2. ASSUME NEW m \in S PROVE n <= m
    <2>1. ~ (m < n)
        BY <1>1 DEF R, OpToRel
    <2> QED BY <2>1
<1> QED BY <1>2

-----------------------------------------------------------------------------
\* The reducer's reading of the rows.

Highest(s) == Arrival!Max(s)
Nothing == [kept |-> <<>>, conflicted |-> {}]
Round(seen, e, t) == IF Arrival!Known(e, t) THEN Arrival!Dedup(seen, e) ELSE seen

\* The recursion of FoldLeft over the numbers of the events.
Rounds(ev, t) ==
    CHOOSE g : g = [s \in SUBSET DOMAIN ev |->
                      IF s = {} THEN Nothing
                      ELSE LET x == Arrival!Max(s) IN Round(g[s \ {x}], ev[x], t)]

\* g is that recursion over the subsets of S.
Reading(g, S, ev, t) ==
    g = [s \in SUBSET S |-> IF s = {} THEN Nothing ELSE Round(g[s \ {Highest(s)}], ev[Highest(s)], t)]

\* It is well founded.
LEMMA RoundsExist ==
    ASSUME NEW S, IsFiniteSet(S), NEW ev, NEW t,
           \A s \in SUBSET S : s # {} => Highest(s) \in s
    PROVE  \E g : Reading(g, S, ev, t)
<1> DEFINE Small(n) == {s \in SUBSET S : Cardinality(s) <= n}
           Part(g, n) == g = [s \in Small(n) |-> IF s = {} THEN Nothing ELSE Round(g[s \ {Highest(s)}], ev[Highest(s)], t)]
           N == {n \in Nat : ~ \E g : Part(g, n)}
<1>1. \A s \in SUBSET S : IsFiniteSet(s) /\ Cardinality(s) \in Nat
    BY FS_Subset, FS_CardinalityType
<1>2. ASSUME NEW s \in SUBSET S, s # {} PROVE Highest(s) \in s /\ Cardinality(s \ {Highest(s)}) = Cardinality(s) - 1
    <2>1. Highest(s) \in s
        BY <1>2
    <2> QED BY <1>1, <2>1, FS_RemoveElement
<1>3. N = {}
    <2> SUFFICES ASSUME N # {} PROVE FALSE
        OBVIOUS
    <2>1. PICK n \in N : \A m \in N : n <= m
        <3>1. N \in SUBSET Nat
            OBVIOUS
        <3> HIDE DEF N
        <3> QED BY <3>1, LeastOf
    <2>2. CASE n = 0
        <3> DEFINE g == [s \in Small(0) |-> Nothing]
        <3>1. \A s \in Small(0) : s = {}
            BY <1>1, FS_EmptySet
        <3>2. g = [s \in Small(0) |-> IF s = {} THEN Nothing ELSE Round(g[s \ {Highest(s)}], ev[Highest(s)], t)]
            <4> HIDE DEF Small
            <4> QED BY <3>1
        <3>3. Part(g, 0)
            BY <3>2
        <3> HIDE DEF g, Part
        <3> QED BY <2>1, <2>2, <3>3
    <2>3. CASE n # 0
        <3>1. n \in Nat /\ n - 1 \in Nat
            BY <2>1, <2>3
        <3>2. n - 1 \notin N
            <4> HIDE DEF N
            <4> QED BY <2>1, <3>1
        <3>3. PICK g : Part(g, n - 1)
            <4> HIDE DEF Part
            <4> QED BY <3>1, <3>2
        <3> DEFINE h == [s \in Small(n) |-> IF s = {} THEN Nothing ELSE Round(g[s \ {Highest(s)}], ev[Highest(s)], t)]
        <3>4. \A s \in Small(n - 1) : s \in Small(n) /\ h[s] = g[s]
            <4>1. \A s \in Small(n - 1) : s \in Small(n)
                BY <1>1, <3>1
            <4> HIDE DEF Small
            <4> QED BY <3>3, <4>1
        <3>5. \A s \in Small(n) : s # {} => s \ {Highest(s)} \in Small(n - 1)
            BY <1>1, <1>2, <3>1
        <3>6. Part(h, n)
            <4> HIDE DEF Small
            <4> QED BY <3>4, <3>5
        <3> HIDE DEF h, Part
        <3> QED BY <2>1, <3>6
    <2> QED BY <2>2, <2>3
<1>4. PICK g : Part(g, Cardinality(S))
    <2>1. Cardinality(S) \in Nat
        BY <1>1
    <2> HIDE DEF Part
    <2> QED BY <1>3, <2>1
<1>5. Small(Cardinality(S)) = SUBSET S
    <2>1. \A s \in SUBSET S : Cardinality(s) <= Cardinality(S)
        BY FS_Subset
    <2> QED BY <2>1
<1>6. Reading(g, S, ev, t)
    <2> HIDE DEF Small
    <2> QED BY <1>4, <1>5 DEF Reading
<1> QED BY <1>6

\* A finite set of numbers has a highest one.
LEMMA HighestOf ==
    ASSUME NEW n \in Nat, NEW s \in SUBSET (1 .. n), s # {}
    PROVE  Highest(s) \in s /\ \A m \in s : m <= Highest(s)
<1> DEFINE Rest == {n - m : m \in s}
<1>1. Rest \in SUBSET Nat /\ Rest # {}
    <2>1. \A m \in s : m \in 1 .. n /\ n - m \in Nat
        OBVIOUS
    <2> QED BY <2>1
<1>2. PICK r \in Rest : \A q \in Rest : r <= q
    <2> HIDE DEF Rest
    <2> QED BY <1>1, LeastOf
<1>3. PICK x \in s : r = n - x
    OBVIOUS
<1>4. \A m \in s : x >= m
    <2> SUFFICES ASSUME NEW m \in s PROVE x >= m
        OBVIOUS
    <2>1. n - m \in Rest
        OBVIOUS
    <2>2. n - x <= n - m
        BY <1>2, <1>3, <2>1
    <2> QED BY <2>2
<1>5. Highest(s) \in s /\ \A m \in s : Highest(s) >= m
    BY <1>3, <1>4 DEF Highest, Arrival!Max
<1> QED BY <1>5

\* What the reducer has seen after each of the events.
Successive(h, n, ev, t) ==
    /\ h[0] = Nothing
    /\ \A k \in 1 .. n : h[k] = Round(h[k - 1], ev[k], t)
    /\ Arrival!Observed(ev, t) = {h[n].kept[i] : i \in DOMAIN h[n].kept}

\* Observed() goes through the events one after the other.
LEMMA ReadsInOrder ==
    ASSUME NEW n \in Nat, NEW ev, DOMAIN ev = 1 .. n, NEW t
    PROVE  \E h : Successive(h, n, ev, t)
<1>1. \A s \in SUBSET (1 .. n) : s # {} => Highest(s) \in s
    BY HighestOf
<1>2. PICK f : f = [s \in SUBSET (1 .. n) |->
                      IF s = {} THEN Nothing ELSE Round(f[s \ {Highest(s)}], ev[Highest(s)], t)]
    <2>1. PICK S : S = 1 .. n
        OBVIOUS
    <2>2. IsFiniteSet(S) /\ \A s \in SUBSET S : s # {} => Highest(s) \in s
        BY <1>1, <2>1, FS_Interval
    <2>3. PICK g : Reading(g, S, ev, t)
        BY <2>2, RoundsExist
    <2> QED BY <2>1, <2>3 DEF Reading
<1>3. Rounds(ev, t) = [s \in SUBSET (1 .. n) |->
                         IF s = {} THEN Nothing
                         ELSE Round(Rounds(ev, t)[s \ {Highest(s)}], ev[Highest(s)], t)]
    BY <1>2 DEF Rounds, Highest
<1>4. PICK g : g = Rounds(ev, t)
    OBVIOUS
<1>5. g = [s \in SUBSET (1 .. n) |->
             IF s = {} THEN Nothing ELSE Round(g[s \ {Highest(s)}], ev[Highest(s)], t)]
    BY <1>3, <1>4
<1> DEFINE h == [k \in 0 .. n |-> g[1 .. k]]
<1>6. h[0] = Nothing
    <2>1. 1 .. 0 = {} /\ {} \in SUBSET (1 .. n) /\ 0 \in 0 .. n
        OBVIOUS
    <2>2. g[{}] = Nothing
        BY <1>5
    <2> QED BY <2>1, <2>2
<1>7. \A k \in 1 .. n : h[k] = Round(h[k - 1], ev[k], t)
    <2> SUFFICES ASSUME NEW k \in 1 .. n PROVE h[k] = Round(h[k - 1], ev[k], t)
        OBVIOUS
    <2>1. 1 .. k \in SUBSET (1 .. n) /\ k \in 1 .. k /\ k \in 0 .. n /\ k - 1 \in 0 .. n
        OBVIOUS
    <2>2. Highest(1 .. k) = k
        <3>1. Highest(1 .. k) \in 1 .. k /\ \A m \in 1 .. k : m <= Highest(1 .. k)
            <4>1. 1 .. k # {}
                BY <2>1
            <4> QED BY <2>1, <4>1, HighestOf
        <3> QED BY <3>1
    <2>3. (1 .. k) \ {k} = 1 .. (k - 1)
        OBVIOUS
    <2>4. g[1 .. k] = Round(g[(1 .. k) \ {Highest(1 .. k)}], ev[Highest(1 .. k)], t)
        BY <1>5, <2>1
    <2> QED BY <2>1, <2>2, <2>3, <2>4
<1>8. Arrival!Observed(ev, t) = {h[n].kept[i] : i \in DOMAIN h[n].kept}
    <2>1. Arrival!Observed(ev, t) = {g[1 .. n].kept[i] : i \in DOMAIN g[1 .. n].kept}
        BY <1>4, Zenon DEF Arrival!Observed, Arrival!FoldLeft, Arrival!MapThenFoldSet, Rounds, Round, Nothing
    <2>2. h[n] = g[1 .. n]
        OBVIOUS
    <2> QED BY <2>1, <2>2
<1> HIDE DEF h
<1> QED BY <1>6, <1>7, <1>8 DEF Successive

-----------------------------------------------------------------------------
Alike(e, f) == Arrival!Content(e) = Arrival!Content(f)

\* What the first loop makes of the set K of events, whatever their order and number.
Reads(seen, K) ==
    /\ seen = [kept |-> seen.kept, conflicted |-> seen.conflicted]
    /\ \A id \in seen.conflicted : \E e, f \in K : e.id = id /\ f.id = id /\ ~Alike(e, f)
    /\ \A e, f \in K : e.id = f.id /\ ~Alike(e, f) => e.id \in seen.conflicted
    /\ \A id \in DOMAIN seen.kept : seen.kept[id] \in K /\ seen.kept[id].id = id /\ id \notin seen.conflicted
    /\ \A e \in K : \/ e.id \in seen.conflicted
                    \/ e.id \in DOMAIN seen.kept /\ seen.kept[e.id].received <= e.received

\* Stored events of one content and receipt are the same event.
LEMMA SameEvent ==
    ASSUME NEW e \in Stored, NEW f \in Stored, Alike(e, f), e.received = f.received PROVE e = f
<1>1. /\ Arrival!Content(e).id = e.id /\ Arrival!Content(e).name = e.name
      /\ Arrival!Content(e).instance = e.instance /\ Arrival!Content(e).session = e.session
      /\ Arrival!Content(e).at = e.at /\ Arrival!Content(e).step = e.step
      /\ Arrival!Content(e).operation = e.operation
    BY DEF Arrival!Content, Stored
<1>2. /\ Arrival!Content(f).id = f.id /\ Arrival!Content(f).name = f.name
      /\ Arrival!Content(f).instance = f.instance /\ Arrival!Content(f).session = f.session
      /\ Arrival!Content(f).at = f.at /\ Arrival!Content(f).step = f.step
      /\ Arrival!Content(f).operation = f.operation
    BY DEF Arrival!Content, Stored
<1>3. /\ e = [id |-> e.id, name |-> e.name, instance |-> e.instance, session |-> e.session, at |-> e.at,
              received |-> e.received, step |-> e.step, operation |-> e.operation]
      /\ f = [id |-> f.id, name |-> f.name, instance |-> f.instance, session |-> f.session, at |-> f.at,
              received |-> f.received, step |-> f.step, operation |-> f.operation]
    BY DEF Stored
<1> QED BY <1>1, <1>2, <1>3 DEF Alike

\* One round.
LEMMA RoundReads ==
    ASSUME NEW seen, NEW K \in SUBSET Stored, NEW e \in Stored, Reads(seen, K)
    PROVE  Reads(Arrival!Dedup(seen, e), K \cup {e})
<1> DEFINE next == Arrival!Dedup(seen, e)
           after == K \cup {e}
<1>1. /\ seen = [kept |-> seen.kept, conflicted |-> seen.conflicted]
      /\ \A id \in seen.conflicted : \E d, f \in K : d.id = id /\ f.id = id /\ ~Alike(d, f)
      /\ \A d, f \in K : d.id = f.id /\ ~Alike(d, f) => d.id \in seen.conflicted
      /\ \A id \in DOMAIN seen.kept : seen.kept[id] \in K /\ seen.kept[id].id = id /\ id \notin seen.conflicted
      /\ \A d \in K : \/ d.id \in seen.conflicted
                      \/ d.id \in DOMAIN seen.kept /\ seen.kept[d.id].received <= d.received
    BY DEF Reads
<1>2. \A d, f \in after : Alike(d, d) /\ (Alike(d, f) => Alike(f, d)) /\ d.received \in Nat
    BY DEF Alike, Stored
<1>3. \A d, f, g \in after : Alike(d, f) /\ Alike(f, g) => Alike(d, g)
    BY DEF Alike
<1>4. CASE e.id \in seen.conflicted
    <2>1. next = seen
        BY <1>4 DEF Arrival!Dedup
    <2> QED BY <1>1, <1>2, <1>4, <2>1 DEF Reads
<1>5. CASE e.id \notin seen.conflicted /\ e.id \in DOMAIN seen.kept /\ ~Alike(seen.kept[e.id], e)
    <2> DEFINE keeps == [y \in DOMAIN seen.kept \ {e.id} |-> seen.kept[y]]
    <2>1. next = [kept |-> keeps, conflicted |-> seen.conflicted \cup {e.id}]
        BY <1>5 DEF Arrival!Dedup, Arrival!Drop, Alike
    <2>2. /\ next.kept = keeps /\ next.conflicted = seen.conflicted \cup {e.id}
          /\ next = [kept |-> next.kept, conflicted |-> next.conflicted]
        BY <2>1
    <2>3. DOMAIN keeps = DOMAIN seen.kept \ {e.id} /\ \A y \in DOMAIN keeps : keeps[y] = seen.kept[y]
        OBVIOUS
    <2>4. seen.kept[e.id] \in K /\ seen.kept[e.id].id = e.id
        BY <1>1, <1>5
    <2>5. \A id \in next.conflicted : \E d, f \in after : d.id = id /\ f.id = id /\ ~Alike(d, f)
        BY <1>1, <1>5, <2>2, <2>4
    <2>6. \A d, f \in after : d.id = f.id /\ ~Alike(d, f) => d.id \in next.conflicted
        BY <1>1, <1>2, <2>2
    <2>7. \A id \in DOMAIN next.kept :
             next.kept[id] \in after /\ next.kept[id].id = id /\ id \notin next.conflicted
        BY <1>1, <2>2, <2>3
    <2>8. \A d \in after : \/ d.id \in next.conflicted
                           \/ d.id \in DOMAIN next.kept /\ next.kept[d.id].received <= d.received
        BY <1>1, <2>2, <2>3
    <2>20. next = Arrival!Dedup(seen, e) /\ after = K \cup {e}
        OBVIOUS
    <2> HIDE DEF next, after
    <2> QED BY <2>20, <2>2, <2>5, <2>6, <2>7, <2>8 DEF Reads
<1>6. CASE /\ e.id \notin seen.conflicted /\ e.id \in DOMAIN seen.kept /\ Alike(seen.kept[e.id], e)
           /\ seen.kept[e.id].received <= e.received
    <2>1. next = seen
        BY <1>6 DEF Arrival!Dedup, Alike
    <2>2. seen.kept[e.id] \in K /\ seen.kept[e.id].id = e.id
        BY <1>1, <1>6
    <2>3. \A d \in K : d.id = e.id => Alike(d, seen.kept[e.id])
        BY <1>1, <1>6, <2>2
    <2>4. \A d \in K : d.id = e.id => Alike(d, e) /\ Alike(e, d)
        BY <1>2, <1>3, <1>6, <2>2, <2>3
    <2>5. \A d, f \in after : d.id = f.id /\ ~Alike(d, f) => d.id \in seen.conflicted
        BY <1>1, <1>2, <2>4
    <2>6. \A d \in after : \/ d.id \in seen.conflicted
                           \/ d.id \in DOMAIN seen.kept /\ seen.kept[d.id].received <= d.received
        BY <1>1, <1>6
    <2>7. /\ \A id \in seen.conflicted : \E d, f \in after : d.id = id /\ f.id = id /\ ~Alike(d, f)
          /\ \A id \in DOMAIN seen.kept : seen.kept[id] \in after /\ seen.kept[id].id = id /\ id \notin seen.conflicted
        BY <1>1
    <2>20. next = Arrival!Dedup(seen, e) /\ after = K \cup {e}
        OBVIOUS
    <2> HIDE DEF next, after
    <2> QED BY <2>20, <1>1, <2>1, <2>5, <2>6, <2>7 DEF Reads
<1>7. CASE /\ e.id \notin seen.conflicted
           /\ e.id \in DOMAIN seen.kept => Alike(seen.kept[e.id], e) /\ ~(seen.kept[e.id].received <= e.received)
    <2> DEFINE keeps == [y \in DOMAIN seen.kept \cup {e.id} |-> IF y = e.id THEN e ELSE seen.kept[y]]
    <2>1. next = [kept |-> keeps, conflicted |-> seen.conflicted]
        <3>1. next = [seen EXCEPT !.kept = Arrival!With(@, e.id, e)]
            BY <1>7 DEF Arrival!Dedup, Alike
        <3>2. Arrival!With(seen.kept, e.id, e) = keeps
            BY DEF Arrival!With
        <3> HIDE DEF keeps, next
        <3> QED BY <1>1, <3>1, <3>2
    <2>2. /\ next.kept = keeps /\ next.conflicted = seen.conflicted
          /\ next = [kept |-> next.kept, conflicted |-> next.conflicted]
        BY <2>1
    <2>3. DOMAIN keeps = DOMAIN seen.kept \cup {e.id} /\ keeps[e.id] = e
          /\ \A y \in DOMAIN keeps : y # e.id => keeps[y] = seen.kept[y]
        OBVIOUS
    <2>4. \A d \in K : d.id = e.id => Alike(d, e) /\ Alike(e, d) /\ e.received <= d.received
        <3> SUFFICES ASSUME NEW d \in K, d.id = e.id PROVE Alike(d, e) /\ Alike(e, d) /\ e.received <= d.received
            OBVIOUS
        <3>1. e.id \in DOMAIN seen.kept /\ seen.kept[e.id].received <= d.received
            BY <1>1, <1>7
        <3>2. seen.kept[e.id] \in K /\ seen.kept[e.id].id = e.id
            BY <1>1, <3>1
        <3>3. Alike(d, seen.kept[e.id])
            BY <1>1, <1>7, <3>2
        <3>4. Alike(d, e) /\ Alike(e, d)
            BY <1>2, <1>3, <1>7, <3>1, <3>2, <3>3
        <3>5. d.received \in Nat /\ e.received \in Nat /\ seen.kept[e.id].received \in Nat
            BY <1>2, <3>2
        <3> QED BY <1>7, <3>1, <3>4, <3>5
    <2>5. \A d, f \in after : d.id = f.id /\ ~Alike(d, f) => d.id \in next.conflicted
        BY <1>1, <1>2, <2>2, <2>4
    <2>6. \A id \in next.conflicted : \E d, f \in after : d.id = id /\ f.id = id /\ ~Alike(d, f)
        BY <1>1, <2>2
    <2>7. \A id \in DOMAIN next.kept :
             next.kept[id] \in after /\ next.kept[id].id = id /\ id \notin next.conflicted
        BY <1>1, <1>7, <2>2, <2>3
    <2>8. e.received <= e.received
        BY <1>2
    <2>9. \A d \in after : \/ d.id \in next.conflicted
                           \/ d.id \in DOMAIN next.kept /\ next.kept[d.id].received <= d.received
        BY <1>1, <2>2, <2>3, <2>4, <2>8
    <2>20. next = Arrival!Dedup(seen, e) /\ after = K \cup {e}
        OBVIOUS
    <2> HIDE DEF next, after
    <2> QED BY <2>20, <2>2, <2>5, <2>6, <2>7, <2>9 DEF Reads
<1> QED BY <1>4, <1>5, <1>6, <1>7

\* The events that a report at t counts: those of one content, at their first receipt.
Counted(E, t) ==
    {e \in E : /\ Arrival!Known(e, t)
               /\ \A f \in E : Arrival!Known(f, t) /\ f.id = e.id => Alike(e, f) /\ e.received <= f.received}

\* The report depends on the set of the events.
LEMMA ObservedIs ==
    ASSUME NEW n \in Nat, NEW ev, DOMAIN ev = 1 .. n, \A k \in 1 .. n : ev[k] \in Stored, NEW t
    PROVE  Arrival!Observed(ev, t) = Counted({ev[k] : k \in 1 .. n}, t)
<1>0. PICK h : Successive(h, n, ev, t)
    BY ReadsInOrder
<1>1. /\ h[0] = Nothing
      /\ \A k \in 1 .. n : h[k] = Round(h[k - 1], ev[k], t)
      /\ Arrival!Observed(ev, t) = {h[n].kept[i] : i \in DOMAIN h[n].kept}
    BY <1>0 DEF Successive
<1> DEFINE K(k) == {e \in {ev[j] : j \in 1 .. k} : Arrival!Known(e, t)}
           Good(k) == k \in 0 .. n => Reads(h[k], K(k))
<1>2. Good(0)
    <2>1. K(0) = {} /\ Nothing.kept = <<>> /\ Nothing.conflicted = {} /\ DOMAIN Nothing.kept = {}
          /\ Nothing = [kept |-> Nothing.kept, conflicted |-> Nothing.conflicted]
        BY DEF Nothing
    <2>2. Reads(Nothing, {})
        BY <2>1 DEF Reads
    <2> QED BY <1>1, <2>1, <2>2
<1>3. ASSUME NEW k \in Nat, Good(k) PROVE Good(k + 1)
    <2> SUFFICES ASSUME k + 1 \in 0 .. n PROVE Reads(h[k + 1], K(k + 1))
        OBVIOUS
    <2>1. k \in 0 .. n /\ k + 1 \in 1 .. n /\ (k + 1) - 1 = k
        OBVIOUS
    <2>2. Reads(h[k], K(k))
        BY <1>3, <2>1
    <2>3. h[k + 1] = Round(h[k], ev[k + 1], t)
        BY <1>1, <2>1
    <2>4. {ev[j] : j \in 1 .. k + 1} = {ev[j] : j \in 1 .. k} \cup {ev[k + 1]}
        BY <2>1
    <2>5. K(k) \in SUBSET Stored /\ ev[k + 1] \in Stored
        BY <2>1
    <2>6. CASE Arrival!Known(ev[k + 1], t)
        <3>1. K(k + 1) = K(k) \cup {ev[k + 1]}
            BY <2>4, <2>6
        <3>2. h[k + 1] = Arrival!Dedup(h[k], ev[k + 1])
            BY <2>3, <2>6 DEF Round
        <3> HIDE DEF K
        <3> QED BY <2>2, <2>5, <3>1, <3>2, RoundReads
    <2>7. CASE ~Arrival!Known(ev[k + 1], t)
        <3>1. K(k + 1) = K(k)
            BY <2>4, <2>7
        <3>2. h[k + 1] = h[k]
            BY <2>3, <2>7 DEF Round
        <3> HIDE DEF K
        <3> QED BY <2>2, <3>1, <3>2
    <2> QED BY <2>6, <2>7
<1> DEFINE Bad == {k \in Nat : ~Good(k)}
<1>4. Bad = {}
    <2> SUFFICES ASSUME Bad # {} PROVE FALSE
        OBVIOUS
    <2>1. PICK k \in Bad : \A m \in Bad : k <= m
        <3>1. Bad \in SUBSET Nat
            OBVIOUS
        <3> HIDE DEF Bad
        <3> QED BY <3>1, LeastOf
    <2>2. k \in Nat /\ ~Good(k)
        OBVIOUS
    <2>3. k # 0
        <3> HIDE DEF Good
        <3> QED BY <1>2, <2>2
    <2>4. k - 1 \in Nat /\ (k - 1) + 1 = k
        BY <2>2, <2>3
    <2>5. Good(k - 1)
        <3>1. k - 1 \notin Bad
            <4> HIDE DEF Bad
            <4> QED BY <2>1, <2>2, <2>4
        <3> HIDE DEF Good
        <3> QED BY <2>4, <3>1
    <2>6. Good((k - 1) + 1)
        <3> HIDE DEF Good
        <3> QED BY <1>3, <2>4, <2>5
    <2> HIDE DEF Good
    <2> QED BY <2>2, <2>4, <2>6
<1>5. PICK E : E = {ev[k] : k \in 1 .. n}
    OBVIOUS
<1>6. PICK C : C = {e \in E : Arrival!Known(e, t)}
    OBVIOUS
<1>7. Reads(h[n], C) /\ C \in SUBSET Stored
    <2>1. Good(n)
        <3> HIDE DEF Good
        <3> QED BY <1>4
    <2>2. C = K(n)
        BY <1>5, <1>6
    <2> QED BY <1>5, <1>6, <2>1, <2>2
<1>8. PICK s : s = h[n]
    OBVIOUS
<1>9. /\ \A id \in s.conflicted : \E e, f \in C : e.id = id /\ f.id = id /\ ~Alike(e, f)
      /\ \A e, f \in C : e.id = f.id /\ ~Alike(e, f) => e.id \in s.conflicted
      /\ \A id \in DOMAIN s.kept : s.kept[id] \in C /\ s.kept[id].id = id /\ id \notin s.conflicted
      /\ \A e \in C : \/ e.id \in s.conflicted
                      \/ e.id \in DOMAIN s.kept /\ s.kept[e.id].received <= e.received
    BY <1>7, <1>8 DEF Reads
<1>10. ASSUME NEW id \in DOMAIN s.kept PROVE s.kept[id] \in Counted(E, t)
    <2>1. s.kept[id] \in C /\ s.kept[id].id = id /\ id \notin s.conflicted
        BY <1>9
    <2>2. \A f \in C : f.id = s.kept[id].id => Alike(s.kept[id], f) /\ s.kept[id].received <= f.received
        BY <1>9, <2>1
    <2> QED BY <1>6, <2>1, <2>2 DEF Counted
<1>11. ASSUME NEW e \in Counted(E, t) PROVE \E id \in DOMAIN s.kept : s.kept[id] = e
    <2>1. e \in C /\ \A f \in C : f.id = e.id => Alike(e, f) /\ e.received <= f.received
        BY <1>6 DEF Counted
    <2>2. e.id \notin s.conflicted
        <3> SUFFICES ASSUME e.id \in s.conflicted PROVE FALSE
            OBVIOUS
        <3>1. PICK d, f \in C : d.id = e.id /\ f.id = e.id /\ ~Alike(d, f)
            BY <1>9
        <3>2. Alike(e, d) /\ Alike(e, f)
            BY <2>1, <3>1
        <3> QED BY <3>1, <3>2 DEF Alike
    <2>3. e.id \in DOMAIN s.kept /\ s.kept[e.id].received <= e.received
        BY <1>9, <2>1, <2>2
    <2>4. s.kept[e.id] \in C /\ s.kept[e.id].id = e.id
        BY <1>9, <2>3
    <2>5. Alike(e, s.kept[e.id]) /\ e.received <= s.kept[e.id].received
        BY <2>1, <2>4
    <2>6. e \in Stored /\ s.kept[e.id] \in Stored
        BY <1>7, <2>1, <2>4
    <2>7. e.received \in Nat /\ s.kept[e.id].received \in Nat
        BY <2>6 DEF Stored
    <2>8. e.received = s.kept[e.id].received
        BY <2>3, <2>5, <2>7
    <2>9. e = s.kept[e.id]
        BY <2>5, <2>6, <2>8, SameEvent
    <2> QED BY <2>3, <2>9
<1>12. {s.kept[i] : i \in DOMAIN s.kept} = Counted(E, t)
    BY <1>10, <1>11
<1> QED BY <1>1, <1>5, <1>8, <1>12

-----------------------------------------------------------------------------
\* The report on what has been seen.

\* What the rows of an instance count for, in the words of the property.
LEMMA CountedIs == ASSUME NEW E, NEW t PROVE Arrival!Agreed(E, t) = Counted(E, t)
    BY DEF Arrival!Agreed, Counted, Alike

\* Of the events that count each has an identity of its own.
LEMMA CountedOnce ==
    ASSUME NEW E \in SUBSET Stored, NEW t, NEW e \in Counted(E, t), NEW f \in Counted(E, t), e.id = f.id
    PROVE  e = f
<1>1. e \in Stored /\ f \in Stored /\ Alike(e, f) /\ e.received <= f.received /\ f.received <= e.received
    BY DEF Counted
<1>2. e.received = f.received
    BY <1>1 DEF Stored
<1> QED BY <1>1, <1>2, SameEvent

\* A set of events has earliest ones.
LEMMA SomeEarliest ==
    ASSUME NEW S, S # {}, \A e \in S : e.at \in Nat
    PROVE  Arrival!Earliest(S) # {}
<1>1. PICK T : T = {e.at : e \in S}
    OBVIOUS
<1>2. T \in SUBSET Nat /\ T # {}
    BY <1>1
<1>3. PICK t \in T : \A u \in T : t <= u
    BY <1>2, LeastOf
<1> QED BY <1>1, <1>3 DEF Arrival!Earliest

\* The first row of an event that counts has its time.
LEMMA PositionOf ==
    ASSUME NEW n \in Nat, NEW ev, DOMAIN ev = 1 .. n, \A k \in 1 .. n : ev[k] \in Stored, NEW t,
           NEW e \in Counted({ev[k] : k \in 1 .. n}, t)
    PROVE  \E k \in 1 .. n : k = Arrival!Position(ev, t, e.id) /\ ev[k].id = e.id /\ ev[k].at = e.at
<1>1. PICK P : P = {k \in DOMAIN ev : Arrival!Known(ev[k], t) /\ ev[k].id = e.id}
    OBVIOUS
<1>2. PICK m \in 1 .. n : e = ev[m]
    BY DEF Counted
<1>3. m \in P /\ P \in SUBSET Nat
    BY <1>1, <1>2 DEF Counted
<1>4. PICK k \in P : \A l \in P : k <= l
    BY <1>3, LeastOf
<1>5. Arrival!Position(ev, t, e.id) = Arrival!Min(P)
    BY <1>1 DEF Arrival!Position
<1>6. Arrival!Min(P) \in P
    BY <1>4 DEF Arrival!Min
<1>7. ASSUME NEW l \in P PROVE ev[l].id = e.id /\ ev[l].at = e.at
    <2>1. l \in 1 .. n /\ Arrival!Known(ev[l], t) /\ ev[l].id = e.id /\ ev[l] \in Stored /\ e \in Stored
        BY <1>1, <1>2
    <2>2. Alike(e, ev[l])
        BY <2>1 DEF Counted
    <2>3. Arrival!Content(e).at = e.at /\ Arrival!Content(ev[l]).at = ev[l].at
        BY <2>1 DEF Arrival!Content, Stored
    <2> QED BY <2>1, <2>2, <2>3 DEF Alike
<1>8. Arrival!Min(P) \in 1 .. n
    BY <1>1, <1>6
<1> QED BY <1>5, <1>6, <1>7, <1>8

\* In the order of the query the first row of two events at one time is that of the lesser id.
LEMMA PositionById ==
    ASSUME NEW n \in Nat, NEW ev, DOMAIN ev = 1 .. n, \A k \in 1 .. n : ev[k] \in Stored, NEW t,
           Arrival!Ordered(ev),
           NEW e \in Counted({ev[k] : k \in 1 .. n}, t), NEW f \in Counted({ev[k] : k \in 1 .. n}, t),
           e.at = f.at, Arrival!Position(ev, t, e.id) <= Arrival!Position(ev, t, f.id)
    PROVE  e.id <= f.id
<1>1. PICK k \in 1 .. n : k = Arrival!Position(ev, t, e.id) /\ ev[k].id = e.id /\ ev[k].at = e.at
    BY PositionOf
<1>2. PICK l \in 1 .. n : l = Arrival!Position(ev, t, f.id) /\ ev[l].id = f.id /\ ev[l].at = f.at
    BY PositionOf
<1>3. e.id \in Nat /\ f.id \in Nat /\ e.at \in Nat
    BY DEF Counted, Stored
<1>4. k <= l
    BY <1>1, <1>2
<1>5. CASE k = l
    BY <1>1, <1>2, <1>3, <1>5
<1>6. CASE k < l
    <2>1. Arrival!NotAfter(ev[k], ev[l])
        BY <1>6 DEF Arrival!Ordered
    <2> QED BY <1>1, <1>2, <1>3, <2>1 DEF Arrival!NotAfter
<1> QED BY <1>4, <1>5, <1>6

\* So the first end is that of the least id.
LEMMA FirstEndIs ==
    ASSUME NEW n \in Nat, NEW ev, DOMAIN ev = 1 .. n, \A k \in 1 .. n : ev[k] \in Stored, NEW t,
           Arrival!Ordered(ev), NEW es \in SUBSET Counted({ev[k] : k \in 1 .. n}, t)
    PROVE  Arrival!FirstInOrder(es, ev, t) = Arrival!FirstById(es)
<1>1. PICK E, M : E = {ev[k] : k \in 1 .. n} /\ M = Arrival!Earliest(Arrival!Terminals(es))
    OBVIOUS
<1>2. CASE Arrival!Terminals(es) = {}
    BY <1>2 DEF Arrival!FirstInOrder, Arrival!FirstById
<1>3. CASE Arrival!Terminals(es) # {}
    <2>1. E \in SUBSET Stored /\ es \in SUBSET Counted(E, t) /\ Counted(E, t) \in SUBSET Stored
        BY <1>1 DEF Counted
    <2>2. Arrival!Terminals(es) \subseteq es
        BY DEF Arrival!Terminals, Arrival!Named
    <2>3. M # {}
        <3>1. \A e \in Arrival!Terminals(es) : e.at \in Nat
            BY <2>1, <2>2 DEF Stored
        <3> QED BY <1>1, <1>3, <3>1, SomeEarliest
    <2>4. \A e \in M : e \in Counted(E, t) /\ e.id \in Nat /\ e.at \in Nat
        BY <1>1, <2>1, <2>2 DEF Arrival!Earliest, Stored
    <2>5. \A e, f \in M : e.at = f.at
        <3>1. \A e, f \in M : e.at <= f.at
            BY <1>1 DEF Arrival!Earliest
        <3> QED BY <2>4, <3>1
    <2>6. ASSUME NEW e \in M, NEW f \in M, Arrival!Position(ev, t, e.id) <= Arrival!Position(ev, t, f.id)
          PROVE  e.id <= f.id
        <3>1. e \in Counted({ev[k] : k \in 1 .. n}, t) /\ f \in Counted({ev[k] : k \in 1 .. n}, t)
            BY <1>1, <2>4
        <3>2. e.at = f.at
            BY <2>5
        <3> QED BY <2>6, <3>1, <3>2, PositionById
    <2>7. \A e, f \in M : e.id = f.id => e = f
        BY <2>1, <2>4, CountedOnce
    <2>8. PICK y : y = Arrival!FirstById(es)
        OBVIOUS
    <2>9. y = CHOOSE e \in M : \A f \in M : e.id <= f.id
        BY <1>1, <1>3, <2>8 DEF Arrival!FirstById
    <2>10. \E e \in M : \A f \in M : e.id <= f.id
        <3>1. PICK I : I = {e.id : e \in M}
            OBVIOUS
        <3>2. I \in SUBSET Nat /\ I # {}
            BY <2>3, <2>4, <3>1
        <3>3. PICK i \in I : \A j \in I : i <= j
            BY <3>2, LeastOf
        <3> QED BY <3>1, <3>3
    <2>11. y \in M /\ \A f \in M : y.id <= f.id
        BY <2>9, <2>10
    <2>12. PICK x : x = Arrival!FirstInOrder(es, ev, t)
        OBVIOUS
    <2>13. x = CHOOSE e \in M : \A f \in M : Arrival!Position(ev, t, e.id) <= Arrival!Position(ev, t, f.id)
        BY <1>1, <1>3, <2>12 DEF Arrival!FirstInOrder
    <2>14. \E e \in M : \A f \in M : Arrival!Position(ev, t, e.id) <= Arrival!Position(ev, t, f.id)
        <3>1. PICK I : I = {Arrival!Position(ev, t, e.id) : e \in M}
            OBVIOUS
        <3>2. ASSUME NEW e \in M PROVE Arrival!Position(ev, t, e.id) \in Nat
            <4>1. e \in Counted({ev[k] : k \in 1 .. n}, t)
                BY <1>1, <2>4
            <4>2. PICK k \in 1 .. n : k = Arrival!Position(ev, t, e.id)
                BY <4>1, PositionOf
            <4> QED BY <4>2
        <3>3. I \in SUBSET Nat /\ I # {}
            BY <2>3, <3>1, <3>2
        <3>4. PICK i \in I : \A j \in I : i <= j
            BY <3>3, LeastOf
        <3> QED BY <3>1, <3>4
    <2>15. x \in M /\ \A f \in M : Arrival!Position(ev, t, x.id) <= Arrival!Position(ev, t, f.id)
        BY <2>13, <2>14
    <2>16. x.id <= y.id /\ y.id <= x.id
        BY <2>6, <2>11, <2>15
    <2>17. x = y
        BY <2>4, <2>7, <2>11, <2>15, <2>16
    <2> QED BY <2>8, <2>12, <2>17
<1> QED BY <1>2, <1>3

\* The fold over rows in the order of the query makes the report on the set of them.
LEMMA FactsAre ==
    ASSUME NEW n \in Nat, NEW ev, DOMAIN ev = 1 .. n, \A k \in 1 .. n : ev[k] \in Stored, NEW t,
           Arrival!Ordered(ev)
    PROVE  Arrival!Facts(ev, Arriving.definition, t) = Arrival!Report({ev[k] : k \in 1 .. n}, t)
<1>1. PICK E, C, V : /\ E = {ev[k] : k \in 1 .. n} /\ C = Counted(E, t)
                     /\ V = {e \in E : Arrival!Known(e, t)}
    OBVIOUS
<1>2. Arrival!Observed(ev, t) = C
    BY <1>1, ObservedIs
<1>3. {ev[i] : i \in {j \in DOMAIN ev : Arrival!Known(ev[j], t)}} = V
    BY <1>1
<1>4. Arrival!Agreed(E, t) = C
    BY <1>1, CountedIs
<1>5. Arrival!Facts(ev, Arriving.definition, t) =
        [i \in {e.instance : e \in C} |->
            Arrival!Fact({e \in C : e.instance = i}, Arrival!FirstInOrder({e \in C : e.instance = i}, ev, t),
                         V, Arriving.definition, t)]
    BY <1>2, <1>3 DEF Arrival!Facts
<1>6. Arrival!Report(E, t) =
        [i \in {e.instance : e \in C} |->
            Arrival!Fact({e \in C : e.instance = i}, Arrival!FirstById({e \in C : e.instance = i}),
                         V, Arriving.definition, t)]
    BY <1>1, <1>4 DEF Arrival!Report
<1>7. ASSUME NEW S \in SUBSET C PROVE Arrival!FirstInOrder(S, ev, t) = Arrival!FirstById(S)
    <2>1. S \in SUBSET Counted({ev[k] : k \in 1 .. n}, t)
        BY <1>1
    <2> QED BY <2>1, FirstEndIs
<1>8. ASSUME NEW i
      PROVE  Arrival!Fact({e \in C : e.instance = i}, Arrival!FirstInOrder({e \in C : e.instance = i}, ev, t),
                          V, Arriving.definition, t)
              = Arrival!Fact({e \in C : e.instance = i}, Arrival!FirstById({e \in C : e.instance = i}),
                             V, Arriving.definition, t)
    <2>1. PICK S \in SUBSET C : S = {e \in C : e.instance = i}
        OBVIOUS
    <2>2. Arrival!FirstInOrder(S, ev, t) = Arrival!FirstById(S)
        BY <1>7
    <2> QED BY <2>1, <2>2
<1>9. Arrival!Facts(ev, Arriving.definition, t) = Arrival!Report(E, t)
    BY <1>5, <1>6, <1>8, Zenon
<1> QED BY <1>1, <1>9

\* What is not known yet makes no difference.
LEMMA ReportIgnores ==
    ASSUME NEW E, NEW x, NEW t, ~Arrival!Known(x, t)
    PROVE  Arrival!Report(E \cup {x}, t) = Arrival!Report(E, t)
<1>1. Arrival!Agreed(E \cup {x}, t) = Arrival!Agreed(E, t)
    BY DEF Arrival!Agreed
<1>2. {e \in E \cup {x} : Arrival!Known(e, t)} = {e \in E : Arrival!Known(e, t)}
    OBVIOUS
<1>3. PICK C, V : C = Arrival!Agreed(E, t) /\ V = {e \in E : Arrival!Known(e, t)}
    OBVIOUS
<1>4. Arrival!Report(E, t) =
        [i \in {e.instance : e \in C} |->
            Arrival!Fact({e \in C : e.instance = i}, Arrival!FirstById({e \in C : e.instance = i}),
                         V, Arriving.definition, t)]
    BY <1>3 DEF Arrival!Report
<1>5. Arrival!Report(E \cup {x}, t) =
        [i \in {e.instance : e \in C} |->
            Arrival!Fact({e \in C : e.instance = i}, Arrival!FirstById({e \in C : e.instance = i}),
                         V, Arriving.definition, t)]
    <2>1. Arrival!Agreed(E \cup {x}, t) = C /\ {e \in E \cup {x} : Arrival!Known(e, t)} = V
        BY <1>1, <1>2, <1>3
    <2> QED BY <2>1 DEF Arrival!Report
<1> QED BY <1>4, <1>5

\* The rows are numbers of events with a receipt that is not in the future.
ArrivalInvariant ==
    /\ now \in Nat
    /\ rows \in Seq([event : DOMAIN Arriving.events, received : 0 .. now])
    /\ now <= Arriving.time /\ Len(rows) <= Arriving.rows
    /\ Arrival!Ordered(Arrival!Read(rows))

ReadRow(r) == [Arriving.events[r.event] EXCEPT !.received = r.received]

\* What is read of a row is an event as it is stored.
LEMMA RowsAreStored ==
    ASSUME NEW t \in Nat, NEW r \in [event : DOMAIN Arriving.events, received : 0 .. t]
    PROVE  ReadRow(r) \in Stored /\ ReadRow(r).received = r.received
<1>1. r.event \in DOMAIN Arriving.events /\ r.received \in Nat
    OBVIOUS
<1>2. Arriving.events[r.event] \in Stored
    <2>1. Arriving.events \in Seq(Stored)
        BY WorkflowAssumption
    <2> QED BY <1>1, <2>1
<1> QED BY <1>1, <1>2 DEF ReadRow, Stored

\* What the query returns of some rows.
LEMMA RowsRead ==
    ASSUME NEW u \in Nat, NEW q, q \in Seq([event : DOMAIN Arriving.events, received : 0 .. u])
    PROVE  \E m \in Nat : /\ m = Len(q) /\ DOMAIN q = 1 .. m /\ DOMAIN Arrival!Read(q) = 1 .. m
                          /\ \A k \in 1 .. m : /\ Arrival!Read(q)[k] = ReadRow(q[k])
                                               /\ Arrival!Read(q)[k] \in Stored
<1> DEFINE R == [event : DOMAIN Arriving.events, received : 0 .. u]
<1>1. PICK m \in Nat : m = Len(q) /\ q \in [1 .. m -> R]
    <2>1. q \in Seq(R)
        OBVIOUS
    <2> HIDE DEF R
    <2> QED BY <2>1
<1>2. Arrival!Read(q) = [k \in 1 .. m |-> ReadRow(q[k])]
    <2>1. DOMAIN q = 1 .. m
        BY <1>1
    <2> QED BY <2>1 DEF Arrival!Read, ReadRow
<1>3. \A r \in R : ReadRow(r) \in Stored
    BY RowsAreStored
<1>4. DOMAIN q = 1 .. m /\ \A k \in 1 .. m : q[k] \in R
    BY <1>1
<1>5. \A k \in 1 .. m : Arrival!Read(q)[k] = ReadRow(q[k]) /\ ReadRow(q[k]) \in Stored
    <2> HIDE DEF R
    <2> QED BY <1>2, <1>3, <1>4
<1>6. DOMAIN Arrival!Read(q) = 1 .. m
    BY <1>2
<1> HIDE DEF R
<1> QED BY <1>1, <1>4, <1>5, <1>6

\* Whatever the rows that the query returns, the report is that on the set of them.
LEMMA RowsReport ==
    ASSUME NEW u \in Nat, NEW q, q \in Seq([event : DOMAIN Arriving.events, received : 0 .. u]),
           Arrival!Ordered(Arrival!Read(q)), NEW t
    PROVE  Arrival!Facts(Arrival!Read(q), Arriving.definition, t) = Arrival!Report(Arrival!ToSet(Arrival!Read(q)), t)
<1>1. PICK ev : ev = Arrival!Read(q)
    OBVIOUS
<1>2. PICK m \in Nat : DOMAIN ev = 1 .. m /\ \A k \in 1 .. m : ev[k] \in Stored
    BY <1>1, RowsRead
<1>3. Arrival!ToSet(ev) = {ev[k] : k \in 1 .. m}
    BY <1>2 DEF Arrival!ToSet
<1>4. Arrival!Facts(ev, Arriving.definition, t) = Arrival!Report({ev[k] : k \in 1 .. m}, t)
    BY <1>1, <1>2, FactsAre
<1> QED BY <1>1, <1>3, <1>4

\* In whatever order the rows came and however often one was stored, the report is the same.
LEMMA ArrivalOrder == ArrivalInvariant => Arrival!OrderDoesNotMatter
    BY RowsReport DEF ArrivalInvariant, Arrival!OrderDoesNotMatter

\* The rows begin empty.
LEMMA ArrivalBegins == Arrival!Init => ArrivalInvariant
<1> SUFFICES ASSUME Arrival!Init PROVE ArrivalInvariant
    OBVIOUS
<1>1. now = 0 /\ rows = <<>> /\ Arriving.time \in Nat /\ Arriving.rows \in Nat
    BY WorkflowAssumption DEF Arrival!Init
<1> DEFINE R == [event : DOMAIN Arriving.events, received : 0 .. now]
<1>2. rows \in Seq(R) /\ Len(rows) = 0
    <2> HIDE DEF R
    <2> QED BY <1>1
<1>3. Arrival!Ordered(Arrival!Read(rows))
    <2>1. DOMAIN Arrival!Read(rows) = {}
        BY <1>1 DEF Arrival!Read
    <2> QED BY <2>1 DEF Arrival!Ordered
<1> QED BY <1>1, <1>2, <1>3 DEF ArrivalInvariant

\* Two sequences one after the other.
LEMMA Concatenated ==
    ASSUME NEW R, NEW q \in Seq(R), NEW p \in Seq(R)
    PROVE  /\ q \o p \in Seq(R) /\ Len(q \o p) = Len(q) + Len(p)
           /\ \A j \in 1 .. Len(q) + Len(p) : (q \o p)[j] = IF j <= Len(q) THEN q[j] ELSE p[j - Len(q)]
    OBVIOUS

\* A sequence with one more element.
LEMMA Inserted ==
    ASSUME NEW R, NEW q \in Seq(R), NEW k \in 1 .. Len(q) + 1, NEW r \in R, NEW p, p = Arrival!InsertAt(q, k, r)
    PROVE  /\ p \in Seq(R) /\ Len(p) = Len(q) + 1
           /\ \A j \in 1 .. Len(q) + 1 : p[j] = IF j < k THEN q[j] ELSE IF j = k THEN r ELSE q[j - 1]
<1>1. PICK m \in Nat : m = Len(q) /\ k \in 1 .. m + 1
    OBVIOUS
<1>2. PICK a, c : a = SubSeq(q, 1, k - 1) /\ c = SubSeq(q, k, m)
    OBVIOUS
<1>3. a \in Seq(R) /\ Len(a) = k - 1 /\ \A j \in 1 .. k - 1 : a[j] = q[j]
    BY <1>1, <1>2
<1>4. c \in Seq(R) /\ Len(c) = m - k + 1 /\ \A j \in 1 .. m - k + 1 : c[j] = q[j + k - 1]
    BY <1>1, <1>2
<1>5. p = (a \o <<r>>) \o c
    BY <1>1, <1>2 DEF Arrival!InsertAt
<1>6. PICK d : d = a \o <<r>>
    OBVIOUS
<1>7. d \in Seq(R) /\ Len(d) = k /\ (\A j \in 1 .. k - 1 : d[j] = q[j]) /\ d[k] = r
    <2>1. <<r>> \in Seq(R) /\ Len(<<r>>) = 1 /\ <<r>>[1] = r
        OBVIOUS
    <2>2. d \in Seq(R) /\ Len(d) = k
        BY <1>1, <1>3, <1>6, <2>1, Concatenated
    <2>3. \A j \in 1 .. k : d[j] = IF j <= k - 1 THEN a[j] ELSE <<r>>[j - (k - 1)]
        <3>1. Len(a) + Len(<<r>>) = k
            BY <1>1, <1>3, <2>1
        <3>2. \A j \in 1 .. Len(a) + Len(<<r>>) :
                 (a \o <<r>>)[j] = IF j <= Len(a) THEN a[j] ELSE <<r>>[j - Len(a)]
            BY <1>3, <2>1, Concatenated
        <3> QED BY <1>3, <1>6, <3>1, <3>2
    <2>4. \A j \in 1 .. k - 1 : j \in 1 .. k /\ j <= k - 1
        BY <1>1
    <2>5. k \in 1 .. k /\ ~(k <= k - 1) /\ k - (k - 1) = 1
        BY <1>1
    <2> QED BY <1>3, <2>1, <2>2, <2>3, <2>4, <2>5
<1>12. \A j \in 1 .. m + 1 : p[j] = IF j <= k THEN d[j] ELSE c[j - k]
    <2>1. Len(d) + Len(c) = m + 1
        BY <1>1, <1>4, <1>7
    <2>2. \A j \in 1 .. Len(d) + Len(c) : (d \o c)[j] = IF j <= Len(d) THEN d[j] ELSE c[j - Len(d)]
        <3>1. d \in Seq(R) /\ c \in Seq(R)
            BY <1>4, <1>7
        <3> QED BY <3>1, Concatenated
    <2>3. p = d \o c /\ Len(d) = k
        BY <1>5, <1>6, <1>7
    <2> QED BY <2>1, <2>2, <2>3
<1>8. p \in Seq(R) /\ Len(p) = m + 1
    <2>1. k + Len(c) = m + 1
        BY <1>1, <1>4
    <2>2. d \o c \in Seq(R) /\ Len(d \o c) = Len(d) + Len(c)
        BY <1>4, <1>7, Concatenated
    <2>3. p = d \o c
        BY <1>5, <1>6
    <2> QED BY <1>7, <2>1, <2>2, <2>3
<1>9. ASSUME NEW j \in 1 .. m + 1, j <= k PROVE p[j] = d[j]
    BY <1>9, <1>12
<1>10. ASSUME NEW j \in 1 .. m + 1, j > k PROVE p[j] = q[j - 1]
    <2>1. p[j] = c[j - k]
        BY <1>1, <1>10, <1>12
    <2>2. j - k \in 1 .. m - k + 1 /\ (j - k) + k - 1 = j - 1
        BY <1>1, <1>10
    <2> QED BY <1>4, <2>1, <2>2
<1>11. ASSUME NEW j \in 1 .. m + 1
       PROVE  p[j] = IF j < k THEN q[j] ELSE IF j = k THEN r ELSE q[j - 1]
    <2>1. CASE j < k
        <3>1. j \in 1 .. k - 1 /\ j <= k
            BY <1>1, <2>1
        <3> QED BY <1>7, <1>9, <2>1, <3>1
    <2>2. CASE j = k
        BY <1>1, <1>7, <1>9, <2>2
    <2>3. CASE j > k
        BY <1>1, <1>10, <2>3
    <2> QED BY <1>1, <2>1, <2>2, <2>3
<1> QED BY <1>1, <1>8, <1>11

\* p has the elements of q and r.
Adds(p, q, r) ==
    /\ \A j \in 1 .. Len(p) : p[j] = r \/ \E l \in 1 .. Len(q) : p[j] = q[l]
    /\ \A l \in 1 .. Len(q) : \E j \in 1 .. Len(p) : p[j] = q[l]
    /\ \E j \in 1 .. Len(p) : p[j] = r

\* Its elements are those of the other and the new one.
LEMMA InsertedSet ==
    ASSUME NEW R, NEW q \in Seq(R), NEW k \in 1 .. Len(q) + 1, NEW r \in R, NEW p, p = Arrival!InsertAt(q, k, r)
    PROVE  Adds(p, q, r)
<1>1. PICK m \in Nat : m = Len(q) /\ k \in 1 .. m + 1
    OBVIOUS
<1>2. /\ Len(p) = m + 1
      /\ \A j \in 1 .. m + 1 : p[j] = IF j < k THEN q[j] ELSE IF j = k THEN r ELSE q[j - 1]
    BY <1>1, Inserted
<1>3. ASSUME NEW j \in 1 .. m + 1 PROVE p[j] = r \/ \E l \in 1 .. m : p[j] = q[l]
    <2>1. CASE j < k
        BY <1>1, <1>2, <2>1
    <2>2. CASE j = k
        BY <1>1, <1>2, <2>2
    <2>3. CASE j > k
        <3>1. j - 1 \in 1 .. m /\ p[j] = q[j - 1]
            BY <1>1, <1>2, <2>3
        <3> QED BY <3>1
    <2> QED BY <1>1, <2>1, <2>2, <2>3
<1>4. ASSUME NEW l \in 1 .. m PROVE \E j \in 1 .. m + 1 : p[j] = q[l]
    <2>1. CASE l < k
        <3>1. l \in 1 .. m + 1 /\ p[l] = q[l]
            BY <1>1, <1>2, <2>1
        <3> QED BY <3>1
    <2>2. CASE l >= k
        <3>1. l + 1 \in 1 .. m + 1 /\ ~(l + 1 < k) /\ l + 1 # k /\ (l + 1) - 1 = l
            BY <1>1, <2>2
        <3>2. p[l + 1] = q[l]
            BY <1>2, <3>1
        <3> QED BY <3>1, <3>2
    <2> QED BY <1>1, <2>1, <2>2
<1>5. k \in 1 .. m + 1 /\ p[k] = r
    BY <1>1, <1>2
<1> QED BY <1>1, <1>2, <1>3, <1>4, <1>5 DEF Adds

\* They stay as they are, and no report on an earlier moment changes.
LEMMA ArrivalMoves ==
    ArrivalInvariant /\ Arrival!Next => ArrivalInvariant' /\ Arrival!KeepsReports
<1> SUFFICES ASSUME ArrivalInvariant, Arrival!Next PROVE ArrivalInvariant' /\ Arrival!KeepsReports
    OBVIOUS
<1> DEFINE R(t) == [event : DOMAIN Arriving.events, received : 0 .. t]
<1>1. /\ now \in Nat /\ rows \in Seq(R(now)) /\ now <= Arriving.time /\ Len(rows) <= Arriving.rows
      /\ Arriving.time \in Nat /\ Arriving.rows \in Nat /\ Len(rows) \in Nat
      /\ Arrival!Ordered(Arrival!Read(rows))
    BY WorkflowAssumption DEF ArrivalInvariant
<1>2. CASE Arrival!Tick
    <2>1. now < Arriving.time /\ now' = now + 1 /\ rows' = rows
        BY <1>2 DEF Arrival!Tick
    <2>2. R(now) \subseteq R(now + 1)
        BY <1>1
    <2>3. rows' \in Seq(R(now'))
        <3> HIDE DEF R
        <3> QED BY <1>1, <2>1, <2>2
    <2>4. Arrival!Ordered(Arrival!Read(rows'))
        BY <1>1, <2>1
    <2> QED BY <1>1, <2>1, <2>3, <2>4 DEF ArrivalInvariant, Arrival!KeepsReports
<1>3. CASE Arrival!Store
    <2>1. PICK n \in DOMAIN Arriving.events, k \in 1 .. Len(rows) + 1 :
             rows' = Arrival!InsertAt(rows, k, [event |-> n, received |-> now])
        BY <1>3 DEF Arrival!Store
    <2>2. now' = now /\ Len(rows) < Arriving.rows /\ Arrival!Ordered(Arrival!Read(rows'))
        BY <1>3 DEF Arrival!Store
    <2>3. PICK r : r = [event |-> n, received |-> now]
        OBVIOUS
    <2>4. r \in R(now) /\ r.received = now
        BY <1>1, <2>3
    <2>5. rows' \in Seq(R(now)) /\ Len(rows') = Len(rows) + 1 /\ Adds(rows', rows, r)
        <3>1. rows' = Arrival!InsertAt(rows, k, r)
            BY <2>1, <2>3
        <3> HIDE DEF R
        <3> QED BY <1>1, <2>4, <3>1, Inserted, InsertedSet
    <2>6. ArrivalInvariant'
        BY <1>1, <2>2, <2>5 DEF ArrivalInvariant
    <2>7. PICK ev, ew, x : ev = Arrival!Read(rows') /\ ew = Arrival!Read(rows) /\ x = ReadRow(r)
        OBVIOUS
    <2>8. Arrival!ToSet(ev) = Arrival!ToSet(ew) \cup {x}
        <3>1. DOMAIN ev = 1 .. Len(rows') /\ \A j \in 1 .. Len(rows') : ev[j] = ReadRow(rows'[j])
            <4>1. rows' \in Seq([event : DOMAIN Arriving.events, received : 0 .. now])
                BY <2>5
            <4> QED BY <1>1, <2>7, <4>1, RowsRead
        <3>2. DOMAIN ew = 1 .. Len(rows) /\ \A j \in 1 .. Len(rows) : ew[j] = ReadRow(rows[j])
            <4>1. rows \in Seq([event : DOMAIN Arriving.events, received : 0 .. now])
                BY <1>1
            <4> QED BY <1>1, <2>7, <4>1, RowsRead
        <3>3. PICK N, L : N = 1 .. Len(rows') /\ L = 1 .. Len(rows)
            OBVIOUS
        <3>4. \A j \in N : rows'[j] = r \/ \E l \in L : rows'[j] = rows[l]
            BY <2>5, <3>3 DEF Adds
        <3>5. (\A l \in L : \E j \in N : rows'[j] = rows[l]) /\ \E j \in N : rows'[j] = r
            BY <2>5, <3>3 DEF Adds
        <3>6. Arrival!ToSet(ev) = {ReadRow(rows'[j]) : j \in N}
            BY <3>1, <3>3 DEF Arrival!ToSet
        <3>7. Arrival!ToSet(ew) = {ReadRow(rows[l]) : l \in L}
            BY <3>2, <3>3 DEF Arrival!ToSet
        <3>8. ASSUME NEW j \in N PROVE ReadRow(rows'[j]) \in Arrival!ToSet(ew) \cup {x}
            <4>1. CASE rows'[j] = r
                BY <2>7, <4>1
            <4>2. CASE \E l \in L : rows'[j] = rows[l]
                BY <3>7, <4>2
            <4> QED BY <3>4, <4>1, <4>2
        <3>9. ASSUME NEW l \in L PROVE ReadRow(rows[l]) \in Arrival!ToSet(ev)
            <4>1. PICK j \in N : rows'[j] = rows[l]
                BY <3>5
            <4>2. ReadRow(rows'[j]) = ReadRow(rows[l])
                BY <4>1
            <4> QED BY <3>6, <4>2
        <3>10. x \in Arrival!ToSet(ev)
            <4>1. PICK j \in N : rows'[j] = r
                BY <3>5
            <4> QED BY <2>7, <3>6, <4>1
        <3> QED BY <3>6, <3>7, <3>8, <3>9, <3>10
    <2>9. ASSUME NEW t \in 0 .. now - 1
          PROVE  Arrival!Facts(ev, Arriving.definition, t) = Arrival!Facts(ew, Arriving.definition, t)
        <3>1. Arrival!Facts(ev, Arriving.definition, t) = Arrival!Report(Arrival!ToSet(ev), t)
            <4>1. rows' \in Seq([event : DOMAIN Arriving.events, received : 0 .. now])
                BY <2>5
            <4> QED BY <1>1, <2>2, <2>7, <4>1, RowsReport
        <3>2. Arrival!Facts(ew, Arriving.definition, t) = Arrival!Report(Arrival!ToSet(ew), t)
            <4>1. rows \in Seq([event : DOMAIN Arriving.events, received : 0 .. now])
                BY <1>1
            <4> QED BY <1>1, <2>7, <4>1, RowsReport
        <3>3. x.received = now
            BY <1>1, <2>4, <2>7, RowsAreStored
        <3>4. ~Arrival!Known(x, t)
            BY <1>1, <3>3 DEF Arrival!Known
        <3> QED BY <2>8, <3>1, <3>2, <3>4, ReportIgnores
    <2> QED BY <2>2, <2>6, <2>7, <2>9 DEF Arrival!KeepsReports
<1> QED BY <1>2, <1>3 DEF Arrival!Next

-----------------------------------------------------------------------------
\* The evidence of the SDK: what holds of the events E it has emitted, of an instance w that is
\* alive or saved under the number i, and of the open operations.  f counts the failures of the
\* storage, c holds the constants of the part.

Outcomes == {"feature_succeeded", "feature_failed", "feature_canceled"}
Parts == Outcomes \cup {"feature_started"}
Closings == {"workflow_completed", "workflow_failed", "workflow_canceled"}
Phases == {"workflow_started", "workflow_step_reached"} \cup Closings

Emission(c, m, n, t) ==
    [name : Phases \cup Parts, instance : 1 .. m, at : 0 .. t, received : {0}, session : Nat,
     step : DOMAIN c.triggers \cup {None}, operation : (1 .. n) \cup {None}]

Life(c, t) ==
    [state : {"pending", "started"}, startedAt : 0 .. t, reached : SUBSET DOMAIN c.triggers,
     session : Nat \ {0}, open : Int]

\* A step that waits for an operation has the operation's start and its success.
Proven(E, e) ==
    /\ e.operation # None
    /\ \E g \in E : /\ g.name = "feature_started" /\ g.operation = e.operation
                    /\ g.instance = e.instance /\ g.at <= e.at
    /\ \E g \in E : /\ g.name = "feature_succeeded" /\ g.operation = e.operation
                    /\ g.instance = e.instance /\ g.at <= e.at

\* What no failure of the storage can spoil.
Firm(c, E) ==
    /\ \A e, g \in E : e.instance = g.instance /\ e.name \notin Outcomes /\ g.name \notin Outcomes
                         => e.session = g.session
    /\ \A e, g \in E : e.operation # None /\ e.operation = g.operation => e.instance = g.instance
    /\ \A e \in E : e.name \in Outcomes => e.operation # None
    /\ \A e, g \in E : e.name \in Outcomes /\ g.name \in Outcomes /\ e.operation = g.operation => e = g
    /\ \A e \in E : e.name = "workflow_step_reached" =>
         /\ e.step \in DOMAIN c.triggers
         /\ c.triggers[e.step] = "operation_terminal" => Proven(E, e)

\* What no start comes after: an event that is not an operation's, and without a first step any.
Follower(c, g) == g.name \notin Parts \/ ~c.firstStep

\* What holds while the storage works.
Smooth(c, E) ==
    /\ \A e, g \in E : e.name = "workflow_started" /\ g.name = "workflow_started" /\ e.instance = g.instance
                         => e.at = g.at
    /\ \A e, g \in E : e.name = "workflow_started" /\ e.instance = g.instance /\ Follower(c, g)
                         => e.at <= g.at
    /\ \A e, g \in E : e.name \in Closings /\ g.name \in Closings /\ e.instance = g.instance => e = g
    /\ \A e \in E : e.name = "workflow_completed" =>
         \E g \in E : /\ g.name = "workflow_step_reached" /\ g.instance = e.instance
                      /\ g.step = c.completed /\ g.at <= e.at
    /\ \A e, g \in E : e.name = "workflow_completed" /\ g.name = "workflow_started" /\ e.instance = g.instance
                         => e.at < g.at + c.timeout

History(c, E, f) == Firm(c, E) /\ (f = 0 => Smooth(c, E))

\* The event x may follow those of E.
FirmlyAfter(c, E, x) ==
    /\ x.name \notin Outcomes =>
         \A e \in E : e.instance = x.instance /\ e.name \notin Outcomes => e.session = x.session
    /\ x.operation # None => \A e \in E : e.operation = x.operation => e.instance = x.instance
    /\ x.name \in Outcomes =>
         x.operation # None /\ \A e \in E : e.operation = x.operation => e.name \notin Outcomes
    /\ x.name = "workflow_step_reached" =>
         /\ x.step \in DOMAIN c.triggers
         /\ c.triggers[x.step] = "operation_terminal" => Proven(E, x)

SmoothlyAfter(c, E, x) ==
    /\ \A e \in E : e.at <= x.at
    /\ x.name = "workflow_started" => \A e \in E : e.instance = x.instance => e.name \in Parts /\ c.firstStep
    /\ x.name \in Closings => \A e \in E : e.instance = x.instance => e.name \notin Closings
    /\ x.name = "workflow_completed" =>
         /\ \E g \in E : g.name = "workflow_step_reached" /\ g.instance = x.instance /\ g.step = c.completed
         /\ \A g \in E : g.name = "workflow_started" /\ g.instance = x.instance => x.at < g.at + c.timeout

\* What is proved stays proved.
LEMMA ProvenGrows == ASSUME NEW E, NEW x, NEW e, Proven(E, e) PROVE Proven(E \cup {x}, e)
    BY DEF Proven

\* A new event that goes with the firm facts keeps them.
LEMMA FirmGrows ==
    ASSUME NEW c, NEW E, NEW x, Firm(c, E), FirmlyAfter(c, E, x) PROVE Firm(c, E \cup {x})
<1> DEFINE F == E \cup {x}
<1>1. ASSUME NEW e \in F, NEW g \in F, e.instance = g.instance, e.name \notin Outcomes, g.name \notin Outcomes
      PROVE  e.session = g.session
    BY <1>1 DEF Firm, FirmlyAfter
<1>2. ASSUME NEW e \in F, NEW g \in F, e.operation # None, e.operation = g.operation
      PROVE  e.instance = g.instance
    BY <1>2 DEF Firm, FirmlyAfter
<1>3. ASSUME NEW e \in F, e.name \in Outcomes PROVE e.operation # None
    BY <1>3 DEF Firm, FirmlyAfter
<1>4. ASSUME NEW e \in F, NEW g \in F, e.name \in Outcomes, g.name \in Outcomes, e.operation = g.operation
      PROVE  e = g
    BY <1>4 DEF Firm, FirmlyAfter
<1>5. ASSUME NEW e \in F, e.name = "workflow_step_reached"
      PROVE  /\ e.step \in DOMAIN c.triggers
             /\ c.triggers[e.step] = "operation_terminal" => Proven(F, e)
    <2>1. /\ e.step \in DOMAIN c.triggers
          /\ c.triggers[e.step] = "operation_terminal" => Proven(E, e)
        BY <1>5 DEF Firm, FirmlyAfter
    <2> QED BY <2>1, ProvenGrows
<1>6. PICK G : G = F
    OBVIOUS
<1> HIDE DEF F
<1>7. Firm(c, F)
    BY <1>1, <1>2, <1>3, <1>4, <1>5 DEF Firm
<1> QED BY <1>7 DEF F

\* And so with the smooth ones.
LEMMA SmoothGrows ==
    ASSUME NEW c, NEW E, NEW x, \A e \in E \cup {x} : e.at \in Nat, Smooth(c, E), SmoothlyAfter(c, E, x)
    PROVE  Smooth(c, E \cup {x})
<1> DEFINE F == E \cup {x}
<1>0. ~("workflow_started" \in Parts) /\ ~("workflow_started" \in Closings) /\ ~("workflow_completed" \in Parts)
      /\ "workflow_completed" \in Closings /\ "workflow_started" # "workflow_completed"
    BY DEF Parts, Closings, Outcomes
<1>1. ASSUME NEW e \in F, NEW g \in F, e.name = "workflow_started", g.name = "workflow_started",
             e.instance = g.instance
      PROVE  e.at = g.at
    BY <1>0, <1>1 DEF Smooth, SmoothlyAfter
<1>2. ASSUME NEW e \in F, NEW g \in F, e.name = "workflow_started", e.instance = g.instance,
             Follower(c, g)
      PROVE  e.at <= g.at
    <2>1. CASE e \in E /\ g \in E
        BY <1>2, <2>1 DEF Smooth
    <2>2. CASE g = x
        <3>1. e = x \/ e.at <= x.at
            BY DEF SmoothlyAfter
        <3> QED BY <2>2, <3>1
    <2>3. CASE e = x /\ g \in E
        <3>1. g.name \in Parts /\ c.firstStep
            BY <1>2, <2>3 DEF SmoothlyAfter
        <3> QED BY <1>2, <3>1 DEF Follower
    <2> QED BY <2>1, <2>2, <2>3
<1>3. ASSUME NEW e \in F, NEW g \in F, e.name \in Closings, g.name \in Closings, e.instance = g.instance
      PROVE  e = g
    BY <1>3 DEF Smooth, SmoothlyAfter
<1>4. ASSUME NEW e \in F, e.name = "workflow_completed"
      PROVE  \E g \in F : /\ g.name = "workflow_step_reached" /\ g.instance = e.instance
                          /\ g.step = c.completed /\ g.at <= e.at
    <2>1. CASE e \in E
        BY <1>4, <2>1 DEF Smooth
    <2>2. CASE e = x
        BY <1>4, <2>2 DEF SmoothlyAfter
    <2> QED BY <2>1, <2>2
<1>5. ASSUME NEW e \in F, NEW g \in F, e.name = "workflow_completed", g.name = "workflow_started",
             e.instance = g.instance
      PROVE  e.at < g.at + c.timeout
    <2>1. CASE e \in E /\ g \in E
        BY <1>5, <2>1 DEF Smooth
    <2>2. CASE e = x
        BY <1>0, <1>5, <2>2 DEF SmoothlyAfter
    <2>3. CASE e \in E /\ g = x
        BY <1>0, <1>5, <2>3 DEF SmoothlyAfter
    <2> QED BY <2>1, <2>2, <2>3
<1> HIDE DEF F
<1>6. \A e, g \in F : e.name = "workflow_started" /\ g.name = "workflow_started" /\ e.instance = g.instance
                         => e.at = g.at
    BY <1>1
<1>7. \A e, g \in F : e.name = "workflow_started" /\ e.instance = g.instance /\ Follower(c, g)
                         => e.at <= g.at
    BY <1>2
<1>8. \A e, g \in F : e.name \in Closings /\ g.name \in Closings /\ e.instance = g.instance => e = g
    BY <1>3
<1>9. \A e \in F : e.name = "workflow_completed" =>
         \E g \in F : /\ g.name = "workflow_step_reached" /\ g.instance = e.instance
                      /\ g.step = c.completed /\ g.at <= e.at
    BY <1>4
<1>10. \A e, g \in F : e.name = "workflow_completed" /\ g.name = "workflow_started" /\ e.instance = g.instance
                         => e.at < g.at + c.timeout
    BY <1>5
<1>11. Smooth(c, F)
    BY <1>6, <1>7, <1>8, <1>9, <1>10 DEF Smooth
<1> QED BY <1>11 DEF F

\* The instance w under the number i goes with the events E: none is older than its start, one is
\* its start, and all have its session.
Bound(c, w, i, E) ==
    /\ w.state = "pending" => \A e \in E : e.instance = i => w.startedAt <= e.at
    /\ w.state = "started" =>
         \E e \in E : e.instance = i /\ e.name = "workflow_started" /\ e.at = w.startedAt
    /\ \A e \in E : e.instance = i /\ e.name \notin Outcomes => e.session = w.session
    /\ c.firstStep \/ w.state = "started"

\* And while the storage works it is exactly what they tell.
Evidenced(w, i, E) ==
    /\ \A e \in E : e.instance = i => e.name \notin Closings
    /\ w.state = "pending" => \A e \in E : e.instance = i => e.name \in Parts
    /\ w.state = "started" => \A e \in E : e.instance = i /\ e.name = "workflow_started" => e.at = w.startedAt
    /\ \A k \in w.reached : \E e \in E : e.instance = i /\ e.name = "workflow_step_reached" /\ e.step = k

Suits(c, w, i, E, f) == Bound(c, w, i, E) /\ (f = 0 => Evidenced(w, i, E))

\* An event of another instance, or of one of its operations, changes nothing.
LEMMA SuitsQuiet ==
    ASSUME NEW c, NEW w, NEW i, NEW E, NEW f, NEW x, Suits(c, w, i, E, f),
           x.instance = i => /\ w.startedAt <= x.at /\ (x.name \in Outcomes \/ x.session = w.session)
                             /\ f = 0 => x.name \in Parts
    PROVE  Suits(c, w, i, E \cup {x}, f)
<1>1. Bound(c, w, i, E \cup {x})
    BY DEF Suits, Bound
<1>2. ASSUME f = 0 PROVE Evidenced(w, i, E \cup {x})
    <2>1. Evidenced(w, i, E) /\ (x.instance = i => x.name \in Parts)
        BY <1>2 DEF Suits
    <2>2. "workflow_started" \notin Parts /\ \A a \in Parts : a \notin Closings
        BY DEF Parts, Closings, Outcomes
    <2> QED BY <2>1, <2>2 DEF Evidenced
<1> QED BY <1>1, <1>2 DEF Suits

\* Neither does the number of its open operations.
LEMMA SuitsOpen ==
    ASSUME NEW c, NEW w, NEW v, NEW i, NEW E, NEW f, Suits(c, w, i, E, f), v.state = w.state,
           v.startedAt = w.startedAt, v.reached = w.reached, v.session = w.session
    PROVE  Suits(c, v, i, E, f)
    BY DEF Suits, Bound, Evidenced

\* More failures ask less.
LEMMA SuitsFail ==
    ASSUME NEW c, NEW w, NEW i, NEW E, NEW f, NEW g, Suits(c, w, i, E, f), g = 0 => f = 0
    PROVE  Suits(c, w, i, E, g)
    BY DEF Suits

-----------------------------------------------------------------------------
\* The states of the SDK.

\* The instances a, of which there are m and which fit the events E at the time t.
LivesOk(c, a, E, m, t, f) ==
    /\ DOMAIN a \subseteq 1 .. m /\ Cardinality(DOMAIN a) <= c.active
    /\ \A i \in DOMAIN a : a[i] \in Life(c, t) /\ Suits(c, a[i], i, E, f)

Paired(a, v) == \A i \in DOMAIN a \cap DOMAIN v : a[i].session = v[i].session

\* What was saved of an instance in memory began before t, in the same session.
LEMMA LivesSaved ==
    ASSUME NEW c, NEW a, NEW v, NEW E, NEW m, NEW t \in Nat, NEW f, LivesOk(c, v, E, m, t, f), Paired(a, v),
           NEW i \in DOMAIN a, i \in DOMAIN v
    PROVE  v[i].startedAt <= t /\ v[i].session = a[i].session
<1>1. v[i] \in Life(c, t)
    BY DEF LivesOk
<1> QED BY <1>1 DEF Life, Paired

Host(t) == [session : Nat \ {0}, activity : 0 .. t]

Sdk(h, a, v, E) == [host |-> h, active |-> a, saved |-> v, events |-> E]

\* What holds before and after every call; m and n count the instances and the operations.
Held(c, s, m, n, t, f) ==
    /\ s = Sdk(s.host, s.active, s.saved, s.events)
    /\ s.host \in Host(t)
    /\ s.events \subseteq Emission(c, m, n, t) /\ History(c, s.events, f)
    /\ LivesOk(c, s.active, s.events, m, t, f) /\ LivesOk(c, s.saved, s.events, m, t, f)
    /\ Paired(s.active, s.saved)

Without(a, i) == [y \in DOMAIN a \ {i} |-> a[y]]

\* The state r follows from s by a call on the instance i.
Carries(c, s, r, i, m, n, t, f) ==
    /\ Held(c, r, m, n, t, f) /\ s.events \subseteq r.events
    /\ \A e \in r.events : e \in s.events \/ (e.instance = i /\ e.name \notin Outcomes)

\* And from s by the end of the instance i.
Released(c, s, r, i, m, n, t, f) ==
    Held(c, r, m, n, t, f) /\ r.events = s.events /\ i \notin DOMAIN r.active

\* What a write stores.
Snapshot(a) == [i \in DOMAIN a |-> [a[i] EXCEPT !.open = 0]]

\* The event a call emits.
Emitted(name, i, t, session, step, operation) ==
    [name |-> name, instance |-> i, at |-> t, received |-> 0, session |-> session, step |-> step,
     operation |-> operation]

\* No model value is a number.
LEMMA NoneIsNoNumber == None \notin Nat
    BY BrowserAssumption

\* What persist() writes is a set of instances without open operations.
LEMMA SnapshotOk ==
    ASSUME NEW c, NEW a, NEW E, NEW m, NEW t, NEW f, LivesOk(c, a, E, m, t, f)
    PROVE  LivesOk(c, Snapshot(a), E, m, t, f) /\ Paired(a, Snapshot(a))
<1> DEFINE v == Snapshot(a)
<1>1. DOMAIN v = DOMAIN a
    BY DEF Snapshot
<1>2. ASSUME NEW i \in DOMAIN a
      PROVE  v[i] \in Life(c, t) /\ Suits(c, v[i], i, E, f) /\ v[i].session = a[i].session
    <2>1. v[i] = [a[i] EXCEPT !.open = 0]
        BY <1>2 DEF Snapshot
    <2>2. a[i] \in Life(c, t) /\ Suits(c, a[i], i, E, f)
        BY <1>2 DEF LivesOk
    <2>3. /\ v[i] \in Life(c, t) /\ v[i].state = a[i].state /\ v[i].startedAt = a[i].startedAt
          /\ v[i].reached = a[i].reached /\ v[i].session = a[i].session
        BY <2>1, <2>2 DEF Life
    <2>4. Suits(c, v[i], i, E, f)
        BY <2>2, <2>3, SuitsOpen
    <2> QED BY <2>3, <2>4
<1>3. DOMAIN a \subseteq 1 .. m /\ Cardinality(DOMAIN a) <= c.active
    BY DEF LivesOk
<1>4. LivesOk(c, v, E, m, t, f)
    <2> HIDE DEF v
    <2> QED BY <1>1, <1>2, <1>3 DEF LivesOk
<1>5. Paired(a, v)
    <2> HIDE DEF v
    <2> QED BY <1>1, <1>2 DEF Paired
<1> QED BY <1>4, <1>5

\* A state that has just been written, or whose write has failed.
LEMMA HeldWritten ==
    ASSUME NEW c, NEW h, NEW a, NEW E, NEW m, NEW n, NEW t, NEW f,
           h \in Host(t), E \subseteq Emission(c, m, n, t), History(c, E, f), LivesOk(c, a, E, m, t, f)
    PROVE  Held(c, Sdk(h, a, Snapshot(a), E), m, n, t, f)
    BY SnapshotOk DEF Held, Sdk

\* When the storage fails, the saved instances stay as they were.
LEMMA HeldUnwritten ==
    ASSUME NEW c, NEW h, NEW a, NEW v, NEW E, NEW m, NEW n, NEW t, NEW f,
           h \in Host(t), E \subseteq Emission(c, m, n, t), History(c, E, f), LivesOk(c, a, E, m, t, f),
           LivesOk(c, v, E, m, t, f), Paired(a, v)
    PROVE  Held(c, Sdk(h, a, v, E), m, n, t, f)
    BY DEF Held, Sdk

\* An event that is in no instance's way leaves the instances fitting.
LEMMA LivesQuiet ==
    ASSUME NEW c, NEW a, NEW E, NEW m, NEW t, NEW f, NEW x, LivesOk(c, a, E, m, t, f),
           x.instance \in DOMAIN a =>
             /\ a[x.instance].startedAt <= x.at
             /\ x.name \in Outcomes \/ x.session = a[x.instance].session
             /\ f = 0 => x.name \in Parts
    PROVE  LivesOk(c, a, E \cup {x}, m, t, f)
<1>1. ASSUME NEW i \in DOMAIN a PROVE Suits(c, a[i], i, E \cup {x}, f)
    <2>1. Suits(c, a[i], i, E, f)
        BY <1>1 DEF LivesOk
    <2>2. x.instance = i => /\ a[i].startedAt <= x.at /\ (x.name \in Outcomes \/ x.session = a[i].session)
                            /\ f = 0 => x.name \in Parts
        BY <1>1
    <2> QED BY <2>1, <2>2, SuitsQuiet
<1> QED BY <1>1 DEF LivesOk

\* Some of the instances.
Only(a, K) == [y \in K |-> a[y]]

\* Some of the instances fit what all of them fit.
LEMMA LivesSome ==
    ASSUME NEW c, c.active \in Nat, NEW a, NEW E, NEW m \in Nat, NEW t, NEW f, LivesOk(c, a, E, m, t, f),
           NEW K \in SUBSET DOMAIN a
    PROVE  LivesOk(c, Only(a, K), E, m, t, f)
<1> DEFINE b == Only(a, K)
<1>1. DOMAIN b = K /\ \A y \in DOMAIN b : b[y] = a[y]
    BY DEF Only
<1>2. Cardinality(DOMAIN b) <= c.active
    <2>1. IsFiniteSet(1 .. m) /\ DOMAIN a \subseteq 1 .. m /\ Cardinality(DOMAIN a) <= c.active
        BY FS_Interval DEF LivesOk
    <2>2. IsFiniteSet(DOMAIN a)
        BY <2>1, FS_Subset
    <2>3. DOMAIN b \in SUBSET DOMAIN a
        BY <1>1
    <2>4. Cardinality(DOMAIN b) <= Cardinality(DOMAIN a) /\ IsFiniteSet(DOMAIN b)
        BY <2>2, <2>3, FS_Subset
    <2>5. Cardinality(DOMAIN b) \in Nat /\ Cardinality(DOMAIN a) \in Nat
        BY <2>2, <2>4, FS_CardinalityType
    <2> QED BY <2>1, <2>4, <2>5
<1> HIDE DEF b
<1>3. LivesOk(c, b, E, m, t, f)
    BY <1>1, <1>2 DEF LivesOk
<1> QED BY <1>3 DEF b

\* All but one, for example.
LEMMA LivesFewer ==
    ASSUME NEW c, c.active \in Nat, NEW a, NEW E, NEW m \in Nat, NEW t, NEW f, LivesOk(c, a, E, m, t, f), NEW i
    PROVE  LivesOk(c, Without(a, i), E, m, t, f)
<1>1. Without(a, i) = Only(a, DOMAIN a \ {i})
    BY DEF Without, Only
<1> QED BY <1>1, LivesSome

\* And they stay paired with what is saved.
LEMMA PairedFewer ==
    ASSUME NEW a, NEW v, NEW i, Paired(a, v) PROVE Paired(Without(a, i), v)
    BY DEF Paired, Without

\* What is emitted is an event.
LEMMA EmittedTyped ==
    ASSUME NEW c, NEW m \in Nat, NEW n \in Nat, NEW t \in Nat, NEW name \in Phases \cup Parts, NEW i \in 1 .. m,
           NEW session \in Nat, NEW step \in DOMAIN c.triggers \cup {None}, NEW o \in (1 .. n) \cup {None}
    PROVE  Emitted(name, i, t, session, step, o) \in Emission(c, m, n, t)
    BY DEF Emitted, Emission

\* The history grows by an event that goes with it.
LEMMA HistoryGrows ==
    ASSUME NEW c, NEW m, NEW n, NEW t \in Nat, NEW f, NEW E, E \subseteq Emission(c, m, n, t), NEW x, x.at = t,
           History(c, E, f), FirmlyAfter(c, E, x), f = 0 => SmoothlyAfter(c, E, x)
    PROVE  History(c, E \cup {x}, f)
<1>1. Firm(c, E \cup {x})
    BY FirmGrows DEF History
<1>2. \A e \in E \cup {x} : e.at \in Nat
    BY DEF Emission
<1>3. f = 0 => Smooth(c, E \cup {x})
    BY <1>2, SmoothGrows DEF History
<1> QED BY <1>1, <1>3 DEF History

-----------------------------------------------------------------------------
\* The operation o of the instance i, or none, backs the step.
Backs(c, E, i, step, o) ==
    /\ step \in DOMAIN c.triggers
    /\ o # None => \A e \in E : e.operation = o => e.instance = i
    /\ c.triggers[step] = "operation_terminal" =>
         /\ o # None
         /\ \E e \in E : e.name = "feature_started" /\ e.operation = o /\ e.instance = i
         /\ \E e \in E : e.name = "feature_succeeded" /\ e.operation = o /\ e.instance = i

\* What backs a step goes on backing it.
LEMMA BacksGrows ==
    ASSUME NEW c, NEW E, NEW F, E \subseteq F, NEW i, NEW step, NEW o, Backs(c, E, i, step, o),
           \A e \in F : e \in E \/ e.instance = i
    PROVE  Backs(c, F, i, step, o)
<1>1. o # None => \A e \in F : e.operation = o => e.instance = i
    BY DEF Backs
<1>2. step \in DOMAIN c.triggers
    BY DEF Backs
<1>3. c.triggers[step] = "operation_terminal" =>
         /\ o # None
         /\ \E e \in F : e.name = "feature_started" /\ e.operation = o /\ e.instance = i
         /\ \E e \in F : e.name = "feature_succeeded" /\ e.operation = o /\ e.instance = i
    BY DEF Backs
<1> QED BY <1>1, <1>2, <1>3 DEF Backs

\* The instance w once it has reached the step.
Stepped(w, step, t) ==
    [state |-> "started", startedAt |-> IF w.state = "started" THEN w.startedAt ELSE t,
     reached |-> w.reached \cup {step}, session |-> w.session, open |-> w.open]

\* The events once it has started.
AfterStart(w, i, E, t) ==
    IF w.state = "started" THEN E ELSE E \cup {Emitted("workflow_started", i, t, w.session, None, None)}

Replaced(a, i, w) == [y \in DOMAIN a |-> IF y = i THEN w ELSE a[y]]

Reaching(s, i, step) == [s EXCEPT !.active[i].reached = @ \cup {step}]
Beginning(s, i, t) == [s EXCEPT !.active[i].startedAt = t, !.active[i].state = "started"]

WithStep(w, step) == [w EXCEPT !.reached = @ \cup {step}]
WithStart(w, t) == [w EXCEPT !.startedAt = t]
WithState(w) == [w EXCEPT !.state = "started"]

Renewed(w, t) == [session |-> w.session, activity |-> t]

\* The fields of an SDK of which an instance reaches a step.
LEMMA ReachingOf ==
    ASSUME NEW g, NEW a, NEW v, NEW E, NEW i, NEW step
    PROVE  Reaching(Sdk(g, a, v, E), i, step) = Sdk(g, Replaced(a, i, WithStep(a[i], step)), v, E)
    BY DEF Reaching, Sdk, Replaced, WithStep

\* The fields of an SDK of which an instance starts.
LEMMA BeginningOf ==
    ASSUME NEW g, NEW a, NEW v, NEW E, NEW i \in DOMAIN a, NEW t
    PROVE  Beginning(Sdk(g, a, v, E), i, t) = Sdk(g, Replaced(a, i, WithState(WithStart(a[i], t))), v, E)
<1>1. PICK r, q, u, d, b :
         /\ r = Sdk(g, a, v, E) /\ q = [r EXCEPT !.active[i].startedAt = t] /\ u = WithStart(a[i], t)
         /\ d = Replaced(a, i, u) /\ b = Replaced(d, i, WithState(d[i]))
    OBVIOUS
<1>2. q = Sdk(g, d, v, E)
    <2>1. [Sdk(g, a, v, E) EXCEPT !.active[i].startedAt = t] = Sdk(g, Replaced(a, i, WithStart(a[i], t)), v, E)
        BY DEF Sdk, Replaced, WithStart
    <2> QED BY <1>1, <2>1
<1>3. [r EXCEPT !.active[i].startedAt = t, !.active[i].state = "started"] = [q EXCEPT !.active[i].state = "started"]
    BY <1>1
<1>4. [q EXCEPT !.active[i].state = "started"] = Sdk(g, b, v, E)
    <2>1. [Sdk(g, d, v, E) EXCEPT !.active[i].state = "started"] = Sdk(g, Replaced(d, i, WithState(d[i])), v, E)
        BY DEF Sdk, Replaced, WithState
    <2> QED BY <1>1, <1>2, <2>1
<1>5. b = Replaced(a, i, WithState(u))
    <2>1. d[i] = u
        BY <1>1 DEF Replaced
    <2>2. Replaced(d, i, WithState(u)) = Replaced(a, i, WithState(u))
        BY <1>1 DEF Replaced
    <2> QED BY <1>1, <2>1, <2>2
<1>6. Beginning(r, i, t) = Sdk(g, Replaced(a, i, WithState(u)), v, E)
    BY <1>3, <1>4, <1>5 DEF Beginning
<1> QED BY <1>1, <1>6

\* What the start of w leaves.
Opened(c, w, i, E, m, n, t, f) ==
    LET D == AfterStart(w, i, E, t)
    IN  /\ History(c, D, f) /\ D \subseteq Emission(c, m, n, t)
        /\ \A e \in D : e.instance = i /\ e.name \notin Outcomes => e.session = w.session

\* Its start goes with the history and with the instances.
LEMMA StartedHistory ==
    ASSUME NEW c, NEW m \in Nat, NEW n \in Nat, NEW t \in Nat, NEW f, NEW E, E \subseteq Emission(c, m, n, t),
           History(c, E, f), NEW i \in 1 .. m, NEW w \in Life(c, t), Suits(c, w, i, E, f)
    PROVE  Opened(c, w, i, E, m, n, t, f)
<1>1. CASE w.state = "started"
    BY <1>1 DEF Opened, AfterStart, Suits, Bound
<1>2. CASE w.state # "started"
    <2>1. w.state = "pending" /\ w.session \in Nat
        BY <1>2 DEF Life
    <2>2. PICK x : x = Emitted("workflow_started", i, t, w.session, None, None)
        OBVIOUS
    <2>3. /\ x \in Emission(c, m, n, t) /\ x.at = t /\ x.instance = i /\ x.name = "workflow_started"
          /\ x.session = w.session /\ x.operation = None
        <3>1. "workflow_started" \in Phases \cup Parts
            BY DEF Phases
        <3> QED BY <2>1, <2>2, <3>1, EmittedTyped DEF Emitted
    <2>4. "workflow_started" \notin Outcomes /\ "workflow_started" \notin Closings
        BY DEF Outcomes, Closings
    <2>5. \A e \in E : e.instance = i /\ e.name \notin Outcomes => e.session = w.session
        BY DEF Suits, Bound
    <2>6. FirmlyAfter(c, E, x)
        BY <2>3, <2>4, <2>5 DEF FirmlyAfter
    <2>7. ASSUME f = 0 PROVE SmoothlyAfter(c, E, x)
        <3>1. \A e \in E : e.at <= t
            BY DEF Emission
        <3>2. \A e \in E : e.instance = i => e.name \in Parts
            BY <2>1, <2>7 DEF Suits, Evidenced
        <3>3. c.firstStep
            BY <2>1 DEF Suits, Bound
        <3> QED BY <2>3, <2>4, <3>1, <3>2, <3>3 DEF SmoothlyAfter
    <2>8. History(c, E \cup {x}, f)
        BY <2>3, <2>6, <2>7, HistoryGrows
    <2>9. AfterStart(w, i, E, t) = E \cup {x}
        BY <1>2, <2>2 DEF AfterStart
    <2> QED BY <2>3, <2>5, <2>8, <2>9 DEF Opened
<1> QED BY <1>1, <1>2

\* The instance goes with what it has emitted.
LEMMA SteppedSuits ==
    ASSUME NEW c, NEW m \in Nat, NEW n \in Nat, NEW t \in Nat, NEW f, NEW E, NEW i \in 1 .. m,
           NEW w \in Life(c, t), Suits(c, w, i, E, f), NEW step, NEW x, x.instance = i,
           x.name = "workflow_step_reached", x.session = w.session, x.step = step
    PROVE  Suits(c, Stepped(w, step, t), i, AfterStart(w, i, E, t) \cup {x}, f)
<1>1. PICK u, F : u = Stepped(w, step, t) /\ F = AfterStart(w, i, E, t) \cup {x}
    OBVIOUS
<1>2. /\ u.state = "started" /\ u.startedAt = IF w.state = "started" THEN w.startedAt ELSE t
      /\ u.reached = w.reached \cup {step} /\ u.session = w.session
    BY <1>1 DEF Stepped
<1>3. PICK y : y = Emitted("workflow_started", i, t, w.session, None, None)
    OBVIOUS
<1>4. y.name = "workflow_started" /\ y.at = t /\ y.instance = i /\ y.session = w.session
    BY <1>3 DEF Emitted
<1>5. /\ \A e \in F : e \in E \/ e = x \/ (e = y /\ w.state # "started")
      /\ E \subseteq F /\ x \in F
      /\ w.state # "started" => y \in F
    BY <1>1, <1>3 DEF AfterStart
<1>6. "workflow_started" \notin Closings /\ "workflow_step_reached" \notin Closings /\ "workflow_started" \notin Parts
    BY DEF Closings, Parts, Outcomes
<1>7. /\ w.state = "started" => \E e \in E : e.instance = i /\ e.name = "workflow_started" /\ e.at = w.startedAt
      /\ \A e \in E : e.instance = i /\ e.name \notin Outcomes => e.session = w.session
    BY DEF Suits, Bound
<1>8. Bound(c, u, i, F)
    <2>1. \E e \in F : e.instance = i /\ e.name = "workflow_started" /\ e.at = u.startedAt
        BY <1>2, <1>4, <1>5, <1>7
    <2>2. \A e \in F : e.instance = i /\ e.name \notin Outcomes => e.session = u.session
        BY <1>2, <1>4, <1>5, <1>7
    <2> QED BY <1>2, <2>1, <2>2 DEF Bound
<1>9. ASSUME f = 0 PROVE Evidenced(u, i, F)
    <2>1. Evidenced(w, i, E)
        BY <1>9 DEF Suits
    <2>2. \A e \in F : e.instance = i => e.name \notin Closings
        BY <1>4, <1>5, <1>6, <2>1 DEF Evidenced
    <2>3. ASSUME NEW e \in F, e.instance = i, e.name = "workflow_started" PROVE e.at = u.startedAt
        <3>1. CASE e \in E
            <4>1. w.state # "pending"
                BY <1>6, <2>1, <2>3, <3>1 DEF Evidenced
            <4>2. w.state = "started"
                BY <4>1 DEF Life
            <4> QED BY <1>2, <2>1, <2>3, <3>1, <4>2 DEF Evidenced
        <3>2. CASE e = y /\ w.state # "started"
            BY <1>2, <1>4, <3>2
        <3> QED BY <1>5, <2>3, <3>1, <3>2
    <2>4. \A k \in u.reached : \E e \in F : e.instance = i /\ e.name = "workflow_step_reached" /\ e.step = k
        BY <1>2, <1>5, <2>1 DEF Evidenced
    <2> QED BY <1>2, <2>2, <2>3, <2>4 DEF Evidenced
<1> QED BY <1>1, <1>8, <1>9 DEF Suits

\* All instances do.
LEMMA SteppedLives ==
    ASSUME NEW c, NEW m \in Nat, NEW n \in Nat, NEW t \in Nat, NEW f, NEW E, NEW a, LivesOk(c, a, E, m, t, f),
           NEW i \in DOMAIN a, NEW step \in DOMAIN c.triggers, NEW x, x.instance = i,
           x.name = "workflow_step_reached", x.session = a[i].session, x.step = step
    PROVE  LivesOk(c, Replaced(a, i, Stepped(a[i], step, t)), AfterStart(a[i], i, E, t) \cup {x}, m, t, f)
<1>1. PICK w, u, b, F : /\ w = a[i] /\ u = Stepped(w, step, t) /\ b = Replaced(a, i, u)
                        /\ F = AfterStart(w, i, E, t) \cup {x}
    OBVIOUS
<1>2. DOMAIN b = DOMAIN a /\ \A j \in DOMAIN a : b[j] = IF j = i THEN u ELSE a[j]
    BY <1>1 DEF Replaced
<1>3. w \in Life(c, t) /\ Suits(c, w, i, E, f) /\ i \in 1 .. m
    BY <1>1 DEF LivesOk
<1>4. u \in Life(c, t)
    BY <1>1, <1>3 DEF Life, Stepped
<1>5. Suits(c, u, i, F, f)
    BY <1>1, <1>3, SteppedSuits
<1>6. ASSUME NEW j \in DOMAIN a, j # i PROVE Suits(c, a[j], j, F, f)
    <2>1. Suits(c, a[j], j, E, f)
        BY DEF LivesOk
    <2>2. Suits(c, a[j], j, AfterStart(w, i, E, t), f)
        <3>1. CASE w.state = "started"
            BY <2>1, <3>1 DEF AfterStart
        <3>2. CASE w.state # "started"
            <4>1. PICK y : y = Emitted("workflow_started", i, t, w.session, None, None)
                OBVIOUS
            <4>2. y.instance # j
                BY <1>6, <4>1 DEF Emitted
            <4>3. Suits(c, a[j], j, E \cup {y}, f)
                BY <2>1, <4>2, SuitsQuiet
            <4> QED BY <3>2, <4>1, <4>3 DEF AfterStart
        <3> QED BY <3>1, <3>2
    <2> QED BY <1>1, <1>6, <2>2, SuitsQuiet
<1>7. LivesOk(c, b, F, m, t, f)
    <2>1. DOMAIN a \subseteq 1 .. m /\ Cardinality(DOMAIN a) <= c.active /\ \A j \in DOMAIN a : a[j] \in Life(c, t)
        BY DEF LivesOk
    <2>2. \A j \in DOMAIN b : b[j] \in Life(c, t) /\ Suits(c, b[j], j, F, f)
        BY <1>2, <1>4, <1>5, <1>6, <2>1
    <2> QED BY <1>2, <2>1, <2>2 DEF LivesOk
<1> QED BY <1>1, <1>7

\* What an unsuccessful write leaves behind goes with them, too.
LEMMA SteppedSaved ==
    ASSUME NEW c, NEW m \in Nat, NEW n \in Nat, NEW t \in Nat, NEW f, f # 0, NEW E, NEW v, LivesOk(c, v, E, m, t, f),
           NEW i, NEW w, i \in DOMAIN v => v[i].session = w.session, NEW x, x.instance = i, x.at = t,
           x.session = w.session
    PROVE  LivesOk(c, v, AfterStart(w, i, E, t) \cup {x}, m, t, f)
<1>1. i \in DOMAIN v => v[i].startedAt <= t /\ v[i].session = w.session
    BY DEF LivesOk, Life
<1>2. LivesOk(c, v, AfterStart(w, i, E, t), m, t, f)
    <2>1. CASE w.state = "started"
        BY <2>1 DEF AfterStart
    <2>2. CASE w.state # "started"
        <3>1. PICK y : y = Emitted("workflow_started", i, t, w.session, None, None)
            OBVIOUS
        <3>2. y.instance = i /\ y.at = t /\ y.session = w.session
            BY <3>1 DEF Emitted
        <3>3. LivesOk(c, v, E \cup {y}, m, t, f)
            BY <1>1, <3>2, LivesQuiet
        <3> QED BY <2>2, <3>1, <3>3 DEF AfterStart
    <2> QED BY <2>1, <2>2
<1> QED BY <1>1, <1>2, LivesQuiet

\* The state once the instance i has reached the step.
AfterStep(a, v, E, i, step, o) ==
    LET b == Replaced(a, i, Stepped(a[i], step, now))
    IN  Sdk(Renewed(a[i], now), b, IF storing THEN Snapshot(b) ELSE v,
            AfterStart(a[i], i, E, now)
              \cup {Emitted("workflow_step_reached", i, now, a[i].session, step, o)})

\* An instance that changes keeps its session.
LEMMA PairedReplaced ==
    ASSUME NEW a, NEW v, NEW i, NEW w, Paired(a, v), i \in DOMAIN a => w.session = a[i].session
    PROVE  Paired(Replaced(a, i, w), v)
    BY DEF Paired, Replaced

-----------------------------------------------------------------------------
\* Later, with more instances and operations, and after more failures, no more is asked.
LEMMA HistoryFails ==
    ASSUME NEW c, NEW E, NEW f, NEW g, History(c, E, f), g = 0 => f = 0 PROVE History(c, E, g)
    BY DEF History

\* The instances.
LEMMA LivesLater ==
    ASSUME NEW c, NEW a, NEW E, NEW m \in Nat, NEW k \in Nat, m <= k, NEW t \in Nat, NEW u \in Nat, t <= u,
           NEW f, NEW g, g = 0 => f = 0, LivesOk(c, a, E, m, t, f)
    PROVE  LivesOk(c, a, E, k, u, g)
<1>1. DOMAIN a \subseteq 1 .. k /\ Cardinality(DOMAIN a) <= c.active
    BY DEF LivesOk
<1>2. ASSUME NEW i \in DOMAIN a PROVE a[i] \in Life(c, u) /\ Suits(c, a[i], i, E, g)
    <2>1. a[i] \in Life(c, t) /\ Suits(c, a[i], i, E, f)
        BY DEF LivesOk
    <2> QED BY <2>1, SuitsFail DEF Life
<1> QED BY <1>1, <1>2 DEF LivesOk

\* And the whole state.
LEMMA HeldLater ==
    ASSUME NEW c, NEW s, NEW m \in Nat, NEW k \in Nat, m <= k, NEW n \in Nat, NEW l \in Nat, n <= l,
           NEW t \in Nat, NEW u \in Nat, t <= u, NEW f, NEW g, g = 0 => f = 0, Held(c, s, m, n, t, f)
    PROVE  Held(c, s, k, l, u, g)
<1>1. s.host \in Host(u)
    BY DEF Held, Host
<1>2. s.events \subseteq Emission(c, k, l, u)
    <2>1. s.events \subseteq Emission(c, m, n, t)
        BY DEF Held
    <2>2. Emission(c, m, n, t) \subseteq Emission(c, k, l, u)
        BY DEF Emission
    <2> QED BY <2>1, <2>2
<1>3. LivesOk(c, s.active, s.events, k, u, g) /\ LivesOk(c, s.saved, s.events, k, u, g)
    BY LivesLater DEF Held
<1>4. History(c, s.events, g)
    BY HistoryFails DEF Held
<1> QED BY <1>1, <1>2, <1>3, <1>4 DEF Held

\* The open operations ops: each has a start, in its instance, and no end.
Unended(E, ops, m, n) ==
    \A o \in DOMAIN ops :
      /\ o \in 1 .. n /\ ops[o] \in 1 .. m
      /\ \E e \in E : e.name = "feature_started" /\ e.operation = o /\ e.instance = ops[o]
      /\ \A e \in E : e.operation = o => e.name \notin Outcomes

\* No event is lost, and every new end is that of an instance that was active and in time.
Timely(c, s, r, t) ==
    /\ s.events \subseteq r.events
    /\ \A e \in r.events : e \in s.events \/ e.name \notin Closings
                            \/ (e.instance \in DOMAIN s.active /\ t < s.active[e.instance].startedAt + c.timeout)

\* An event that starts or ends no operation.
LEMMA UnendedGrows ==
    ASSUME NEW E, NEW F, E \subseteq F, \A e \in F : e \in E \/ e.name \notin Outcomes, NEW ops, NEW m, NEW n,
           Unended(E, ops, m, n)
    PROVE  Unended(F, ops, m, n)
    BY DEF Unended

\* One operation less.
LEMMA UnendedFewer ==
    ASSUME NEW E, NEW ops, NEW m, NEW n, NEW o, Unended(E, ops, m, n)
    PROVE  Unended(E, Without(ops, o), m, n)
    BY DEF Unended, Without

\* The number of the open operations of an instance.
WithOpen(w, k) == [w EXCEPT !.open = k]
OneMore(s, i) == [s EXCEPT !.active[i].open = @ + 1]
OneLess(s, i) == [s EXCEPT !.active[i].open = @ - 1]

\* The fields of an SDK of which an instance has one more open operation.
LEMMA OneMoreOf ==
    ASSUME NEW g, NEW a, NEW v, NEW E, NEW i
    PROVE  OneMore(Sdk(g, a, v, E), i) = Sdk(g, Replaced(a, i, WithOpen(a[i], a[i].open + 1)), v, E)
    BY DEF OneMore, Sdk, Replaced, WithOpen

\* And one less.
LEMMA OneLessOf ==
    ASSUME NEW g, NEW a, NEW v, NEW E, NEW i
    PROVE  OneLess(Sdk(g, a, v, E), i) = Sdk(g, Replaced(a, i, WithOpen(a[i], a[i].open - 1)), v, E)
    BY DEF OneLess, Sdk, Replaced, WithOpen

\* The number of open operations is no matter of the events.
LEMMA LivesOpen ==
    ASSUME NEW c, NEW a, NEW E, NEW m, NEW t, NEW f, LivesOk(c, a, E, m, t, f), NEW i \in DOMAIN a, NEW k \in Int
    PROVE  /\ LivesOk(c, Replaced(a, i, WithOpen(a[i], k)), E, m, t, f)
           /\ WithOpen(a[i], k).session = a[i].session
<1>1. PICK w, u, b : w = a[i] /\ u = WithOpen(w, k) /\ b = Replaced(a, i, u)
    OBVIOUS
<1>2. w \in Life(c, t) /\ Suits(c, w, i, E, f)
    BY <1>1 DEF LivesOk
<1>3. /\ u \in Life(c, t) /\ u.state = w.state /\ u.startedAt = w.startedAt /\ u.reached = w.reached
      /\ u.session = w.session
    BY <1>1, <1>2 DEF Life, WithOpen
<1>4. Suits(c, u, i, E, f)
    BY <1>2, <1>3, SuitsOpen
<1>5. DOMAIN b = DOMAIN a /\ \A j \in DOMAIN a : b[j] = IF j = i THEN u ELSE a[j]
    BY <1>1 DEF Replaced
<1>6. LivesOk(c, b, E, m, t, f)
    BY <1>3, <1>4, <1>5 DEF LivesOk
<1> QED BY <1>1, <1>3, <1>6

\* The end r of the open operation o of s.
Ended(c, s, r, ops, o, m, n, t, f) ==
    Held(c, r, m, n, t, f) /\ Unended(r.events, Without(ops, o), m, n) /\ Timely(c, s, r, t)

\* What a call that reports the operation o leaves.
EndReported(c, s, r, i, o, name, m, n, t, f) ==
    /\ Held(c, r, m, n, t, f) /\ r.active = s.active /\ r.host.activity = t
    /\ \E x : /\ r.events = s.events \cup {x}
              /\ x.name = name /\ x.operation = o /\ x.instance = i

-----------------------------------------------------------------------------
\* A new instance.
Joined(a, i, w) == [y \in DOMAIN a \cup {i} |-> IF y = i THEN w ELSE a[y]]

\* The new instance joins the others.
LEMMA LivesJoined ==
    ASSUME NEW c, c.active \in Nat, NEW a, NEW E, NEW m \in Nat, NEW t, NEW f, LivesOk(c, a, E, m, t, f),
           Cardinality(DOMAIN a) < c.active, NEW i, i = m + 1, NEW w \in Life(c, t), Suits(c, w, i, E, f)
    PROVE  LivesOk(c, Joined(a, i, w), E, i, t, f)
<1>1. PICK b : b = Joined(a, i, w)
    OBVIOUS
<1>2. DOMAIN b = DOMAIN a \cup {i} /\ \A y \in DOMAIN b : b[y] = IF y = i THEN w ELSE a[y]
    BY <1>1 DEF Joined
<1>3. DOMAIN a \subseteq 1 .. m /\ i \notin DOMAIN a /\ DOMAIN b \subseteq 1 .. i
    BY <1>2 DEF LivesOk
<1>4. IsFiniteSet(DOMAIN a)
    <2>1. IsFiniteSet(1 .. m)
        BY FS_Interval
    <2> QED BY <1>3, <2>1, FS_Subset
<1>5. Cardinality(DOMAIN a) \in Nat /\ Cardinality(DOMAIN b) = Cardinality(DOMAIN a) + 1
    BY <1>2, <1>3, <1>4, FS_AddElement, FS_CardinalityType
<1>6. \A y \in DOMAIN a : a[y] \in Life(c, t) /\ Suits(c, a[y], y, E, f)
    BY DEF LivesOk
<1>7. LivesOk(c, b, E, i, t, f)
    BY <1>2, <1>3, <1>5, <1>6 DEF LivesOk
<1> QED BY <1>1, <1>7

\* Nothing of it is saved.
LEMMA PairedJoined ==
    ASSUME NEW a, NEW v, Paired(a, v), NEW i, i \notin DOMAIN v, NEW w PROVE Paired(Joined(a, i, w), v)
    BY DEF Paired, Joined

\* The open operations, when more instances and operations have been.
LEMMA UnendedLater ==
    ASSUME NEW E, NEW ops, NEW m \in Nat, NEW n \in Nat, NEW k \in Nat, NEW l \in Nat, m <= k, n <= l,
           Unended(E, ops, m, n)
    PROVE  Unended(E, ops, k, l)
    BY DEF Unended

\* And with one more of them.
LEMMA UnendedJoined ==
    ASSUME NEW E, NEW ops, NEW m \in Nat, NEW n \in Nat, Unended(E, ops, m, n), NEW o, o = n + 1, NEW i \in 1 .. m,
           NEW x, x.name = "feature_started", x.operation = o, x.instance = i, \A e \in E : e.operation # o
    PROVE  Unended(E \cup {x}, Joined(ops, o, i), m, o)
<1>1. PICK p : p = Joined(ops, o, i)
    OBVIOUS
<1>2. DOMAIN p = DOMAIN ops \cup {o} /\ \A y \in DOMAIN p : p[y] = IF y = o THEN i ELSE ops[y]
    BY <1>1 DEF Joined
<1>3. "feature_started" \notin Outcomes
    BY DEF Outcomes
<1>4. Unended(E \cup {x}, p, m, o)
    BY <1>2, <1>3 DEF Unended
<1> QED BY <1>1, <1>4

\* The start r of the instance i in s.
Entered(c, s, r, i, n, t, f) ==
    /\ Held(c, r, i, n, t, f) /\ s.events \subseteq r.events
    /\ \A e \in r.events : e \in s.events \/ e.name = "workflow_started"

\* The invariant of the runtime with the constants c.
RuntimeInvariant ==
    /\ flow \in Flowing
    /\ now \in Nat /\ now <= flow.time
    /\ storing \in BOOLEAN /\ destroyed \in BOOLEAN /\ offered \in {"startable", "retired", "absent"}
    /\ counters = [instances |-> counters.instances, operations |-> counters.operations, faults |-> counters.faults]
    /\ counters.instances \in Nat /\ counters.operations \in Nat /\ counters.faults \in Nat
    /\ counters.faults = 0 => storing
    /\ Held(flow, sdk, counters.instances, counters.operations, now, counters.faults)
    /\ Unended(sdk.events, operations, counters.instances, counters.operations)

-----------------------------------------------------------------------------
\* No instances fit everything.
LEMMA NoLives ==
    ASSUME NEW c, c.active \in Nat, NEW E, NEW m, NEW t, NEW f PROVE LivesOk(c, <<>>, E, m, t, f)
<1>1. DOMAIN <<>> = {}
    OBVIOUS
<1>2. Cardinality(DOMAIN <<>>) = 0
    BY <1>1, FS_EmptySet
<1> QED BY <1>1, <1>2 DEF LivesOk

\* An invariant state again, and only timely ends.
Moved == RuntimeInvariant' /\ Timely(flow, sdk, sdk', now)

\* A step that starts and ends no operation.
LEMMA MovedQuietly ==
    ASSUME RuntimeInvariant, Held(flow, sdk', counters.instances, counters.operations, now, counters.faults),
           sdk.events \subseteq sdk'.events,
           \A e \in sdk'.events : e \in sdk.events \/ e.name \notin Outcomes, Timely(flow, sdk, sdk', now),
           now' = now, UNCHANGED <<flow, operations, counters, storing>>, offered' \in {"startable", "retired", "absent"},
           destroyed' \in BOOLEAN
    PROVE  Moved
<1>1. Unended(sdk'.events, operations, counters.instances, counters.operations)
    BY UnendedGrows DEF RuntimeInvariant
<1> QED BY <1>1 DEF RuntimeInvariant, Moved

\* A step that emits nothing.
LEMMA SameEventsMove ==
    ASSUME RuntimeInvariant, Held(flow, sdk', counters.instances, counters.operations, now, counters.faults),
           sdk'.events = sdk.events, now' = now, UNCHANGED <<flow, operations, counters, storing>>,
           offered' \in {"startable", "retired", "absent"}, destroyed' \in BOOLEAN
    PROVE  Moved
<1>1. Timely(flow, sdk, sdk', now)
    BY DEF Timely
<1> QED BY <1>1, MovedQuietly

-----------------------------------------------------------------------------
\* The calls of the runtime.

\* What is assumed of the constants.
LEMMA FlowSdk ==
    ASSUME flow \in Flowing
    PROVE  /\ flow.triggers \in Seq(STRING) /\ flow.firstStep \in BOOLEAN /\ flow.session \in Nat \ {0}
           /\ flow.timeout \in Nat /\ flow.active \in Nat /\ flow.time \in Nat
    BY WorkflowAssumption

\* An emission refreshes the session and adds one event.
LEMMA FlowEmits ==
    ASSUME NEW g, NEW a, NEW v, NEW E, NEW name, NEW i, NEW step, NEW o
    PROVE  LET h == Workflow!RefreshSession(g)
           IN  Workflow!Emit(Sdk(g, a, v, E), name, i, step, o)
                 = Sdk(h, a, v, E \cup {Emitted(name, i, now, h.session, step, o)})
<1>1. PICK h : h = Workflow!RefreshSession(g)
    OBVIOUS
<1>2. PICK x : x = Emitted(name, i, now, h.session, step, o)
    OBVIOUS
<1>3. Sdk(g, a, v, E).host = g
    BY DEF Sdk
<1>4. Workflow!Emit(Sdk(g, a, v, E), name, i, step, o) = [Sdk(g, a, v, E) EXCEPT !.host = h, !.events = @ \cup {x}]
    BY <1>1, <1>2, <1>3 DEF Workflow!Emit, Emitted
<1>5. [Sdk(g, a, v, E) EXCEPT !.host = h, !.events = @ \cup {x}] = Sdk(h, a, v, E \cup {x})
    <2>1. PICK r : r = Sdk(g, a, v, E)
        OBVIOUS
    <2>2. PICK q : q = [r EXCEPT !.host = h]
        OBVIOUS
    <2>3. q = Sdk(h, a, v, E)
        BY <2>1, <2>2 DEF Sdk
    <2>4. [r EXCEPT !.host = h, !.events = @ \cup {x}] = [q EXCEPT !.events = @ \cup {x}]
        BY <2>2
    <2>5. [q EXCEPT !.events = @ \cup {x}] = Sdk(h, a, v, E \cup {x})
        BY <2>3 DEF Sdk
    <2> QED BY <2>1, <2>4, <2>5
<1> QED BY <1>1, <1>2, <1>4, <1>5

\* refreshSession() moves the session, if at all, to that of the present.
LEMMA FlowRefresh ==
    ASSUME now \in Nat, NEW host \in Host(now) PROVE Workflow!RefreshSession(host) \in Host(now)
    BY DEF Workflow!RefreshSession, Host

\* A write stores what is active, or fails.
LEMMA FlowPersists ==
    ASSUME NEW h, NEW a, NEW v, NEW E
    PROVE  Workflow!Persist(Sdk(h, a, v, E)) = Sdk(h, a, IF storing THEN Snapshot(a) ELSE v, E)
    BY DEF Workflow!Persist, Sdk, Snapshot

\* release() drops the instance and writes the rest.
LEMMA FlowReleases ==
    ASSUME NEW h, NEW a, NEW v, NEW E, NEW i
    PROVE  LET b == Without(a, i)
           IN  Workflow!Release(Sdk(h, a, v, E), i) = Sdk(h, b, IF storing THEN Snapshot(b) ELSE v, E)
<1> DEFINE b == Without(a, i)
<1>1. [Sdk(h, a, v, E) EXCEPT !.active = Workflow!Drop(@, i)] = Sdk(h, b, v, E)
    BY DEF Sdk, Workflow!Drop, Without
<1> HIDE DEF b
<1>2. Workflow!Release(Sdk(h, a, v, E), i) = Sdk(h, b, IF storing THEN Snapshot(b) ELSE v, E)
    BY <1>1, FlowPersists DEF Workflow!Release
<1> QED BY <1>2 DEF b

\* An instance that is alive has the session that an emission would have.
LEMMA FlowAlive ==
    ASSUME now \in Nat, flow \in Flowing, NEW s, s.host \in Host(now), NEW i \in DOMAIN s.active,
           s.active[i] \in Life(flow, now),
           Workflow!Alive(s, i)
    PROVE  /\ Workflow!RefreshSession(s.host) = [session |-> s.active[i].session, activity |-> now]
           /\ now < s.active[i].startedAt + flow.timeout
<1>1. s.active[i].session \in Nat \ {0} /\ s.active[i].startedAt \in Nat /\ flow.timeout \in Nat
    BY FlowSdk DEF Life
<1>2. Workflow!SessionOf(s.host) = s.active[i].session /\ ~Workflow!TimedOut(s.active[i])
    BY DEF Workflow!Alive
<1>3. Workflow!SessionOf(s.host) # Workflow!Expired
    BY <1>1, <1>2 DEF Workflow!Expired
<1>4. s.host.session = s.active[i].session
    BY <1>2, <1>3 DEF Workflow!SessionOf
<1>5. Workflow!RefreshSession(s.host) = [session |-> s.active[i].session, activity |-> now]
    BY <1>3, <1>4 DEF Workflow!RefreshSession
<1>6. now < s.active[i].startedAt + flow.timeout
    BY <1>1, <1>2 DEF Workflow!TimedOut
<1> QED BY <1>5, <1>6

\* The end of an instance keeps the rest.
LEMMA FlowReleased ==
    ASSUME NEW m \in Nat, NEW n \in Nat, now \in Nat, flow \in Flowing, NEW f, f = 0 => storing, NEW s,
           Held(flow, s, m, n, now, f), NEW i
    PROVE  Released(flow, s, Workflow!Release(s, i), i, m, n, now, f)
<1>1. PICK h, a, v, E : h = s.host /\ a = s.active /\ v = s.saved /\ E = s.events
    OBVIOUS
<1>2. /\ s = Sdk(h, a, v, E) /\ h \in Host(now) /\ E \subseteq Emission(flow, m, n, now) /\ History(flow, E, f)
      /\ LivesOk(flow, a, E, m, now, f) /\ LivesOk(flow, v, E, m, now, f) /\ Paired(a, v)
    BY <1>1 DEF Held
<1>3. PICK b : b = Without(a, i)
    OBVIOUS
<1>4. LivesOk(flow, b, E, m, now, f) /\ Paired(b, v)
    BY <1>2, <1>3, LivesFewer, PairedFewer, FlowSdk
<1>5. Workflow!Release(s, i) = Sdk(h, b, IF storing THEN Snapshot(b) ELSE v, E)
    BY <1>2, <1>3, FlowReleases
<1>6. Held(flow, Workflow!Release(s, i), m, n, now, f)
    BY <1>2, <1>4, <1>5, HeldWritten, HeldUnwritten
<1>7. i \notin DOMAIN b
    BY <1>3 DEF Without
<1> QED BY <1>1, <1>5, <1>6, <1>7 DEF Sdk, Released

\* The call r of s on the instance i.
FlowCalls(s, r, i, m, n, f) == Carries(flow, s, r, i, m, n, now, f) /\ (~Workflow!Alive(s, i) => r.events = s.events)

\* The emission that ends an instance, and its release.
LEMMA FlowCloses ==
    ASSUME NEW m \in Nat, NEW n \in Nat, now \in Nat, flow \in Flowing, NEW f, f = 0 => storing, NEW s,
           Held(flow, s, m, n, now, f),
           NEW i \in DOMAIN s.active, Workflow!Alive(s, i), s.active[i].state = "started", NEW name \in Closings,
           name = "workflow_completed" => flow.completed \in s.active[i].reached, NEW r,
           r = Workflow!Release(Workflow!Emit(s, name, i, None, None), i)
    PROVE  Carries(flow, s, r, i, m, n, now, f)
<1>1. PICK h, a, v, E, w : h = s.host /\ a = s.active /\ v = s.saved /\ E = s.events /\ w = a[i]
    OBVIOUS
<1>2. /\ s = Sdk(h, a, v, E) /\ h \in Host(now) /\ E \subseteq Emission(flow, m, n, now) /\ History(flow, E, f)
      /\ LivesOk(flow, a, E, m, now, f) /\ LivesOk(flow, v, E, m, now, f) /\ Paired(a, v)
    BY <1>1 DEF Held
<1>3. w \in Life(flow, now) /\ Suits(flow, w, i, E, f) /\ i \in 1 .. m
    BY <1>1, <1>2 DEF LivesOk
<1>4. PICK k, x : k = [session |-> w.session, activity |-> now] /\ x = Emitted(name, i, now, w.session, None, None)
    OBVIOUS
<1>5. Workflow!RefreshSession(h) = k /\ now < w.startedAt + flow.timeout
    BY <1>1, <1>2, <1>3, <1>4, FlowAlive
<1>6. Workflow!Emit(s, name, i, None, None) = Sdk(k, a, v, E \cup {x})
    BY <1>1, <1>2, <1>4, <1>5, FlowEmits
<1>7. PICK b : b = Without(a, i)
    OBVIOUS
<1>8. r = Sdk(k, b, IF storing THEN Snapshot(b) ELSE v, E \cup {x})
    BY <1>6, <1>7, FlowReleases
<1>9. /\ x \in Emission(flow, m, n, now) /\ x.at = now /\ x.instance = i /\ x.name = name /\ x.session = w.session
      /\ x.operation = None
    <2>1. w.session \in Nat /\ name \in Phases \cup Parts
        BY <1>3 DEF Life, Phases
    <2> QED BY <1>3, <1>4, <2>1, EmittedTyped DEF Emitted
<1>10. name \notin Outcomes /\ name \notin Parts /\ name # "workflow_step_reached" /\ name # "workflow_started"
    BY DEF Closings, Outcomes, Parts
<1>11. FirmlyAfter(flow, E, x)
    <2>1. \A e \in E : e.instance = i /\ e.name \notin Outcomes => e.session = w.session
        BY <1>3 DEF Suits, Bound
    <2> QED BY <1>9, <1>10, <2>1 DEF FirmlyAfter
<1>12. ASSUME f = 0 PROVE SmoothlyAfter(flow, E, x)
    <2>1. Evidenced(w, i, E)
        BY <1>3, <1>12 DEF Suits
    <2>2. \A e \in E : e.at <= now
        BY <1>2 DEF Emission
    <2>3. \A e \in E : e.instance = i => e.name \notin Closings
        BY <2>1 DEF Evidenced
    <2>4. ASSUME name = "workflow_completed"
          PROVE  /\ \E g \in E : g.name = "workflow_step_reached" /\ g.instance = i /\ g.step = flow.completed
                 /\ \A g \in E : g.name = "workflow_started" /\ g.instance = i => now < g.at + flow.timeout
        <3>1. flow.completed \in w.reached /\ w.state = "started"
            BY <1>1, <2>4
        <3>2. \E g \in E : g.name = "workflow_step_reached" /\ g.instance = i /\ g.step = flow.completed
            BY <2>1, <3>1 DEF Evidenced
        <3>3. \A g \in E : g.name = "workflow_started" /\ g.instance = i => g.at = w.startedAt
            BY <2>1, <3>1 DEF Evidenced
        <3> QED BY <1>5, <3>2, <3>3
    <2> QED BY <1>9, <1>10, <2>2, <2>3, <2>4 DEF SmoothlyAfter
<1>13. History(flow, E \cup {x}, f)
    BY <1>2, <1>9, <1>11, <1>12, HistoryGrows
<1>14. LivesOk(flow, b, E \cup {x}, m, now, f)
    <2>1. LivesOk(flow, b, E, m, now, f) /\ i \notin DOMAIN b
        BY <1>2, <1>7, LivesFewer, FlowSdk DEF Without
    <2> QED BY <1>9, <2>1, LivesQuiet
<1>15. k \in Host(now) /\ E \cup {x} \subseteq Emission(flow, m, n, now)
    BY <1>2, <1>3, <1>4, <1>9 DEF Host, Life
<1>16. CASE storing
    <2>1. Held(flow, Sdk(k, b, Snapshot(b), E \cup {x}), m, n, now, f)
        BY <1>13, <1>14, <1>15, HeldWritten
    <2> QED BY <1>1, <1>8, <1>9, <1>10, <1>16, <2>1 DEF Sdk, Carries
<1>17. CASE ~storing
    <2>1. f # 0
        BY <1>17
    <2>2. i \in DOMAIN v => v[i].startedAt <= now /\ v[i].session = w.session
        BY <1>1, <1>2, LivesSaved
    <2>3. LivesOk(flow, v, E \cup {x}, m, now, f)
        BY <1>2, <1>9, <2>1, <2>2, LivesQuiet
    <2>4. Paired(b, v)
        BY <1>2, <1>7, PairedFewer
    <2>5. Held(flow, Sdk(k, b, v, E \cup {x}), m, n, now, f)
        BY <1>13, <1>14, <1>15, <2>3, <2>4, HeldUnwritten
    <2> QED BY <1>1, <1>8, <1>9, <1>10, <1>17, <2>5 DEF Sdk, Carries
<1> QED BY <1>16, <1>17

\* A finished instance.
LEMMA FlowFinishes ==
    ASSUME NEW m \in Nat, NEW n \in Nat, now \in Nat, flow \in Flowing, NEW f, f = 0 => storing, NEW s,
           Held(flow, s, m, n, now, f),
           NEW i \in DOMAIN s.active, NEW name \in Closings
    PROVE  FlowCalls(s, Workflow!FinishInstance(s, i, name), i, m, n, f)
<1>0. PICK r : r = Workflow!FinishInstance(s, i, name)
    OBVIOUS
<1>1. ASSUME r = Workflow!Release(s, i) PROVE Carries(flow, s, r, i, m, n, now, f) /\ r.events = s.events
    <2>1. Released(flow, s, r, i, m, n, now, f)
        BY <1>1, FlowReleased
    <2> QED BY <2>1 DEF Carries, Released
<1>2. CASE ~Workflow!Alive(s, i)
    <2>1. r = Workflow!Release(s, i)
        BY <1>0, <1>2 DEF Workflow!FinishInstance, Workflow!Safe
    <2> QED BY <1>0, <1>1, <2>1 DEF FlowCalls
<1>3. CASE Workflow!Alive(s, i)
    <2>1. CASE name = "workflow_completed" /\ flow.completed \notin s.active[i].reached
        <3>1. r = s
            BY <1>0, <1>3, <2>1 DEF Workflow!FinishInstance, Workflow!Safe
        <3> QED BY <1>0, <1>3, <3>1 DEF Carries, FlowCalls
    <2>2. CASE ~(name = "workflow_completed" /\ flow.completed \notin s.active[i].reached) /\ s.active[i].state = "pending"
        <3>1. r = Workflow!Release(s, i)
            BY <1>0, <1>3, <2>2 DEF Workflow!FinishInstance, Workflow!Safe
        <3> QED BY <1>0, <1>1, <1>3, <3>1 DEF FlowCalls
    <2>3. CASE ~(name = "workflow_completed" /\ flow.completed \notin s.active[i].reached) /\ s.active[i].state # "pending"
        <3>1. r = Workflow!Release(Workflow!Emit(s, name, i, None, None), i)
            BY <1>0, <1>3, <2>3 DEF Workflow!FinishInstance, Workflow!Safe
        <3>2. s.active[i].state = "started"
            BY <2>3 DEF Held, LivesOk, Life
        <3>3. name = "workflow_completed" => flow.completed \in s.active[i].reached
            BY <2>3
        <3>4. Carries(flow, s, r, i, m, n, now, f)
            BY <1>3, <3>1, <3>2, <3>3, FlowCloses
        <3> QED BY <1>0, <1>3, <3>4 DEF FlowCalls
    <2> QED BY <2>1, <2>2, <2>3
<1> QED BY <1>2, <1>3

-----------------------------------------------------------------------------
\* The step an instance has reached, before it can be the last.
FlowReached(s, i, step, operation) ==
    LET begun == IF s.active[i].state = "started" THEN s
                 ELSE Workflow!Emit(Beginning(s, i, now), "workflow_started", i, None, None)
    IN  Workflow!Emit(Workflow!Persist(Reaching(begun, i, step)), "workflow_step_reached", i, step, operation)

\* The calls in it, as one step.
LEMMA FlowReaches ==
    ASSUME now \in Nat, flow \in Flowing, NEW g \in Host(now), NEW a, NEW v, NEW E, NEW i \in DOMAIN a,
           a[i] \in Life(flow, now),
           Workflow!Alive(Sdk(g, a, v, E), i), NEW step, NEW o
    PROVE  FlowReached(Sdk(g, a, v, E), i, step, o) = AfterStep(a, v, E, i, step, o)
<1>1. PICK w, k, b, x, y :
         /\ w = a[i] /\ k = Renewed(w, now)
         /\ b = Replaced(a, i, Stepped(w, step, now))
         /\ y = Emitted("workflow_started", i, now, w.session, None, None)
         /\ x = Emitted("workflow_step_reached", i, now, w.session, step, o)
    OBVIOUS
<1>2. /\ w = [state |-> w.state, startedAt |-> w.startedAt, reached |-> w.reached, session |-> w.session,
               open |-> w.open]
      /\ w.session \in Nat \ {0}
    BY <1>1 DEF Life
<1>3. Sdk(g, a, v, E).host = g /\ Sdk(g, a, v, E).active = a
    BY DEF Sdk
<1>4. Workflow!RefreshSession(g) = k
    BY <1>1, <1>3, FlowAlive DEF Renewed
<1>5. Workflow!RefreshSession(k) = k /\ k.session = w.session
    <2>1. k.session = w.session /\ k.activity = now
        BY <1>1 DEF Renewed
    <2>2. ~(now - k.activity >= flow.session) /\ k.session # Workflow!Expired
        BY <1>2, <2>1, FlowSdk DEF Workflow!Expired
    <2> QED BY <1>1, <2>1, <2>2 DEF Workflow!RefreshSession, Workflow!SessionOf, Renewed
<1>6. CASE w.state = "started"
    <2>1. WithStep(w, step) = Stepped(w, step, now)
        BY <1>2, <1>6 DEF Stepped, WithStep
    <2>2. Reaching(Sdk(g, a, v, E), i, step) = Sdk(g, b, v, E)
        BY <1>1, <2>1, ReachingOf
    <2>3. FlowReached(Sdk(g, a, v, E), i, step, o)
            = Workflow!Emit(Workflow!Persist(Sdk(g, b, v, E)), "workflow_step_reached", i, step, o)
        BY <1>1, <1>3, <1>6, <2>2 DEF FlowReached
    <2>4. FlowReached(Sdk(g, a, v, E), i, step, o) = Sdk(k, b, IF storing THEN Snapshot(b) ELSE v, E \cup {x})
        BY <1>1, <1>4, <1>5, <2>3, FlowPersists, FlowEmits
    <2>5. AfterStart(w, i, E, now) = E
        BY <1>6 DEF AfterStart
    <2> QED BY <1>1, <2>4, <2>5 DEF AfterStep
<1>7. CASE w.state # "started"
    <2>1. PICK u, d : u = WithState(WithStart(w, now)) /\ d = Replaced(a, i, u)
        OBVIOUS
    <2>2. u = [state |-> "started", startedAt |-> now, reached |-> w.reached, session |-> w.session,
               open |-> w.open]
        BY <1>2, <2>1 DEF WithState, WithStart
    <2>3. d[i] = u
        BY <1>1, <2>1 DEF Replaced
    <2>4. Beginning(Sdk(g, a, v, E), i, now) = Sdk(g, d, v, E)
        BY <1>1, <2>1, BeginningOf
    <2>5. Workflow!Emit(Sdk(g, d, v, E), "workflow_started", i, None, None) = Sdk(k, d, v, E \cup {y})
        BY <1>1, <1>4, <1>5, FlowEmits
    <2>6. WithStep(u, step) = Stepped(w, step, now)
        BY <1>7, <2>2 DEF Stepped, WithStep
    <2>7. Replaced(d, i, Stepped(w, step, now)) = b
        BY <1>1, <2>1 DEF Replaced
    <2>8. Reaching(Sdk(k, d, v, E \cup {y}), i, step) = Sdk(k, b, v, E \cup {y})
        BY <2>3, <2>6, <2>7, ReachingOf
    <2>9. FlowReached(Sdk(g, a, v, E), i, step, o)
            = Workflow!Emit(Workflow!Persist(Sdk(k, b, v, E \cup {y})), "workflow_step_reached", i, step, o)
        BY <1>1, <1>3, <1>7, <2>4, <2>5, <2>8 DEF FlowReached
    <2>10. FlowReached(Sdk(g, a, v, E), i, step, o)
             = Sdk(k, b, IF storing THEN Snapshot(b) ELSE v, (E \cup {y}) \cup {x})
        BY <1>1, <1>5, <2>9, FlowPersists, FlowEmits
    <2>11. AfterStart(w, i, E, now) = E \cup {y}
        BY <1>1, <1>7 DEF AfterStart
    <2> QED BY <1>1, <2>10, <2>11 DEF AfterStep
<1> QED BY <1>6, <1>7

\* A step, and perhaps the start before it, keeps what holds.
LEMMA FlowReachedHeld ==
    ASSUME NEW m \in Nat, NEW n \in Nat, now \in Nat, flow \in Flowing, NEW f, f = 0 => storing, NEW s,
           Held(flow, s, m, n, now, f),
           NEW i \in DOMAIN s.active, Workflow!Alive(s, i), NEW step, NEW o \in (1 .. n) \cup {None},
           Backs(flow, s.events, i, step, o), NEW r, r = FlowReached(s, i, step, o)
    PROVE  Carries(flow, s, r, i, m, n, now, f) /\ i \in DOMAIN r.active
<1>1. PICK h, a, v, E, w : h = s.host /\ a = s.active /\ v = s.saved /\ E = s.events /\ w = a[i]
    OBVIOUS
<1>2. /\ s = Sdk(h, a, v, E) /\ h \in Host(now) /\ E \subseteq Emission(flow, m, n, now) /\ History(flow, E, f)
      /\ LivesOk(flow, a, E, m, now, f) /\ LivesOk(flow, v, E, m, now, f) /\ Paired(a, v)
    BY <1>1 DEF Held
<1>3. w \in Life(flow, now) /\ Suits(flow, w, i, E, f) /\ i \in 1 .. m
    BY <1>1, <1>2 DEF LivesOk
<1>4. PICK k, b, D, x :
         /\ k = Renewed(w, now) /\ b = Replaced(a, i, Stepped(w, step, now))
         /\ D = AfterStart(w, i, E, now) /\ x = Emitted("workflow_step_reached", i, now, w.session, step, o)
    OBVIOUS
<1>5. r = Sdk(k, b, IF storing THEN Snapshot(b) ELSE v, D \cup {x})
    <2>1. Workflow!Alive(Sdk(h, a, v, E), i)
        BY <1>2
    <2>2. FlowReached(Sdk(h, a, v, E), i, step, o) = AfterStep(a, v, E, i, step, o)
        BY <1>1, <1>2, <1>3, <2>1, FlowReaches
    <2> QED BY <1>1, <1>2, <1>4, <2>2 DEF AfterStep
<1>6. step \in DOMAIN flow.triggers
    BY DEF Backs
<1>7. /\ x \in Emission(flow, m, n, now) /\ x.at = now /\ x.instance = i /\ x.name = "workflow_step_reached"
      /\ x.session = w.session /\ x.operation = o /\ x.step = step
    <2>1. w.session \in Nat /\ "workflow_step_reached" \in Phases \cup Parts
        BY <1>3 DEF Life, Phases
    <2> QED BY <1>3, <1>4, <1>6, <2>1, EmittedTyped DEF Emitted
<1>8. /\ History(flow, D, f) /\ D \subseteq Emission(flow, m, n, now)
      /\ \A e \in D : e.instance = i /\ e.name \notin Outcomes => e.session = w.session
    <2>1. Opened(flow, w, i, E, m, n, now, f)
        BY <1>2, <1>3, StartedHistory
    <2> QED BY <1>4, <2>1 DEF Opened
<1>9. E \subseteq D /\ \A e \in D : e \in E \/ (e.instance = i /\ e.name \notin Outcomes)
    <2>1. "workflow_started" \notin Outcomes
        BY DEF Outcomes
    <2> QED BY <1>4, <2>1 DEF AfterStart, Emitted
<1>10. Backs(flow, D, i, step, o)
    BY <1>1, <1>9, BacksGrows
<1>11. "workflow_step_reached" \notin Outcomes /\ "workflow_step_reached" \notin Closings
    BY DEF Outcomes, Closings
<1>12. \A e \in D : e.at <= now
    BY <1>8 DEF Emission
<1>13. flow.triggers[step] = "operation_terminal" => Proven(D, x)
    BY <1>7, <1>10, <1>12 DEF Backs, Proven
<1>14. FirmlyAfter(flow, D, x)
    BY <1>6, <1>7, <1>8, <1>10, <1>11, <1>13 DEF FirmlyAfter, Backs
<1>15. SmoothlyAfter(flow, D, x)
    BY <1>7, <1>11, <1>12 DEF SmoothlyAfter
<1>16. History(flow, D \cup {x}, f)
    BY <1>7, <1>8, <1>14, <1>15, HistoryGrows
<1>17. LivesOk(flow, b, D \cup {x}, m, now, f)
    BY <1>1, <1>2, <1>4, <1>6, <1>7, SteppedLives
<1>18. k \in Host(now) /\ D \cup {x} \subseteq Emission(flow, m, n, now)
    BY <1>3, <1>4, <1>7, <1>8 DEF Host, Life, Renewed
<1>19. Held(flow, r, m, n, now, f)
    <2>1. CASE storing
        <3>1. Held(flow, Sdk(k, b, Snapshot(b), D \cup {x}), m, n, now, f)
            BY <1>16, <1>17, <1>18, HeldWritten
        <3> QED BY <1>5, <2>1, <3>1
    <2>2. CASE ~storing
        <3>1. f # 0
            BY <2>2
        <3>2. i \in DOMAIN v => v[i].session = w.session
            BY <1>1, <1>2 DEF Paired
        <3>3. LivesOk(flow, v, D \cup {x}, m, now, f)
            BY <1>2, <1>4, <1>7, <3>1, <3>2, SteppedSaved
        <3>4. Paired(b, v)
            <4>1. Stepped(w, step, now).session = w.session
                BY DEF Stepped
            <4> QED BY <1>1, <1>2, <1>4, <4>1, PairedReplaced
        <3>5. Held(flow, Sdk(k, b, v, D \cup {x}), m, n, now, f)
            BY <1>16, <1>17, <1>18, <3>3, <3>4, HeldUnwritten
        <3> QED BY <1>5, <2>2, <3>5
    <2> QED BY <2>1, <2>2
<1>20. r.events = D \cup {x} /\ DOMAIN r.active = DOMAIN a
    BY <1>4, <1>5 DEF Sdk, Replaced
<1> QED BY <1>1, <1>7, <1>9, <1>11, <1>19, <1>20 DEF Carries

\* The whole call.
LEMMA FlowSteps ==
    ASSUME NEW m \in Nat, NEW n \in Nat, now \in Nat, flow \in Flowing, NEW f, f = 0 => storing, NEW s,
           Held(flow, s, m, n, now, f),
           NEW i \in DOMAIN s.active, NEW step, NEW o \in (1 .. n) \cup {None}, Backs(flow, s.events, i, step, o)
    PROVE  FlowCalls(s, Workflow!ReachStep(s, i, step, o), i, m, n, f)
<1>0. PICK r : r = Workflow!ReachStep(s, i, step, o)
    OBVIOUS
<1>1. CASE ~Workflow!Alive(s, i)
    <2>1. r = Workflow!Release(s, i)
        BY <1>0, <1>1 DEF Workflow!ReachStep, Workflow!Safe
    <2>2. Held(flow, r, m, n, now, f) /\ r.events = s.events
        BY <2>1, FlowReleased DEF Released
    <2> QED BY <1>0, <2>2 DEF Carries, FlowCalls
<1>2. CASE Workflow!Alive(s, i)
    <2>1. PICK q : q = FlowReached(s, i, step, o)
        OBVIOUS
    <2>2. Carries(flow, s, q, i, m, n, now, f) /\ i \in DOMAIN q.active
        BY <1>2, <2>1, FlowReachedHeld
    <2>3. \/ r = s \/ r = q
          \/ r = Workflow!FinishInstance(q, i, "workflow_completed")
          \/ r = Workflow!FinishInstance(q, i, "workflow_failed")
        <3>1. Workflow!ReachStep(s, i, step, o)
                = Workflow!Safe(s, i,
                    IF step \in s.active[i].reached \/ ~Workflow!Enters(s.active[i], step) THEN s
                    ELSE IF step = flow.completed THEN Workflow!FinishInstance(FlowReached(s, i, step, o), i, "workflow_completed")
                    ELSE IF step = flow.failed THEN Workflow!FinishInstance(FlowReached(s, i, step, o), i, "workflow_failed")
                    ELSE FlowReached(s, i, step, o))
            BY DEF Workflow!ReachStep, FlowReached, Reaching, Beginning
        <3> QED BY <1>0, <1>2, <2>1, <3>1 DEF Workflow!Safe
    <2>4. "workflow_completed" \in Closings /\ "workflow_failed" \in Closings
        BY DEF Closings
    <2>5. Held(flow, q, m, n, now, f)
        BY <2>2 DEF Carries
    <2>6. ASSUME NEW name \in Closings, r = Workflow!FinishInstance(q, i, name)
          PROVE  Carries(flow, s, r, i, m, n, now, f)
        <3>1. Carries(flow, q, r, i, m, n, now, f)
            BY <2>2, <2>5, <2>6, FlowFinishes DEF FlowCalls
        <3> QED BY <2>2, <3>1 DEF Carries
    <2>7. r = s => Carries(flow, s, r, i, m, n, now, f)
        BY DEF Carries
    <2> QED BY <1>0, <1>2, <2>2, <2>3, <2>4, <2>6, <2>7 DEF FlowCalls
<1> QED BY <1>1, <1>2

-----------------------------------------------------------------------------
\* A call that carries on is in time.
LEMMA FlowTimely ==
    ASSUME now \in Nat, flow \in Flowing, NEW m, NEW n, NEW f, NEW s, Held(flow, s, m, n, now, f),
           NEW i \in DOMAIN s.active, NEW r,
           Carries(flow, s, r, i, m, n, now, f), ~Workflow!Alive(s, i) => r.events = s.events
    PROVE  Timely(flow, s, r, now)
<1>1. CASE Workflow!Alive(s, i)
    <2>1. s.host \in Host(now) /\ s.active[i] \in Life(flow, now)
        BY DEF Held, LivesOk
    <2>2. now < s.active[i].startedAt + flow.timeout
        BY <1>1, <2>1, FlowAlive
    <2> QED BY <2>2 DEF Timely, Carries
<1>2. CASE ~Workflow!Alive(s, i)
    BY <1>2 DEF Timely
<1> QED BY <1>1, <1>2

\* The start of an operation.
LEMMA FlowOpens ==
    ASSUME NEW m \in Nat, NEW n \in Nat, now \in Nat, flow \in Flowing, NEW f, NEW s, Held(flow, s, m, n, now, f),
           NEW i \in DOMAIN s.active, Workflow!Alive(s, i), NEW o, o = n + 1, NEW r,
           r = Workflow!Emit(OneMore(s, i), "feature_started", i, None, o)
    PROVE  /\ Held(flow, r, m, o, now, f)
           /\ \E x : /\ r.events = s.events \cup {x}
                     /\ x.name = "feature_started" /\ x.operation = o /\ x.instance = i
<1>1. PICK h, a, v, E, w : h = s.host /\ a = s.active /\ v = s.saved /\ E = s.events /\ w = a[i]
    OBVIOUS
<1>2. /\ s = Sdk(h, a, v, E) /\ h \in Host(now) /\ E \subseteq Emission(flow, m, n, now) /\ History(flow, E, f)
      /\ LivesOk(flow, a, E, m, now, f) /\ LivesOk(flow, v, E, m, now, f) /\ Paired(a, v)
    BY <1>1 DEF Held
<1>3. w \in Life(flow, now) /\ Suits(flow, w, i, E, f) /\ i \in 1 .. m
    BY <1>1, <1>2 DEF LivesOk
<1>4. PICK k, u, b, x :
         /\ k = Renewed(w, now) /\ u = WithOpen(a[i], a[i].open + 1) /\ b = Replaced(a, i, u)
         /\ x = Emitted("feature_started", i, now, w.session, None, o)
    OBVIOUS
<1>5. Workflow!RefreshSession(h) = k /\ k.session = w.session
    BY <1>1, <1>2, <1>3, <1>4, FlowAlive DEF Renewed
<1>6. r = Sdk(k, b, v, E \cup {x})
    <2>1. OneMore(s, i) = Sdk(h, b, v, E)
        BY <1>2, <1>4, OneMoreOf
    <2> QED BY <1>4, <1>5, <2>1, FlowEmits
<1>7. LivesOk(flow, b, E, m, now, f) /\ u.session = w.session
    <2>1. a[i].open + 1 \in Int /\ i \in DOMAIN a
        BY <1>1, <1>3 DEF Life
    <2>2. PICK j \in Int : j = a[i].open + 1
        BY <2>1
    <2>3. /\ LivesOk(flow, Replaced(a, i, WithOpen(a[i], j)), E, m, now, f)
          /\ WithOpen(a[i], j).session = a[i].session
        BY <1>2, <2>1, LivesOpen
    <2> QED BY <1>1, <1>4, <2>2, <2>3
<1>8. Paired(b, v)
    BY <1>1, <1>2, <1>4, <1>7, PairedReplaced
<1>9. n + 1 \in Nat /\ o \in (1 .. o) \cup {None}
    OBVIOUS
<1>10. /\ x \in Emission(flow, m, o, now) /\ x.at = now /\ x.instance = i /\ x.name = "feature_started"
       /\ x.session = w.session /\ x.operation = o
    <2>1. w.session \in Nat /\ "feature_started" \in Phases \cup Parts
        BY <1>3 DEF Life, Parts
    <2> QED BY <1>3, <1>4, <1>9, <2>1, EmittedTyped DEF Emitted
<1>11. E \subseteq Emission(flow, m, o, now)
    <2>1. Emission(flow, m, n, now) \subseteq Emission(flow, m, o, now)
        BY DEF Emission
    <2> QED BY <1>2, <2>1
<1>12. /\ "feature_started" \notin Outcomes /\ "feature_started" \notin Closings /\ "feature_started" \in Parts
       /\ "feature_started" # "workflow_started" /\ "feature_started" # "workflow_completed"
       /\ "feature_started" # "workflow_step_reached"
    BY DEF Outcomes, Closings, Parts
<1>13. FirmlyAfter(flow, E, x)
    <2>1. \A e \in E : e.instance = i /\ e.name \notin Outcomes => e.session = w.session
        BY <1>3 DEF Suits, Bound
    <2>2. \A e \in E : e.operation # o
        BY <1>2, NoneIsNoNumber DEF Emission
    <2> QED BY <1>10, <1>12, <2>1, <2>2 DEF FirmlyAfter
<1>14. SmoothlyAfter(flow, E, x)
    <2>1. \A e \in E : e.at <= now
        BY <1>2 DEF Emission
    <2> QED BY <1>10, <1>12, <2>1 DEF SmoothlyAfter
<1>15. History(flow, E \cup {x}, f)
    BY <1>2, <1>9, <1>10, <1>11, <1>13, <1>14, HistoryGrows
<1>16. LivesOk(flow, b, E \cup {x}, m, now, f)
    <2>1. b[i] = u /\ u.startedAt <= now
        <3>1. b[i] = u
            BY <1>1, <1>4 DEF Replaced
        <3>2. i \in DOMAIN b
            BY <1>1, <1>4 DEF Replaced
        <3>3. u \in Life(flow, now)
            BY <1>7, <3>1, <3>2 DEF LivesOk
        <3> QED BY <3>1, <3>3 DEF Life
    <2> QED BY <1>7, <1>10, <1>12, <2>1, LivesQuiet
<1>17. LivesOk(flow, v, E \cup {x}, m, now, f)
    <2>1. i \in DOMAIN v => v[i].startedAt <= now /\ v[i].session = w.session
        BY <1>1, <1>2, LivesSaved
    <2> QED BY <1>2, <1>10, <1>12, <2>1, LivesQuiet
<1>18. k \in Host(now) /\ E \cup {x} \subseteq Emission(flow, m, o, now)
    BY <1>3, <1>4, <1>10, <1>11 DEF Host, Life, Renewed
<1>19. Held(flow, Sdk(k, b, v, E \cup {x}), m, o, now, f)
    BY <1>8, <1>15, <1>16, <1>17, <1>18, HeldUnwritten
<1>20. r.events = E \cup {x}
    BY <1>6 DEF Sdk
<1> QED BY <1>1, <1>6, <1>10, <1>19, <1>20

\* The report of its end.
LEMMA FlowReports ==
    ASSUME NEW m \in Nat, NEW n \in Nat, now \in Nat, flow \in Flowing, NEW f, NEW s, Held(flow, s, m, n, now, f),
           NEW i \in 1 .. m,
           NEW o \in 1 .. n, \A e \in s.events : e.operation = o => e.instance = i /\ e.name \notin Outcomes,
           NEW name \in Outcomes, NEW r, r = Workflow!Emit(s, name, i, None, o)
    PROVE  EndReported(flow, s, r, i, o, name, m, n, now, f)
<1>1. PICK h, a, v, E : h = s.host /\ a = s.active /\ v = s.saved /\ E = s.events
    OBVIOUS
<1>2. /\ s = Sdk(h, a, v, E) /\ h \in Host(now) /\ E \subseteq Emission(flow, m, n, now) /\ History(flow, E, f)
      /\ LivesOk(flow, a, E, m, now, f) /\ LivesOk(flow, v, E, m, now, f) /\ Paired(a, v)
    BY <1>1 DEF Held
<1>3. PICK k : k = Workflow!RefreshSession(h)
    OBVIOUS
<1>4. k \in Host(now) /\ k.activity = now
    BY <1>2, <1>3, FlowRefresh DEF Workflow!RefreshSession
<1>5. PICK x : x = Emitted(name, i, now, k.session, None, o)
    OBVIOUS
<1>6. r = Sdk(k, a, v, E \cup {x})
    BY <1>2, <1>3, <1>5, FlowEmits
<1>7. /\ x \in Emission(flow, m, n, now) /\ x.at = now /\ x.instance = i /\ x.name = name /\ x.operation = o
    <2>1. k.session \in Nat /\ name \in Phases \cup Parts
        BY <1>4 DEF Host, Parts
    <2> QED BY <1>5, <2>1, EmittedTyped DEF Emitted
<1>8. name \in Parts /\ name \notin Closings /\ name # "workflow_started" /\ name # "workflow_completed"
      /\ name # "workflow_step_reached"
    BY DEF Outcomes, Parts, Closings
<1>9. FirmlyAfter(flow, E, x)
    <2>1. o # None
        BY NoneIsNoNumber
    <2> QED BY <1>1, <1>7, <1>8, <2>1 DEF FirmlyAfter
<1>10. SmoothlyAfter(flow, E, x)
    <2>1. \A e \in E : e.at <= now
        BY <1>2 DEF Emission
    <2> QED BY <1>7, <1>8, <2>1 DEF SmoothlyAfter
<1>11. History(flow, E \cup {x}, f)
    BY <1>2, <1>7, <1>9, <1>10, HistoryGrows
<1>12. LivesOk(flow, a, E \cup {x}, m, now, f)
    <2>1. i \in DOMAIN a => a[i].startedAt <= now
        BY <1>2 DEF LivesOk, Life
    <2> QED BY <1>2, <1>7, <1>8, <2>1, LivesQuiet
<1>13. LivesOk(flow, v, E \cup {x}, m, now, f)
    <2>1. i \in DOMAIN v => v[i].startedAt <= now
        BY <1>2 DEF LivesOk, Life
    <2> QED BY <1>2, <1>7, <1>8, <2>1, LivesQuiet
<1>14. Held(flow, Sdk(k, a, v, E \cup {x}), m, n, now, f)
    BY <1>2, <1>4, <1>7, <1>11, <1>12, <1>13, HeldUnwritten
<1>15. r.host = k /\ r.active = a /\ r.events = E \cup {x}
    BY <1>6 DEF Sdk
<1> QED BY <1>1, <1>4, <1>6, <1>7, <1>14, <1>15 DEF EndReported

\* The instance no longer waits for it.
LEMMA FlowFreed ==
    ASSUME NEW m \in Nat, NEW n \in Nat, now \in Nat, flow \in Flowing, NEW f, f = 0 => storing, NEW s,
           Held(flow, s, m, n, now, f),
           NEW i, NEW r, r = Workflow!Safe(s, i, OneLess(s, i))
    PROVE  Held(flow, r, m, n, now, f) /\ r.events = s.events /\ (i \in DOMAIN r.active => Workflow!Alive(s, i))
<1>1. CASE i \notin DOMAIN s.active
    BY <1>1 DEF Workflow!Safe
<1>2. CASE i \in DOMAIN s.active /\ ~Workflow!Alive(s, i)
    <2>1. r = Workflow!Release(s, i)
        BY <1>2 DEF Workflow!Safe
    <2>2. Held(flow, r, m, n, now, f) /\ r.events = s.events /\ i \notin DOMAIN r.active
        BY <2>1, FlowReleased DEF Released
    <2> QED BY <2>2
<1>3. CASE i \in DOMAIN s.active /\ Workflow!Alive(s, i)
    <2>1. r = OneLess(s, i)
        BY <1>3 DEF Workflow!Safe
    <2>2. PICK h, a, v, E : h = s.host /\ a = s.active /\ v = s.saved /\ E = s.events
        OBVIOUS
    <2>3. /\ s = Sdk(h, a, v, E) /\ h \in Host(now) /\ E \subseteq Emission(flow, m, n, now) /\ History(flow, E, f)
          /\ LivesOk(flow, a, E, m, now, f) /\ LivesOk(flow, v, E, m, now, f) /\ Paired(a, v) /\ i \in DOMAIN a
        BY <1>3, <2>2 DEF Held
    <2>4. PICK u, b : u = WithOpen(a[i], a[i].open - 1) /\ b = Replaced(a, i, u)
        OBVIOUS
    <2>5. r = Sdk(h, b, v, E)
        BY <2>1, <2>3, <2>4, OneLessOf
    <2>6. LivesOk(flow, b, E, m, now, f) /\ u.session = a[i].session
        <3>1. a[i].open - 1 \in Int
            BY <2>3 DEF LivesOk, Life
        <3> QED BY <2>3, <2>4, <3>1, LivesOpen
    <2>7. Paired(b, v)
        BY <2>3, <2>4, <2>6, PairedReplaced
    <2>8. Held(flow, Sdk(h, b, v, E), m, n, now, f)
        BY <2>3, <2>6, <2>7, HeldUnwritten
    <2>9. r.events = E
        BY <2>5 DEF Sdk
    <2> QED BY <1>3, <2>2, <2>5, <2>8, <2>9
<1> QED BY <1>1, <1>2, <1>3

-----------------------------------------------------------------------------
\* The steps that wait for the operation o of the instance i.
FlowTurn(s, k, i, o) == IF Workflow!Awaits(s, i, k) THEN Workflow!ReachStep(s, i, k, o) ELSE s

FlowHighest(s) == Workflow!Max(s)

\* The recursion of the fold over them.
FlowTurns(start, seq, i, o) ==
    CHOOSE g : g = [s \in SUBSET DOMAIN seq |->
                      IF s = {} THEN start
                      ELSE LET x == Workflow!Max(s) IN FlowTurn(g[s \ {x}], seq[x], i, o)]

FlowTurning(g, S, start, seq, i, o) ==
    g = [s \in SUBSET S |->
           IF s = {} THEN start ELSE FlowTurn(g[s \ {FlowHighest(s)}], seq[FlowHighest(s)], i, o)]

FlowEnded(start, i, o) ==
    Workflow!FoldLeftDomain(LAMBDA s, k : IF Workflow!Awaits(s, i, k) THEN Workflow!ReachStep(s, i, k, o) ELSE s,
                      start, flow.triggers)

\* It is well founded.
LEMMA FlowTurnsExist ==
    ASSUME NEW S, IsFiniteSet(S), NEW start, NEW seq, NEW i, NEW o,
           \A s \in SUBSET S : s # {} => FlowHighest(s) \in s
    PROVE  \E g : FlowTurning(g, S, start, seq, i, o)
<1> DEFINE Small(n) == {s \in SUBSET S : Cardinality(s) <= n}
           Part(g, n) == g = [s \in Small(n) |-> IF s = {} THEN start ELSE FlowTurn(g[s \ {FlowHighest(s)}], seq[FlowHighest(s)], i, o)]
           N == {n \in Nat : ~ \E g : Part(g, n)}
<1>1. \A s \in SUBSET S : IsFiniteSet(s) /\ Cardinality(s) \in Nat
    BY FS_Subset, FS_CardinalityType
<1>2. ASSUME NEW s \in SUBSET S, s # {} PROVE FlowHighest(s) \in s /\ Cardinality(s \ {FlowHighest(s)}) = Cardinality(s) - 1
    <2>1. FlowHighest(s) \in s
        BY <1>2
    <2> QED BY <1>1, <2>1, FS_RemoveElement
<1>3. N = {}
    <2> SUFFICES ASSUME N # {} PROVE FALSE
        OBVIOUS
    <2>1. PICK n \in N : \A m \in N : n <= m
        <3>1. N \in SUBSET Nat
            OBVIOUS
        <3> HIDE DEF N
        <3> QED BY <3>1, LeastOf
    <2>2. CASE n = 0
        <3> DEFINE g == [s \in Small(0) |-> start]
        <3>1. \A s \in Small(0) : s = {}
            BY <1>1, FS_EmptySet
        <3>2. g = [s \in Small(0) |-> IF s = {} THEN start ELSE FlowTurn(g[s \ {FlowHighest(s)}], seq[FlowHighest(s)], i, o)]
            <4> HIDE DEF Small
            <4> QED BY <3>1
        <3>3. Part(g, 0)
            BY <3>2
        <3> HIDE DEF g, Part
        <3> QED BY <2>1, <2>2, <3>3
    <2>3. CASE n # 0
        <3>1. n \in Nat /\ n - 1 \in Nat
            BY <2>1, <2>3
        <3>2. n - 1 \notin N
            <4> HIDE DEF N
            <4> QED BY <2>1, <3>1
        <3>3. PICK g : Part(g, n - 1)
            <4> HIDE DEF Part
            <4> QED BY <3>1, <3>2
        <3> DEFINE h == [s \in Small(n) |-> IF s = {} THEN start ELSE FlowTurn(g[s \ {FlowHighest(s)}], seq[FlowHighest(s)], i, o)]
        <3>4. \A s \in Small(n - 1) : s \in Small(n) /\ h[s] = g[s]
            <4>1. \A s \in Small(n - 1) : s \in Small(n)
                BY <1>1, <3>1
            <4> HIDE DEF Small
            <4> QED BY <3>3, <4>1
        <3>5. \A s \in Small(n) : s # {} => s \ {FlowHighest(s)} \in Small(n - 1)
            BY <1>1, <1>2, <3>1
        <3>6. Part(h, n)
            <4> HIDE DEF Small
            <4> QED BY <3>4, <3>5
        <3> HIDE DEF h, Part
        <3> QED BY <2>1, <3>6
    <2> QED BY <2>2, <2>3
<1>4. PICK g : Part(g, Cardinality(S))
    <2>1. Cardinality(S) \in Nat
        BY <1>1
    <2> HIDE DEF Part
    <2> QED BY <1>3, <2>1
<1>5. Small(Cardinality(S)) = SUBSET S
    <2>1. \A s \in SUBSET S : Cardinality(s) <= Cardinality(S)
        BY FS_Subset
    <2> QED BY <2>1
<1>6. FlowTurning(g, S, start, seq, i, o)
    <2> HIDE DEF Small
    <2> QED BY <1>4, <1>5 DEF FlowTurning
<1> QED BY <1>6

\* The states after each of them.
FlowInTurn(h, n, start, i, o) ==
    /\ h[0] = start
    /\ \A k \in 1 .. n : h[k] = FlowTurn(h[k - 1], k, i, o)
    /\ FlowEnded(start, i, o) = h[n]

\* The steps that wait for an operation are reached one after the other.
LEMMA FlowTakesTurns ==
    ASSUME NEW n \in Nat, DOMAIN flow.triggers = 1 .. n, NEW start, NEW i, NEW o
    PROVE  \E h : FlowInTurn(h, n, start, i, o)
<1>1. \A s : FlowHighest(s) = Highest(s)
    BY DEF FlowHighest, Highest, Workflow!Max, Arrival!Max
<1>2. PICK seq : seq = [j \in DOMAIN flow.triggers |-> j]
    OBVIOUS
<1>3. DOMAIN seq = 1 .. n /\ \A k \in 1 .. n : seq[k] = k
    BY <1>2
<1>4. PICK f : f = [s \in SUBSET (1 .. n) |->
                      IF s = {} THEN start ELSE FlowTurn(f[s \ {FlowHighest(s)}], seq[FlowHighest(s)], i, o)]
    <2>1. PICK S : S = 1 .. n
        OBVIOUS
    <2>2. IsFiniteSet(S) /\ \A s \in SUBSET S : s # {} => FlowHighest(s) \in s
        <3>1. \A s \in SUBSET (1 .. n) : s # {} => Highest(s) \in s
            BY HighestOf
        <3> QED BY <1>1, <2>1, <3>1, FS_Interval
    <2>3. PICK g : FlowTurning(g, S, start, seq, i, o)
        BY <2>2, FlowTurnsExist
    <2> QED BY <2>1, <2>3 DEF FlowTurning
<1>5. FlowTurns(start, seq, i, o)
        = [s \in SUBSET (1 .. n) |->
             IF s = {} THEN start
             ELSE FlowTurn(FlowTurns(start, seq, i, o)[s \ {FlowHighest(s)}], seq[FlowHighest(s)], i, o)]
    BY <1>3, <1>4 DEF FlowTurns, FlowHighest
<1>6. PICK g : g = FlowTurns(start, seq, i, o)
    OBVIOUS
<1>7. g = [s \in SUBSET (1 .. n) |->
             IF s = {} THEN start ELSE FlowTurn(g[s \ {FlowHighest(s)}], seq[FlowHighest(s)], i, o)]
    BY <1>5, <1>6
<1> DEFINE h == [k \in 0 .. n |-> g[1 .. k]]
<1>8. h[0] = start
    <2>1. 1 .. 0 = {} /\ {} \in SUBSET (1 .. n) /\ 0 \in 0 .. n
        OBVIOUS
    <2>2. g[{}] = start
        BY <1>7
    <2> QED BY <2>1, <2>2
<1>9. \A k \in 1 .. n : h[k] = FlowTurn(h[k - 1], k, i, o)
    <2> SUFFICES ASSUME NEW k \in 1 .. n PROVE h[k] = FlowTurn(h[k - 1], k, i, o)
        OBVIOUS
    <2>1. 1 .. k \in SUBSET (1 .. n) /\ k \in 1 .. k /\ k \in 0 .. n /\ k - 1 \in 0 .. n
        OBVIOUS
    <2>2. FlowHighest(1 .. k) = k
        <3>1. Highest(1 .. k) \in 1 .. k /\ \A m \in 1 .. k : m <= Highest(1 .. k)
            <4>1. 1 .. k # {}
                BY <2>1
            <4> QED BY <2>1, <4>1, HighestOf
        <3> QED BY <1>1, <3>1
    <2>3. (1 .. k) \ {k} = 1 .. (k - 1)
        OBVIOUS
    <2>4. g[1 .. k] = FlowTurn(g[(1 .. k) \ {FlowHighest(1 .. k)}], seq[FlowHighest(1 .. k)], i, o)
        BY <1>7, <2>1
    <2> QED BY <1>3, <2>1, <2>2, <2>3, <2>4
<1>10. FlowEnded(start, i, o) = h[n]
    <2>1. FlowEnded(start, i, o) = FlowTurns(start, [j \in DOMAIN flow.triggers |-> j], i, o)[DOMAIN [j \in DOMAIN flow.triggers |-> j]]
        BY Zenon DEF FlowEnded, Workflow!FoldLeftDomain, Workflow!FoldLeft, Workflow!MapThenFoldSet, FlowTurns, FlowTurn
    <2>2. FlowEnded(start, i, o) = g[1 .. n]
        BY <1>2, <1>3, <1>6, <2>1
    <2>3. h[n] = g[1 .. n]
        OBVIOUS
    <2> QED BY <2>2, <2>3
<1> HIDE DEF h
<1> QED BY <1>8, <1>9, <1>10 DEF FlowInTurn

\* All of them keep what holds.
LEMMA FlowFolds ==
    ASSUME NEW m \in Nat, NEW n \in Nat, now \in Nat, flow \in Flowing, NEW f, f = 0 => storing, NEW s,
           Held(flow, s, m, n, now, f),
           NEW i, NEW o \in (1 .. n) \cup {None}, NEW E, E = s.events,
           \A k \in DOMAIN flow.triggers : flow.triggers[k] = "operation_terminal" => Backs(flow, E, i, k, o)
    PROVE  Carries(flow, s, FlowEnded(s, i, o), i, m, n, now, f)
<1>1. PICK l \in Nat : DOMAIN flow.triggers = 1 .. l
    <2>1. flow.triggers \in Seq(STRING)
        BY FlowSdk
    <2> QED BY <2>1
<1>2. PICK h : FlowInTurn(h, l, s, i, o)
    BY <1>1, FlowTakesTurns
<1>3. h[0] = s /\ \A k \in 1 .. l : h[k] = FlowTurn(h[k - 1], k, i, o)
    BY <1>2 DEF FlowInTurn
<1> DEFINE Good(k) == k \in 0 .. l => Carries(flow, s, h[k], i, m, n, now, f)
<1>4. Good(0)
    BY <1>3 DEF Carries
<1>5. ASSUME NEW k \in Nat, Good(k) PROVE Good(k + 1)
    <2> SUFFICES ASSUME k + 1 \in 0 .. l PROVE Carries(flow, s, h[k + 1], i, m, n, now, f)
        OBVIOUS
    <2>1. k \in 0 .. l /\ k + 1 \in 1 .. l /\ (k + 1) - 1 = k
        OBVIOUS
    <2>2. PICK q, r : q = h[k] /\ r = h[k + 1]
        OBVIOUS
    <2>3. Carries(flow, s, q, i, m, n, now, f)
        BY <1>5, <2>1, <2>2
    <2>4. r = FlowTurn(q, k + 1, i, o)
        BY <1>3, <2>1, <2>2
    <2>5. CASE Workflow!Awaits(q, i, k + 1)
        <3>1. r = Workflow!ReachStep(q, i, k + 1, o) /\ i \in DOMAIN q.active /\ flow.triggers[k + 1] = "operation_terminal"
            BY <2>4, <2>5 DEF FlowTurn, Workflow!Awaits
        <3>2. Backs(flow, s.events, i, k + 1, o)
            BY <1>1, <2>1, <3>1
        <3>3. /\ Held(flow, q, m, n, now, f) /\ s.events \subseteq q.events
              /\ \A e \in q.events : e \in s.events \/ (e.instance = i /\ e.name \notin Outcomes)
            BY <2>3 DEF Carries
        <3>4. Backs(flow, q.events, i, k + 1, o)
            BY <3>2, <3>3, BacksGrows
        <3>5. Carries(flow, q, r, i, m, n, now, f)
            BY <3>1, <3>3, <3>4, FlowSteps DEF FlowCalls
        <3> QED BY <2>2, <3>3, <3>5 DEF Carries
    <2>6. CASE ~Workflow!Awaits(q, i, k + 1)
        <3>1. r = q
            BY <2>4, <2>6 DEF FlowTurn
        <3> QED BY <2>2, <2>3, <3>1
    <2> QED BY <2>5, <2>6
<1> DEFINE Bad == {k \in Nat : ~Good(k)}
<1>6. Bad = {}
    <2> SUFFICES ASSUME Bad # {} PROVE FALSE
        OBVIOUS
    <2>1. PICK k \in Bad : \A j \in Bad : k <= j
        <3>1. Bad \in SUBSET Nat
            OBVIOUS
        <3> HIDE DEF Bad
        <3> QED BY <3>1, LeastOf
    <2>2. k \in Nat /\ ~Good(k)
        OBVIOUS
    <2>3. k # 0
        <3> HIDE DEF Good
        <3> QED BY <1>4, <2>2
    <2>4. k - 1 \in Nat /\ (k - 1) + 1 = k
        BY <2>2, <2>3
    <2>5. Good(k - 1)
        <3>1. k - 1 \notin Bad
            <4> HIDE DEF Bad
            <4> QED BY <2>1, <2>2, <2>4
        <3> HIDE DEF Good
        <3> QED BY <2>4, <3>1
    <2>6. Good((k - 1) + 1)
        <3> HIDE DEF Good
        <3> QED BY <1>5, <2>4, <2>5
    <2> HIDE DEF Good
    <2> QED BY <2>2, <2>4, <2>6
<1>7. Good(l)
    <2> HIDE DEF Good
    <2> QED BY <1>6
<1>8. FlowEnded(s, i, o) = h[l]
    BY <1>2 DEF FlowInTurn
<1> QED BY <1>7, <1>8

\* The end of an operation as the host sees it.
LEMMA FlowTerminal ==
    ASSUME NEW m \in Nat, NEW n \in Nat, now \in Nat, flow \in Flowing, NEW f, f = 0 => storing, NEW s,
           Held(flow, s, m, n, now, f),
           NEW ops, Unended(s.events, ops, m, n), NEW o \in DOMAIN ops, NEW name \in {"feature_succeeded",
           "feature_failed"},
           NEW i, i = ops[o], NEW told, told = Workflow!Emit(s, name, i, None, o),
           NEW freed, freed = Workflow!Safe(told, i, OneLess(told, i)),
           NEW r,
           r = IF name = "feature_succeeded" /\ i \in DOMAIN freed.active THEN FlowEnded(freed, i, o) ELSE freed
    PROVE  Ended(flow, s, r, ops, o, m, n, now, f)
<1>1. /\ o \in 1 .. n /\ i \in 1 .. m
      /\ \E e \in s.events : e.name = "feature_started" /\ e.operation = o /\ e.instance = i
      /\ \A e \in s.events : e.operation = o => e.name \notin Outcomes
    BY DEF Unended
<1>2. \A e \in s.events : e.operation = o => e.instance = i
    <2>1. o # None
        BY <1>1, NoneIsNoNumber
    <2> QED BY <1>1, <2>1 DEF Held, History, Firm
<1>3. name \in Outcomes /\ name \notin Closings
    BY DEF Outcomes, Closings
<1>4. EndReported(flow, s, told, i, o, name, m, n, now, f)
    BY <1>1, <1>2, <1>3, FlowReports
<1>5. PICK x : told.events = s.events \cup {x} /\ x.name = name /\ x.operation = o /\ x.instance = i
    BY <1>4 DEF EndReported
<1>6. Held(flow, told, m, n, now, f) /\ told.active = s.active
    BY <1>4 DEF EndReported
<1>7. Held(flow, freed, m, n, now, f) /\ freed.events = told.events /\ (i \in DOMAIN freed.active => Workflow!Alive(told, i))
    BY <1>6, FlowFreed
<1>8. Unended(told.events, Without(ops, o), m, n)
    <2>1. \A p \in DOMAIN Without(ops, o) : p \in DOMAIN ops /\ p # o /\ Without(ops, o)[p] = ops[p]
        BY DEF Without
    <2> QED BY <1>5, <2>1 DEF Unended
<1>9. Timely(flow, s, freed, now)
    BY <1>3, <1>5, <1>7 DEF Timely
<1>10. CASE ~(name = "feature_succeeded" /\ i \in DOMAIN freed.active)
    BY <1>7, <1>8, <1>9, <1>10 DEF Ended
<1>11. CASE name = "feature_succeeded" /\ i \in DOMAIN freed.active
    <2>1. r = FlowEnded(freed, i, o)
        BY <1>11
    <2>2. PICK E : E = freed.events
        OBVIOUS
    <2>3. \A k \in DOMAIN flow.triggers : flow.triggers[k] = "operation_terminal" => Backs(flow, E, i, k, o)
        <3>1. o # None
            BY <1>1, NoneIsNoNumber
        <3>2. \A e \in E : e.operation = o => e.instance = i
            BY <1>2, <1>5, <1>7, <2>2
        <3>3. \E e \in E : e.name = "feature_started" /\ e.operation = o /\ e.instance = i
            BY <1>1, <1>5, <1>7, <2>2
        <3>4. \E e \in E : e.name = "feature_succeeded" /\ e.operation = o /\ e.instance = i
            BY <1>5, <1>7, <1>11, <2>2
        <3> QED BY <3>1, <3>2, <3>3, <3>4 DEF Backs
    <2>4. Carries(flow, freed, r, i, m, n, now, f)
        BY <1>1, <1>7, <2>1, <2>2, <2>3, FlowFolds
    <2>5. Unended(r.events, Without(ops, o), m, n)
        BY <1>7, <1>8, <2>4, UnendedGrows DEF Carries
    <2>6. i \in DOMAIN s.active /\ now < s.active[i].startedAt + flow.timeout
        <3>1. Workflow!Alive(told, i) /\ i \in DOMAIN told.active
            BY <1>7, <1>11 DEF Workflow!Alive
        <3>2. told.host \in Host(now) /\ told.active[i] \in Life(flow, now)
            BY <1>6, <3>1 DEF Held, LivesOk
        <3>3. now < told.active[i].startedAt + flow.timeout
            BY <3>1, <3>2, FlowAlive
        <3> QED BY <1>6, <3>1, <3>3
    <2>7. Timely(flow, s, r, now)
        BY <1>9, <2>4, <2>6 DEF Timely, Carries
    <2> QED BY <2>4, <2>5, <2>7 DEF Carries, Ended
<1> QED BY <1>10, <1>11

-----------------------------------------------------------------------------
\* A session that has just been refreshed.
LEMMA FlowFresh ==
    ASSUME now \in Nat, flow \in Flowing, NEW h \in Host(now), h.activity = now PROVE Workflow!RefreshSession(h) = h
<1>1. ~(now - h.activity >= flow.session) /\ h.session # Workflow!Expired
    BY FlowSdk DEF Host, Workflow!Expired
<1>2. Workflow!SessionOf(h) # Workflow!Expired
    BY <1>1 DEF Workflow!SessionOf
<1>3. h = [session |-> h.session, activity |-> now]
    BY DEF Host
<1> QED BY <1>2, <1>3 DEF Workflow!RefreshSession

\* A started or pending instance.
LEMMA FlowEnters ==
    ASSUME NEW m \in Nat, NEW n \in Nat, now \in Nat, flow \in Flowing, NEW f, f = 0 => storing, NEW s,
           Held(flow, s, m, n, now, f),
           Cardinality(DOMAIN s.active) < flow.active, NEW i, i = m + 1,
           NEW h, h = Workflow!RefreshSession(s.host),
           NEW w, w = Workflow!Instance(now, IF flow.firstStep THEN "pending" ELSE "started", h.session),
           NEW b, b = Joined(s.active, i, w), NEW r,
           r = Workflow!Persist(IF flow.firstStep THEN Sdk(h, b, s.saved, s.events)
                          ELSE Workflow!Emit(Sdk(h, b, s.saved, s.events), "workflow_started", i, None, None))
    PROVE  Entered(flow, s, r, i, n, now, f)
<1>1. PICK a, v, E : a = s.active /\ v = s.saved /\ E = s.events
    OBVIOUS
<1>2. /\ s.host \in Host(now) /\ E \subseteq Emission(flow, m, n, now) /\ History(flow, E, f)
      /\ LivesOk(flow, a, E, m, now, f) /\ LivesOk(flow, v, E, m, now, f) /\ Paired(a, v)
    BY <1>1 DEF Held
<1>3. h \in Host(now) /\ h.activity = now
    BY <1>2, FlowRefresh DEF Workflow!RefreshSession
<1>4. /\ w.state = IF flow.firstStep THEN "pending" ELSE "started"
      /\ w.startedAt = now /\ w.reached = {} /\ w.session = h.session /\ w \in Life(flow, now)
    <2>1. w = [state |-> IF flow.firstStep THEN "pending" ELSE "started", startedAt |-> now, reached |-> {},
               session |-> h.session, open |-> 0]
        BY DEF Workflow!Instance
    <2>2. h.session \in Nat \ {0}
        BY <1>3 DEF Host
    <2> QED BY <2>1, <2>2 DEF Life
<1>5. \A e \in E : e.instance \in 1 .. m
    BY <1>2 DEF Emission
<1>6. i \in Nat /\ i \in 1 .. i /\ m <= i /\ \A e \in E : e.instance # i
    BY <1>5
<1>7. E \subseteq Emission(flow, i, n, now)
    <2>1. Emission(flow, m, n, now) \subseteq Emission(flow, i, n, now)
        BY <1>6 DEF Emission
    <2> QED BY <1>2, <2>1
<1>8. i \notin DOMAIN v /\ i \notin DOMAIN a
    <2>1. DOMAIN v \subseteq 1 .. m /\ DOMAIN a \subseteq 1 .. m
        BY <1>2 DEF LivesOk
    <2> QED BY <2>1
<1>9. Paired(b, v)
    BY <1>1, <1>2, <1>8, PairedJoined
<1>10. CASE flow.firstStep
    <2>1. Suits(flow, w, i, E, f)
        BY <1>4, <1>6, <1>10 DEF Suits, Bound, Evidenced
    <2>2. LivesOk(flow, b, E, i, now, f)
        BY <1>1, <1>2, <1>4, <2>1, LivesJoined, FlowSdk
    <2>3. LivesOk(flow, v, E, i, now, f)
        BY <1>2, <1>6, LivesLater
    <2>4. r = Sdk(h, b, IF storing THEN Snapshot(b) ELSE v, E)
        BY <1>1, <1>10, FlowPersists
    <2>5. Held(flow, Sdk(h, b, Snapshot(b), E), i, n, now, f) /\ Held(flow, Sdk(h, b, v, E), i, n, now, f)
        BY <1>2, <1>3, <1>7, <1>9, <2>2, <2>3, HeldWritten, HeldUnwritten
    <2> QED BY <1>1, <2>4, <2>5 DEF Sdk, Entered
<1>11. CASE ~flow.firstStep
    <2>1. PICK x : x = Emitted("workflow_started", i, now, h.session, None, None)
        OBVIOUS
    <2>2. Workflow!Emit(Sdk(h, b, v, E), "workflow_started", i, None, None) = Sdk(h, b, v, E \cup {x})
        BY <1>3, <2>1, FlowEmits, FlowFresh
    <2>3. /\ x \in Emission(flow, i, n, now) /\ x.at = now /\ x.instance = i /\ x.name = "workflow_started"
          /\ x.session = h.session /\ x.operation = None
        <3>1. h.session \in Nat /\ "workflow_started" \in Phases \cup Parts
            BY <1>3 DEF Host, Phases
        <3> QED BY <1>6, <2>1, <3>1, EmittedTyped DEF Emitted
    <2>4. "workflow_started" \notin Outcomes /\ "workflow_started" \notin Closings /\ "workflow_started" # "workflow_completed"
          /\ "workflow_started" # "workflow_step_reached"
        BY DEF Outcomes, Closings
    <2>5. FirmlyAfter(flow, E, x)
        BY <1>6, <2>3, <2>4 DEF FirmlyAfter
    <2>6. SmoothlyAfter(flow, E, x)
        <3>1. \A e \in E : e.at <= now
            BY <1>2 DEF Emission
        <3> QED BY <1>6, <2>3, <2>4, <3>1 DEF SmoothlyAfter
    <2>7. History(flow, E \cup {x}, f)
        BY <1>2, <1>6, <1>7, <2>3, <2>5, <2>6, HistoryGrows
    <2>8. LivesOk(flow, a, E \cup {x}, m, now, f) /\ LivesOk(flow, v, E \cup {x}, m, now, f)
        BY <1>2, <1>8, <2>3, LivesQuiet
    <2>9. Suits(flow, w, i, E \cup {x}, f)
        <3>1. Bound(flow, w, i, E \cup {x})
            BY <1>4, <1>6, <1>11, <2>3 DEF Bound
        <3>2. Evidenced(w, i, E \cup {x})
            BY <1>4, <1>6, <1>11, <2>3, <2>4 DEF Evidenced
        <3> QED BY <3>1, <3>2 DEF Suits
    <2>10. LivesOk(flow, b, E \cup {x}, i, now, f)
        BY <1>1, <1>4, <2>8, <2>9, LivesJoined, FlowSdk
    <2>11. LivesOk(flow, v, E \cup {x}, i, now, f)
        BY <1>6, <2>8, LivesLater
    <2>12. r = Sdk(h, b, IF storing THEN Snapshot(b) ELSE v, E \cup {x})
        BY <1>1, <1>11, <2>2, FlowPersists
    <2>13. E \cup {x} \subseteq Emission(flow, i, n, now)
        BY <1>7, <2>3
    <2>14. Held(flow, Sdk(h, b, Snapshot(b), E \cup {x}), i, n, now, f) /\ Held(flow, Sdk(h, b, v, E \cup {x}), i, n, now, f)
        BY <1>3, <1>9, <2>7, <2>10, <2>11, <2>13, HeldWritten, HeldUnwritten
    <2>15. Held(flow, r, i, n, now, f)
        <3>1. CASE storing
            BY <2>12, <2>14, <3>1
        <3>2. CASE ~storing
            BY <2>12, <2>14, <3>2
        <3> QED BY <3>1, <3>2
    <2>16. r.events = E \cup {x}
        BY <2>12 DEF Sdk
    <2>17. s.events \subseteq r.events /\ \A e \in r.events : e \in s.events \/ e.name = "workflow_started"
        BY <1>1, <2>3, <2>16
    <2> QED BY <2>15, <2>17 DEF Entered
<1> QED BY <1>10, <1>11

-----------------------------------------------------------------------------
\* The runtime begins as it says.
LEMMA FlowRuntimeBegins == Workflow!Init => RuntimeInvariant
<1> SUFFICES ASSUME Workflow!Init PROVE RuntimeInvariant
    OBVIOUS
<1>1. PICK h : h = [session |-> 1, activity |-> 0]
    OBVIOUS
<1>2. sdk = Sdk(h, <<>>, <<>>, {}) /\ operations = <<>> /\ now = 0 /\ flow \in Flowing
    BY <1>1 DEF Workflow!Init, Sdk
<1>3. h \in Host(0)
    BY <1>1 DEF Host
<1>4. History(flow, {}, 0)
    BY DEF History, Firm, Smooth
<1>5. LivesOk(flow, <<>>, {}, 0, 0, 0)
    BY <1>2, NoLives, FlowSdk
<1>6. DOMAIN <<>> = {}
    OBVIOUS
<1>7. Paired(<<>>, <<>>)
    BY <1>6 DEF Paired
<1>8. Held(flow, sdk, 0, 0, 0, 0)
    BY <1>2, <1>3, <1>4, <1>5, <1>7, HeldUnwritten
<1>9. Unended(sdk.events, operations, 0, 0)
    BY <1>2, <1>6 DEF Unended
<1>10. counters = [instances |-> 0, operations |-> 0, faults |-> 0] /\ storing = TRUE /\ offered = "startable"
       /\ destroyed = FALSE
    BY DEF Workflow!Init
<1>11. /\ counters.instances = 0 /\ counters.operations = 0 /\ counters.faults = 0
       /\ counters = [instances |-> counters.instances, operations |-> counters.operations, faults |-> counters.faults]
    BY <1>10
<1>12. /\ now \in Nat /\ now <= flow.time
       /\ storing \in BOOLEAN /\ destroyed \in BOOLEAN /\ offered \in {"startable", "retired", "absent"}
       /\ counters.instances \in Nat /\ counters.operations \in Nat /\ counters.faults \in Nat
       /\ storing
    <2>1. now \in Nat /\ now <= flow.time
        BY <1>2, FlowSdk
    <2>2. storing \in BOOLEAN /\ destroyed \in BOOLEAN /\ storing
        BY <1>10
    <2>3. offered \in {"startable", "retired", "absent"}
        BY <1>10
    <2>4. counters.instances \in Nat /\ counters.operations \in Nat /\ counters.faults \in Nat
        BY <1>11
    <2> QED BY <2>1, <2>2, <2>3, <2>4
<1>13. /\ Held(flow, sdk, counters.instances, counters.operations, now, counters.faults)
       /\ Unended(sdk.events, operations, counters.instances, counters.operations)
    BY <1>2, <1>8, <1>9, <1>11
<1> QED BY <1>2, <1>11, <1>12, <1>13 DEF RuntimeInvariant

\* The parts of the invariant.
LEMMA FlowFacts ==
    ASSUME RuntimeInvariant
    PROVE  /\ flow \in Flowing
           /\ now \in Nat /\ counters.instances \in Nat /\ counters.operations \in Nat /\ counters.faults \in Nat
           /\ counters.faults = 0 => storing
           /\ Held(flow, sdk, counters.instances, counters.operations, now, counters.faults)
           /\ sdk = Sdk(sdk.host, sdk.active, sdk.saved, sdk.events) /\ sdk.host \in Host(now)
    BY DEF RuntimeInvariant, Held

\* startWorkflow().
LEMMA FlowStartMoves == ASSUME RuntimeInvariant, Workflow!StartWorkflow PROVE Moved
<1>1. PICK m, n, f : m = counters.instances /\ n = counters.operations /\ f = counters.faults
    OBVIOUS
<1>2. /\ flow \in Flowing /\ now \in Nat /\ m \in Nat /\ n \in Nat /\ f \in Nat /\ (f = 0 => storing) /\ Held(flow, sdk, m, n, now, f)
      /\ sdk = Sdk(sdk.host, sdk.active, sdk.saved, sdk.events) /\ sdk.host \in Host(now)
      /\ Unended(sdk.events, operations, m, n)
    BY <1>1, FlowFacts DEF RuntimeInvariant
<1>3. PICK h, a, v, E : h = Workflow!RefreshSession(sdk.host) /\ a = sdk.active /\ v = sdk.saved /\ E = sdk.events
    OBVIOUS
<1>4. h \in Host(now) /\ h.activity = now
    BY <1>2, <1>3, FlowRefresh DEF Workflow!RefreshSession
<1>5. PICK i, w, b :
         /\ i = m + 1 /\ w = Workflow!Instance(now, IF flow.firstStep THEN "pending" ELSE "started", h.session)
         /\ b = Joined(a, i, w)
    OBVIOUS
<1>6. [sdk EXCEPT !.host = h] = Sdk(h, a, v, E)
    BY <1>2, <1>3 DEF Sdk
<1>7. [sdk EXCEPT !.host = h, !.active = Workflow!With(@, i, w)] = Sdk(h, b, v, E)
    <2>1. PICK q : q = [sdk EXCEPT !.host = h]
        OBVIOUS
    <2>2. [sdk EXCEPT !.host = h, !.active = Workflow!With(@, i, w)] = [q EXCEPT !.active = Workflow!With(@, i, w)]
        BY <2>1
    <2>3. Workflow!With(a, i, w) = b
        BY <1>5 DEF Workflow!With, Joined
    <2>4. q = Sdk(h, a, v, E) /\ q.active = a
        BY <1>6, <2>1 DEF Sdk
    <2>5. [q EXCEPT !.active = Workflow!With(@, i, w)] = [q EXCEPT !.active = b]
        BY <2>3, <2>4
    <2>6. [q EXCEPT !.active = b] = Sdk(h, b, v, E)
        BY <2>4 DEF Sdk
    <2> QED BY <2>2, <2>5, <2>6
<1>8. CASE destroyed \/ offered # "startable" \/ Workflow!Cardinality(DOMAIN sdk.active) >= flow.active
    <2>1. sdk' = Sdk(h, a, v, E) /\ UNCHANGED <<counters, now, flow, operations, storing, offered, destroyed>>
        BY <1>3, <1>6, <1>8 DEF Workflow!StartWorkflow
    <2>2. Held(flow, Sdk(h, a, v, E), m, n, now, f)
        <3>1. /\ E \subseteq Emission(flow, m, n, now) /\ History(flow, E, f)
              /\ LivesOk(flow, a, E, m, now, f) /\ LivesOk(flow, v, E, m, now, f) /\ Paired(a, v)
            BY <1>2, <1>3 DEF Held
        <3> QED BY <1>4, <3>1, HeldUnwritten
    <2>3. sdk'.events = sdk.events
        BY <1>3, <2>1 DEF Sdk
    <2>4. offered \in {"startable", "retired", "absent"} /\ destroyed \in BOOLEAN
        BY DEF RuntimeInvariant
    <2> QED BY <1>1, <2>1, <2>2, <2>3, <2>4, SameEventsMove
<1>9. CASE ~(destroyed \/ offered # "startable" \/ Workflow!Cardinality(DOMAIN sdk.active) >= flow.active)
    <2>1. PICK r : r = Workflow!Persist(IF flow.firstStep THEN Sdk(h, b, v, E)
                                  ELSE Workflow!Emit(Sdk(h, b, v, E), "workflow_started", i, None, None))
        OBVIOUS
    <2>2. sdk' = r /\ counters' = [counters EXCEPT !.instances = i]
          /\ UNCHANGED <<now, flow, operations, storing, offered, destroyed>>
        BY <1>1, <1>3, <1>5, <1>7, <1>9, <2>1 DEF Workflow!StartWorkflow
    <2>3. Cardinality(DOMAIN sdk.active) < flow.active
        <3>1. DOMAIN sdk.active \subseteq 1 .. m
            BY <1>2 DEF Held, LivesOk
        <3>2. IsFiniteSet(1 .. m)
            BY <1>2, FS_Interval
        <3>3. IsFiniteSet(DOMAIN sdk.active)
            BY <3>1, <3>2, FS_Subset
        <3>4. Cardinality(DOMAIN sdk.active) \in Nat
            BY <3>3, FS_CardinalityType
        <3>5. Workflow!Cardinality(DOMAIN sdk.active) = Cardinality(DOMAIN sdk.active)
            BY DEF Workflow!Cardinality, Cardinality
        <3> QED BY <1>2, <1>9, <3>4, <3>5, FlowSdk
    <2>4. /\ Held(flow, r, i, n, now, f) /\ E \subseteq r.events
          /\ \A e \in r.events : e \in E \/ e.name = "workflow_started"
        <3>1. /\ b = Joined(sdk.active, i, w)
              /\ r = Workflow!Persist(IF flow.firstStep THEN Sdk(h, b, sdk.saved, sdk.events)
                                ELSE Workflow!Emit(Sdk(h, b, sdk.saved, sdk.events), "workflow_started", i, None, None))
            BY <1>3, <1>5, <2>1
        <3>2. Entered(flow, sdk, r, i, n, now, f)
            BY <1>2, <1>3, <1>5, <2>3, <3>1, FlowEnters
        <3> QED BY <1>3, <3>2 DEF Entered
    <2>5. "workflow_started" \notin Outcomes /\ "workflow_started" \notin Closings
        BY DEF Outcomes, Closings
    <2>6. Unended(r.events, operations, i, n)
        <3>1. Unended(r.events, operations, m, n)
            BY <1>2, <1>3, <2>4, <2>5, UnendedGrows
        <3>2. i \in Nat /\ m <= i /\ n <= n
            BY <1>2, <1>5
        <3> QED BY <1>2, <3>1, <3>2, UnendedLater
    <2>7. Timely(flow, sdk, sdk', now)
        BY <1>3, <2>2, <2>4, <2>5 DEF Timely
    <2>8. counters' = [instances |-> i, operations |-> n, faults |-> f]
        BY <1>1, <2>2 DEF RuntimeInvariant
    <2> QED BY <1>2, <1>5, <2>2, <2>4, <2>6, <2>7, <2>8 DEF RuntimeInvariant, Moved
<1> QED BY <1>8, <1>9

\* A call on an instance, seen from the host.
LEMMA FlowCarriedMoves ==
    ASSUME RuntimeInvariant, NEW i \in DOMAIN sdk.active,
           Carries(flow, sdk, sdk', i, counters.instances, counters.operations, now, counters.faults),
           ~Workflow!Alive(sdk, i) => sdk'.events = sdk.events,
           now' = now, UNCHANGED <<flow, operations, counters, storing, offered, destroyed>>
    PROVE  Moved
<1>1. Timely(flow, sdk, sdk', now)
    BY FlowFacts, FlowTimely
<1>2. /\ Held(flow, sdk', counters.instances, counters.operations, now, counters.faults)
      /\ sdk.events \subseteq sdk'.events /\ \A e \in sdk'.events : e \in sdk.events \/ e.name \notin Outcomes
    BY DEF Carries
<1>3. offered \in {"startable", "retired", "absent"} /\ destroyed \in BOOLEAN
    BY DEF RuntimeInvariant
<1> QED BY <1>1, <1>2, <1>3, MovedQuietly

\* reachStep() of the host.
LEMMA FlowReachMoves ==
    ASSUME RuntimeInvariant, NEW i \in DOMAIN sdk.active, NEW step \in DOMAIN flow.triggers, Workflow!Reach(i, step)
    PROVE  Moved
<1>1. /\ flow.triggers[step] = "explicit_sdk" /\ sdk' = Workflow!ReachStep(sdk, i, step, None)
      /\ UNCHANGED <<now, flow, operations, counters, storing, offered, destroyed>>
    BY DEF Workflow!Reach
<1>2. Backs(flow, sdk.events, i, step, None)
    BY <1>1 DEF Backs
<1>3. /\ Carries(flow, sdk, sdk', i, counters.instances, counters.operations, now, counters.faults)
      /\ ~Workflow!Alive(sdk, i) => sdk'.events = sdk.events
    <2>1. PICK m, n, f, r : /\ m = counters.instances /\ n = counters.operations /\ f = counters.faults
                            /\ r = sdk'
        OBVIOUS
    <2>2. /\ flow \in Flowing /\ now \in Nat /\ m \in Nat /\ n \in Nat /\ (f = 0 => storing) /\ Held(flow, sdk, m, n, now, f)
          /\ None \in (1 .. n) \cup {None} /\ r = Workflow!ReachStep(sdk, i, step, None)
        BY <1>1, <2>1, FlowFacts
    <2>3. FlowCalls(sdk, Workflow!ReachStep(sdk, i, step, None), i, m, n, f)
        BY <1>2, <2>2, FlowSteps
    <2> QED BY <2>1, <2>2, <2>3 DEF FlowCalls
<1> QED BY <1>1, <1>3, FlowCarriedMoves

\* complete(), fail() and cancel() of the host.
LEMMA FlowFinishMoves ==
    ASSUME RuntimeInvariant, NEW i \in DOMAIN sdk.active, Workflow!Finish(i) PROVE Moved
<1>1. PICK name \in Closings : sdk' = Workflow!FinishInstance(sdk, i, name)
    BY DEF Workflow!Finish, Closings
<1>2. UNCHANGED <<now, flow, operations, counters, storing, offered, destroyed>>
    BY DEF Workflow!Finish
<1>3. /\ Carries(flow, sdk, sdk', i, counters.instances, counters.operations, now, counters.faults)
      /\ ~Workflow!Alive(sdk, i) => sdk'.events = sdk.events
    <2>1. PICK m, n, f, r : /\ m = counters.instances /\ n = counters.operations /\ f = counters.faults
                            /\ r = sdk'
        OBVIOUS
    <2>2. /\ flow \in Flowing /\ now \in Nat /\ m \in Nat /\ n \in Nat /\ (f = 0 => storing) /\ Held(flow, sdk, m, n, now, f)
          /\ r = Workflow!FinishInstance(sdk, i, name)
        BY <1>1, <2>1, FlowFacts
    <2>3. FlowCalls(sdk, Workflow!FinishInstance(sdk, i, name), i, m, n, f)
        BY <2>2, FlowFinishes
    <2> QED BY <2>1, <2>2, <2>3 DEF FlowCalls
<1> QED BY <1>2, <1>3, FlowCarriedMoves

\* The end of an instance without an event.
LEMMA FlowReleaseMoves ==
    ASSUME RuntimeInvariant, NEW i, sdk' = Workflow!Release(sdk, i),
           UNCHANGED <<now, flow, operations, counters, storing, offered, destroyed>>
    PROVE  Moved
<1>1. /\ Held(flow, sdk', counters.instances, counters.operations, now, counters.faults)
      /\ sdk'.events = sdk.events
    <2>1. Released(flow, sdk, Workflow!Release(sdk, i), i, counters.instances, counters.operations, now, counters.faults)
        BY FlowFacts, FlowReleased
    <2> QED BY <2>1 DEF Released
<1>2. offered \in {"startable", "retired", "absent"} /\ destroyed \in BOOLEAN
    BY DEF RuntimeInvariant
<1> QED BY <1>1, <1>2, SameEventsMove

\* The start of an operation.
LEMMA FlowOpenMoves ==
    ASSUME RuntimeInvariant, NEW i \in DOMAIN sdk.active, Workflow!StartOperation(i) PROVE Moved
<1>1. PICK m, n, f, o : m = counters.instances /\ n = counters.operations /\ f = counters.faults /\ o = n + 1
    OBVIOUS
<1>2. /\ flow \in Flowing /\ now \in Nat /\ m \in Nat /\ n \in Nat /\ f \in Nat /\ (f = 0 => storing) /\ Held(flow, sdk, m, n, now, f)
      /\ Unended(sdk.events, operations, m, n)
    BY <1>1, FlowFacts DEF RuntimeInvariant
<1>3. CASE ~(Workflow!Alive(sdk, i) /\ sdk.active[i].open < flow.operations)
    <2>1. sdk' = Workflow!Safe(sdk, i, sdk) /\ UNCHANGED <<now, flow, operations, counters, storing, offered, destroyed>>
        BY <1>3 DEF Workflow!StartOperation
    <2>2. sdk' = sdk \/ sdk' = Workflow!Release(sdk, i)
        BY <2>1 DEF Workflow!Safe
    <2>3. offered \in {"startable", "retired", "absent"} /\ destroyed \in BOOLEAN
        BY DEF RuntimeInvariant
    <2>4. CASE sdk' = sdk
        BY <1>1, <1>2, <2>1, <2>3, <2>4, SameEventsMove
    <2> QED BY <2>1, <2>2, <2>4, FlowReleaseMoves
<1>4. CASE Workflow!Alive(sdk, i) /\ sdk.active[i].open < flow.operations
    <2>1. sdk' = Workflow!Emit(OneMore(sdk, i), "feature_started", i, None, o)
        BY <1>1, <1>4 DEF Workflow!StartOperation, OneMore
    <2>2. /\ operations' = Workflow!With(operations, o, i) /\ counters' = [counters EXCEPT !.operations = o]
          /\ UNCHANGED <<now, flow, storing, offered, destroyed>>
        BY <1>1, <1>4 DEF Workflow!StartOperation
    <2>3. /\ Held(flow, sdk', m, o, now, f)
          /\ \E x : /\ sdk'.events = sdk.events \cup {x}
                    /\ x.name = "feature_started" /\ x.operation = o /\ x.instance = i
        BY <1>1, <1>2, <1>4, <2>1, FlowOpens
    <2>4. PICK x : /\ sdk'.events = sdk.events \cup {x}
                   /\ x.name = "feature_started" /\ x.operation = o /\ x.instance = i
        BY <2>3
    <2>5. i \in 1 .. m
        BY <1>2 DEF Held, LivesOk
    <2>6. \A e \in sdk.events : e.operation # o
        <3>1. \A e \in sdk.events : e.operation \in (1 .. n) \cup {None}
            BY <1>2 DEF Held, Emission
        <3> QED BY <1>1, <1>2, <3>1, NoneIsNoNumber
    <2>7. operations' = Joined(operations, o, i)
        BY <2>2 DEF Workflow!With, Joined
    <2>8. Unended(sdk'.events, operations', m, o)
        BY <1>1, <1>2, <2>4, <2>5, <2>6, <2>7, UnendedJoined
    <2>9. "feature_started" \notin Closings
        BY DEF Closings
    <2>10. Timely(flow, sdk, sdk', now)
        BY <2>4, <2>9 DEF Timely
    <2>11. counters' = [instances |-> m, operations |-> o, faults |-> f]
        BY <1>1, <2>2 DEF RuntimeInvariant
    <2>12. o \in Nat
        BY <1>1, <1>2
    <2> QED BY <1>2, <2>2, <2>3, <2>8, <2>10, <2>11, <2>12 DEF RuntimeInvariant, Moved
<1> QED BY <1>3, <1>4

\* The end of an operation.
LEMMA FlowEndMoves ==
    ASSUME RuntimeInvariant, NEW o \in DOMAIN operations, Workflow!EndOperation(o) PROVE Moved
<1>1. PICK m, n, f : m = counters.instances /\ n = counters.operations /\ f = counters.faults
    OBVIOUS
<1>2. /\ flow \in Flowing /\ now \in Nat /\ m \in Nat /\ n \in Nat /\ f \in Nat /\ (f = 0 => storing) /\ Held(flow, sdk, m, n, now, f)
      /\ Unended(sdk.events, operations, m, n)
    BY <1>1, FlowFacts DEF RuntimeInvariant
<1>3. PICK ops : ops = operations
    OBVIOUS
<1>4. operations' = Without(ops, o) /\ UNCHANGED <<now, flow, counters, storing, offered, destroyed>>
    BY <1>3 DEF Workflow!EndOperation, Workflow!Drop, Without
<1>5. CASE destroyed
    <2>1. sdk' = sdk
        BY <1>5 DEF Workflow!EndOperation
    <2>2. Unended(sdk.events, Without(ops, o), m, n)
        BY <1>2, <1>3, UnendedFewer
    <2>3. Timely(flow, sdk, sdk', now)
        BY <2>1 DEF Timely
    <2> QED BY <1>1, <1>4, <2>1, <2>2, <2>3 DEF RuntimeInvariant, Moved
<1>6. CASE ~destroyed
    <2>1. PICK name \in {"feature_succeeded", "feature_failed"} :
            LET i == operations[o]
                told == Workflow!Emit(sdk, name, i, None, o)
                freed == Workflow!Safe(told, i, OneLess(told, i))
            IN  sdk' = IF destroyed THEN sdk
                       ELSE IF name = "feature_succeeded" /\ i \in DOMAIN freed.active
                       THEN FlowEnded(freed, i, o) ELSE freed
        BY DEF Workflow!EndOperation, OneLess, FlowEnded
    <2>2. PICK i, told, freed, r :
             /\ i = ops[o] /\ told = Workflow!Emit(sdk, name, i, None, o) /\ freed = Workflow!Safe(told, i, OneLess(told, i))
             /\ r = IF name = "feature_succeeded" /\ i \in DOMAIN freed.active THEN FlowEnded(freed, i, o) ELSE freed
        OBVIOUS
    <2>3. sdk' = r
        BY <1>3, <1>6, <2>1, <2>2
    <2>4. Unended(sdk.events, ops, m, n) /\ o \in DOMAIN ops
        BY <1>2, <1>3
    <2>5. Ended(flow, sdk, r, ops, o, m, n, now, f)
        BY <1>2, <2>2, <2>4, FlowTerminal
    <2> QED BY <1>1, <1>4, <2>3, <2>5 DEF Ended, RuntimeInvariant, Moved
<1> QED BY <1>5, <1>6

\* A new document.
LEMMA FlowLoadMoves == ASSUME RuntimeInvariant, Workflow!Load PROVE Moved
<1>1. PICK m, n, f : m = counters.instances /\ n = counters.operations /\ f = counters.faults
    OBVIOUS
<1>2. /\ flow \in Flowing /\ now \in Nat /\ m \in Nat /\ n \in Nat /\ f \in Nat /\ (f = 0 => storing) /\ Held(flow, sdk, m, n, now, f)
      /\ sdk = Sdk(sdk.host, sdk.active, sdk.saved, sdk.events) /\ sdk.host \in Host(now)
    BY <1>1, FlowFacts DEF RuntimeInvariant
<1>3. PICK h, v, E : h = Workflow!RefreshSession(sdk.host) /\ v = sdk.saved /\ E = sdk.events
    OBVIOUS
<1>4. h \in Host(now)
    BY <1>2, <1>3, FlowRefresh
<1>5. PICK known \in {"startable", "retired", "absent"}, K \in SUBSET DOMAIN v :
         /\ sdk' = IF K = {} THEN [sdk EXCEPT !.host = h, !.active = Only(v, K)]
                   ELSE Workflow!Persist([sdk EXCEPT !.host = h, !.active = Only(v, K)])
         /\ offered' = known
    <2>1. PICK known \in {"startable", "retired", "absent"} :
            LET kept == {i \in DOMAIN v : Workflow!Restorable(v[i], h, known)}
                restored == [sdk EXCEPT !.host = h, !.active = Only(v, kept)]
            IN  sdk' = (IF kept = {} THEN restored ELSE Workflow!Persist(restored)) /\ offered' = known
        BY <1>3 DEF Workflow!Load, Only
    <2>2. PICK K : K = {i \in DOMAIN v : Workflow!Restorable(v[i], h, known)}
        OBVIOUS
    <2>3. K \in SUBSET DOMAIN v
        BY <2>2
    <2>4. /\ sdk' = IF K = {} THEN [sdk EXCEPT !.host = h, !.active = Only(v, K)]
                     ELSE Workflow!Persist([sdk EXCEPT !.host = h, !.active = Only(v, K)])
          /\ offered' = known
        BY <2>1, <2>2
    <2> QED BY <2>3, <2>4
<1>6. operations' = <<>> /\ destroyed' = FALSE /\ UNCHANGED <<now, flow, counters, storing>>
    BY DEF Workflow!Load
<1>7. PICK a : a = Only(v, K)
    OBVIOUS
<1>8. [sdk EXCEPT !.host = h, !.active = a] = Sdk(h, a, v, E)
    <2>1. PICK q : q = [sdk EXCEPT !.host = h]
        OBVIOUS
    <2>2. q = Sdk(h, sdk.active, v, E)
        BY <1>2, <1>3, <2>1 DEF Sdk
    <2>3. [sdk EXCEPT !.host = h, !.active = a] = [q EXCEPT !.active = a]
        BY <2>1
    <2>4. [q EXCEPT !.active = a] = Sdk(h, a, v, E)
        BY <2>2 DEF Sdk
    <2> QED BY <2>3, <2>4
<1>9. LivesOk(flow, v, E, m, now, f) /\ E \subseteq Emission(flow, m, n, now) /\ History(flow, E, f)
    BY <1>2, <1>3 DEF Held
<1>10. LivesOk(flow, a, E, m, now, f)
    BY <1>2, <1>7, <1>9, LivesSome, FlowSdk
<1>11. Paired(a, v)
    BY <1>7 DEF Paired, Only
<1>12. Held(flow, Sdk(h, a, v, E), m, n, now, f) /\ Held(flow, Sdk(h, a, Snapshot(a), E), m, n, now, f)
    BY <1>4, <1>9, <1>10, <1>11, HeldWritten, HeldUnwritten
<1>13. sdk' = Sdk(h, a, v, E) \/ sdk' = Sdk(h, a, Snapshot(a), E)
    BY <1>5, <1>7, <1>8, FlowPersists
<1>14. Held(flow, sdk', m, n, now, f) /\ sdk'.events = E
    BY <1>12, <1>13 DEF Sdk
<1>15. Unended(sdk'.events, operations', m, n)
    <2>1. DOMAIN operations' = {}
        BY <1>6
    <2> QED BY <2>1 DEF Unended
<1>16. Timely(flow, sdk, sdk', now)
    BY <1>3, <1>14 DEF Timely
<1> QED BY <1>1, <1>5, <1>6, <1>14, <1>15, <1>16 DEF RuntimeInvariant, Moved

\* The end of the tracker.
LEMMA FlowDestroyMoves == ASSUME RuntimeInvariant, Workflow!Destroy PROVE Moved
<1>1. PICK m, n, f, h, v, E : /\ m = counters.instances /\ n = counters.operations /\ f = counters.faults
                              /\ h = sdk.host /\ v = sdk.saved /\ E = sdk.events
    OBVIOUS
<1>2. /\ flow \in Flowing /\ now \in Nat /\ m \in Nat /\ n \in Nat /\ Held(flow, sdk, m, n, now, f)
      /\ sdk = Sdk(h, sdk.active, v, E) /\ h \in Host(now)
    BY <1>1, FlowFacts
<1>3. /\ sdk' = sdk \/ sdk' = Workflow!Persist([sdk EXCEPT !.active = <<>>])
      /\ destroyed' = TRUE /\ UNCHANGED <<now, flow, operations, counters, storing, offered>>
    BY DEF Workflow!Destroy
<1>4. [sdk EXCEPT !.active = <<>>] = Sdk(h, <<>>, v, E)
    BY <1>2 DEF Sdk
<1>5. LivesOk(flow, v, E, m, now, f) /\ E \subseteq Emission(flow, m, n, now) /\ History(flow, E, f)
    BY <1>1, <1>2 DEF Held
<1>6. LivesOk(flow, <<>>, E, m, now, f)
    BY <1>2, NoLives, FlowSdk
<1>7. Paired(<<>>, v)
    <2>1. DOMAIN <<>> = {}
        OBVIOUS
    <2> QED BY <2>1 DEF Paired
<1>8. Held(flow, Sdk(h, <<>>, v, E), m, n, now, f) /\ Held(flow, Sdk(h, <<>>, Snapshot(<<>>), E), m, n, now, f)
    BY <1>2, <1>5, <1>6, <1>7, HeldWritten, HeldUnwritten
<1>9. sdk' = sdk \/ sdk' = Sdk(h, <<>>, v, E) \/ sdk' = Sdk(h, <<>>, Snapshot(<<>>), E)
    BY <1>3, <1>4, FlowPersists
<1>10. Held(flow, sdk', m, n, now, f) /\ sdk'.events = sdk.events
    BY <1>1, <1>2, <1>8, <1>9 DEF Sdk
<1>11. offered \in {"startable", "retired", "absent"}
    BY DEF RuntimeInvariant
<1> QED BY <1>1, <1>3, <1>10, <1>11, SameEventsMove

\* Any other event renews the session.
LEMMA FlowActivityMoves == ASSUME RuntimeInvariant, Workflow!Activity PROVE Moved
<1>1. PICK m, n, f, h : /\ m = counters.instances /\ n = counters.operations /\ f = counters.faults
                        /\ h = Workflow!RefreshSession(sdk.host)
    OBVIOUS
<1>2. /\ flow \in Flowing /\ now \in Nat /\ m \in Nat /\ n \in Nat /\ Held(flow, sdk, m, n, now, f)
      /\ sdk = Sdk(sdk.host, sdk.active, sdk.saved, sdk.events) /\ sdk.host \in Host(now)
    BY <1>1, FlowFacts
<1>3. sdk' = [sdk EXCEPT !.host = h] /\ UNCHANGED <<now, flow, operations, counters, storing, offered, destroyed>>
    BY <1>1 DEF Workflow!Activity
<1>4. sdk' = Sdk(h, sdk.active, sdk.saved, sdk.events)
    BY <1>2, <1>3 DEF Sdk
<1>5. h \in Host(now)
    BY <1>1, <1>2, FlowRefresh
<1>6. Held(flow, sdk', m, n, now, f) /\ sdk'.events = sdk.events
    BY <1>2, <1>4, <1>5 DEF Held, Sdk
<1>7. offered \in {"startable", "retired", "absent"} /\ destroyed \in BOOLEAN
    BY DEF RuntimeInvariant
<1> QED BY <1>1, <1>3, <1>6, <1>7, SameEventsMove

\* The storage fails or comes back.
LEMMA FlowStorageMoves == ASSUME RuntimeInvariant, Workflow!StorageChanges PROVE Moved
<1>1. PICK m, n, f, g : /\ m = counters.instances /\ n = counters.operations /\ f = counters.faults
                        /\ g = IF storing THEN f + 1 ELSE f
    OBVIOUS
<1>2. /\ flow \in Flowing /\ now \in Nat /\ m \in Nat /\ n \in Nat /\ f \in Nat /\ (f = 0 => storing) /\ Held(flow, sdk, m, n, now, f)
    BY <1>1, FlowFacts
<1>3. storing' = ~storing /\ UNCHANGED <<now, flow, sdk, operations, offered, destroyed>>
    BY DEF Workflow!StorageChanges
<1>4. counters' = [instances |-> m, operations |-> n, faults |-> g]
    BY <1>1 DEF Workflow!StorageChanges, RuntimeInvariant
<1>5. g \in Nat /\ g # 0
    BY <1>1, <1>2
<1>6. Held(flow, sdk, m, n, now, g)
    BY <1>2, <1>5, HeldLater
<1>7. Timely(flow, sdk, sdk', now)
    BY <1>3 DEF Timely
<1>8. storing' \in BOOLEAN
    BY <1>3
<1> QED BY <1>1, <1>2, <1>3, <1>4, <1>5, <1>6, <1>7, <1>8 DEF RuntimeInvariant, Moved

\* Time passes.
LEMMA FlowTickMoves == ASSUME RuntimeInvariant, Workflow!Tick PROVE Moved
<1>1. PICK m, n, f, t : /\ m = counters.instances /\ n = counters.operations /\ f = counters.faults
                        /\ t = now + 1
    OBVIOUS
<1>2. /\ flow \in Flowing /\ now \in Nat /\ m \in Nat /\ n \in Nat /\ f \in Nat /\ Held(flow, sdk, m, n, now, f)
    BY <1>1, FlowFacts
<1>3. now < flow.time /\ now' = t /\ UNCHANGED <<flow, sdk, operations, counters, storing, offered, destroyed>>
    BY <1>1 DEF Workflow!Tick
<1>4. t \in Nat /\ t <= flow.time
    BY <1>1, <1>2, <1>3, FlowSdk
<1>5. Held(flow, sdk, m, n, t, f)
    BY <1>1, <1>2, <1>4, HeldLater
<1>6. Timely(flow, sdk, sdk', now)
    BY <1>3 DEF Timely
<1> QED BY <1>1, <1>3, <1>4, <1>5, <1>6 DEF RuntimeInvariant, Moved

\* Every step keeps the invariant, and every new end is in time.
LEMMA FlowRuntimeMoves == RuntimeInvariant /\ Workflow!Next => Moved
<1> SUFFICES ASSUME RuntimeInvariant, Workflow!Next PROVE Moved
    OBVIOUS
<1>1. CASE Workflow!StartWorkflow
    BY <1>1, FlowStartMoves
<1>2. CASE Workflow!Activity
    BY <1>2, FlowActivityMoves
<1>3. CASE Workflow!Load
    BY <1>3, FlowLoadMoves
<1>4. CASE Workflow!Destroy
    BY <1>4, FlowDestroyMoves
<1>5. CASE Workflow!StorageChanges
    BY <1>5, FlowStorageMoves
<1>6. CASE Workflow!Tick
    BY <1>6, FlowTickMoves
<1>7. ASSUME NEW i \in DOMAIN sdk.active, Workflow!Finish(i) PROVE Moved
    BY <1>7, FlowFinishMoves
<1>8. ASSUME NEW i \in DOMAIN sdk.active, Workflow!StartOperation(i) PROVE Moved
    BY <1>8, FlowOpenMoves
<1>9. ASSUME NEW i \in DOMAIN sdk.active, Workflow!Timer(i) PROVE Moved
    BY <1>9, FlowReleaseMoves DEF Workflow!Timer
<1>10. ASSUME NEW i \in DOMAIN sdk.active, NEW step \in DOMAIN flow.triggers, Workflow!Reach(i, step) PROVE Moved
    BY <1>10, FlowReachMoves
<1>11. ASSUME NEW o \in DOMAIN operations, Workflow!EndOperation(o) PROVE Moved
    BY <1>11, FlowEndMoves
<1> QED BY <1>1, <1>2, <1>3, <1>4, <1>5, <1>6, <1>7, <1>8, <1>9, <1>10, <1>11 DEF Workflow!Next

-----------------------------------------------------------------------------
\* What the server concludes from the events.

\* The time of the first of some events.
LEMMA FlowFirst ==
    ASSUME NEW S, S # {}, \A e \in S : e.at \in Nat
    PROVE  (\E e \in S : e.at = Workflow!FirstTime(S)) /\ \A f \in S : Workflow!FirstTime(S) <= f.at
<1>1. PICK T : T = {e.at : e \in S}
    OBVIOUS
<1>2. T \in SUBSET Nat /\ T # {}
    BY <1>1
<1>3. PICK t \in T : \A u \in T : t <= u
    BY <1>2, LeastOf
<1>4. \A e \in S : t <= e.at
    BY <1>1, <1>3
<1>5. Workflow!FirstTime(S) = CHOOSE u \in T : \A e \in S : u <= e.at
    BY <1>1 DEF Workflow!FirstTime
<1>6. Workflow!FirstTime(S) \in T /\ \A e \in S : Workflow!FirstTime(S) <= e.at
    BY <1>4, <1>5
<1> QED BY <1>1, <1>6

\* An end that may be the first.
LEMMA FlowEnds ==
    ASSUME NEW es, NEW first \in Workflow!FirstEnds(es), Workflow!Terminals(es) # {}
    PROVE  first \in Workflow!Terminals(es) /\ first \in es
           /\ first.name \in {"workflow_completed", "workflow_failed", "workflow_canceled"}
    BY DEF Workflow!FirstEnds, Workflow!Earliest, Workflow!Terminals, Workflow!Named

\* The reasons that none of the conditions gives.
LEMMA FlowNoReasons ==
    ASSUME NEW es, NEW first, NEW scope, NEW d, NEW start, start = Workflow!FirstTime(Workflow!Starts(es)),
           NEW steps, steps = Workflow!StepTimes(es, d, start), NEW ends, ends = Workflow!Terminals(es),
           ~\E e \in es : e.operation # None /\ Workflow!Cardinality(Workflow!Contexts(scope, e.operation)) > 1,
           \E p \in d.periods : start >= p.from /\ (p.to = None \/ start < p.to),
           ~\E e, f \in es : e.session # f.session,
           ~\E s \in Workflow!Starts(es) : s.at # start,
           ~\E e \in es : e.name \notin Workflow!OperationEnds \cup {"feature_started"} /\ e.at < start,
           ~\E e \in Workflow!StepEvents(es) : e.step \notin DOMAIN d.steps,
           ~\E e \in Workflow!StepEvents(es) :
               /\ e.step \in DOMAIN d.steps /\ d.steps[e.step] = "operation_terminal"
               /\ ~Workflow!OperationProved(es, d, start, e),
           ~\E e \in ends : e.name # first.name,
           ends # {} /\ first.name = "workflow_completed"
             => d.completed \in DOMAIN steps /\ steps[d.completed] <= first.at
    PROVE  Workflow!Reasons(es, first, scope, d) \subseteq {"STEP_ORDER_CONFLICT", "STEP_SEQUENCE_UNVERIFIED"}
    BY DEF Workflow!Reasons

\* Without reasons but TERMINAL_CONFLICT there is one moment of the start.
LEMMA FlowOneStart ==
    ASSUME NEW es, NEW first, NEW scope, NEW d, Workflow!Reasons(es, first, scope, d) \subseteq {"TERMINAL_CONFLICT"}
    PROVE  \A s \in Workflow!Starts(es) : s.at = Workflow!FirstTime(Workflow!Starts(es))
    BY DEF Workflow!Reasons

\* The events of the instance i.
LEMMA FlowEventsOf ==
    ASSUME NEW m, NEW n, now \in Nat, flow \in Flowing, NEW f, NEW s, Held(flow, s, m, n, now, f), NEW i, NEW es,
           es = Workflow!Of(s.events, i)
    PROVE  /\ \A e \in es : e \in s.events /\ e.instance = i /\ e.at \in Nat
           /\ \A e \in s.events : e.instance = i => e \in es
    BY DEF Held, Emission, Workflow!Of

\* A step that waits for an operation is reached after the end of one.
LEMMA FlowProves ==
    ASSUME NEW m, NEW n, now \in Nat, flow \in Flowing, NEW f, f = 0, NEW s, Held(flow, s, m, n, now, f), NEW i,
           NEW es, es = Workflow!Of(s.events, i),
           NEW start \in es, start.name = "workflow_started",
           NEW e \in es, e.name = "workflow_step_reached", flow.triggers[e.step] = "operation_terminal"
    PROVE  Workflow!OperationProved(es, Workflow!Definition, start.at, e)
<1>1. PICK E : E = s.events
    OBVIOUS
<1>2. /\ \A g \in es : g \in E /\ g.instance = i /\ g.at \in Nat
      /\ \A g \in E : g.instance = i => g \in es
    BY <1>1, FlowEventsOf
<1>3. Firm(flow, E) /\ Smooth(flow, E)
    BY <1>1 DEF Held, History
<1>4. Proven(E, e)
    BY <1>2, <1>3 DEF Firm
<1>5. PICK ops, ends : /\ ops = {o \in es : o.operation # None /\ o.operation = e.operation}
                       /\ ends = Workflow!Named(ops, Workflow!OperationEnds)
    OBVIOUS
<1>6. PICK a \in E : a.name = "feature_started" /\ a.operation = e.operation /\ a.instance = e.instance /\ a.at <= e.at
    BY <1>4 DEF Proven
<1>7. PICK b \in E : b.name = "feature_succeeded" /\ b.operation = e.operation /\ b.instance = e.instance /\ b.at <= e.at
    BY <1>4 DEF Proven
<1>8. e.operation # None /\ a \in ops /\ b \in ops
    BY <1>2, <1>4, <1>5, <1>6, <1>7 DEF Proven
<1>9. flow.firstStep \/ a.at >= start.at
    <2>1. start.instance = a.instance /\ start \in E
        BY <1>2, <1>6
    <2>2. ~flow.firstStep => start.at <= a.at
        BY <1>3, <2>1 DEF Smooth, Follower
    <2>3. start.at \in Nat /\ a.at \in Nat
        BY <1>2, <1>5, <1>8
    <2> QED BY <2>2, <2>3
<1>10. Workflow!OperationEnds = Outcomes
    BY DEF Workflow!OperationEnds, Outcomes
<1>11. ends = {b}
    <2>1. b \in ends
        BY <1>5, <1>7, <1>8, <1>10 DEF Workflow!Named, Outcomes
    <2>2. \A x \in ends : x \in E /\ x.name \in Outcomes /\ x.operation = e.operation
        BY <1>2, <1>5, <1>10 DEF Workflow!Named
    <2>3. \A x \in ends : x = b
        <3>1. b.name \in Outcomes
            BY <1>7 DEF Outcomes
        <3> QED BY <1>3, <1>7, <2>2, <3>1 DEF Firm
    <2> QED BY <2>1, <2>3
<1>12. Workflow!FirstTime(ends) = b.at
    BY <1>2, <1>5, <1>8, <1>11, FlowFirst
<1>13. a \in Workflow!Named(ops, {"feature_started"})
    BY <1>6, <1>8 DEF Workflow!Named
<1>14. Workflow!Definition.firstStep = flow.firstStep
    BY DEF Workflow!Definition
<1> QED BY <1>5, <1>6, <1>7, <1>9, <1>11, <1>12, <1>13, <1>14 DEF Workflow!OperationProved

\* While the storage works the evidence is contradicted only by the host.
LEMMA FlowReasonsHeld ==
    ASSUME NEW m, NEW n, now \in Nat, flow \in Flowing, NEW f, f = 0, NEW s, Held(flow, s, m, n, now, f), NEW i,
           NEW es, es = Workflow!Of(s.events, i),
           Workflow!Starts(es) # {}, ~\E e, g \in es : e.operation # None /\ e.session # g.session,
           NEW first \in Workflow!FirstEnds(es)
    PROVE  Workflow!Reasons(es, first, s.events, Workflow!Definition) \subseteq {"STEP_ORDER_CONFLICT", "STEP_SEQUENCE_UNVERIFIED"}
<1>1. PICK E, d, at : E = s.events /\ d = Workflow!Definition /\ at = Workflow!FirstTime(Workflow!Starts(es))
    OBVIOUS
<1>2. /\ \A g \in es : g \in E /\ g.instance = i /\ g.at \in Nat
      /\ \A g \in E : g.instance = i => g \in es
    BY <1>1, FlowEventsOf
<1>3. Firm(flow, E) /\ Smooth(flow, E)
    BY <1>1 DEF Held, History
<1>4. /\ d.steps = flow.triggers /\ d.completed = flow.completed /\ d.firstStep = flow.firstStep
      /\ d.periods = {[from |-> 0, to |-> None]}
    BY <1>1 DEF Workflow!Definition
<1>5. /\ Workflow!Starts(es) = {e \in es : e.name = "workflow_started"}
      /\ Workflow!Terminals(es) = {e \in es : e.name \in Closings}
      /\ Workflow!StepEvents(es) = {e \in es : e.name = "workflow_step_reached"}
      /\ Workflow!OperationEnds \cup {"feature_started"} = Parts
    BY DEF Workflow!Starts, Workflow!Terminals, Workflow!StepEvents, Workflow!Named, Workflow!OperationEnds, Closings, Parts, Outcomes
<1>6. PICK start \in es : start.name = "workflow_started" /\ start.at \in Nat /\ start.at = at
    BY <1>1, <1>2, <1>5, FlowFirst
<1>7. "workflow_started" \notin Outcomes
    BY DEF Outcomes
<1>8. ~\E e \in es : e.operation # None /\ Workflow!Cardinality(Workflow!Contexts(E, e.operation)) > 1
    <2> SUFFICES ASSUME NEW e \in es,
                        e.operation # None PROVE ~(Workflow!Cardinality(Workflow!Contexts(E, e.operation)) > 1)
        OBVIOUS
    <2>1. \A g \in E : g.operation = e.operation => g.instance = i /\ g.session = e.session
        <3> SUFFICES ASSUME NEW g \in E, g.operation = e.operation PROVE g.instance = i /\ g.session = e.session
            OBVIOUS
        <3>1. g.instance = i
            BY <1>2, <1>3 DEF Firm
        <3> QED BY <1>2, <3>1
    <2>2. Workflow!Contexts(E, e.operation) = {<<i, e.session>>}
        BY <1>2, <2>1 DEF Workflow!Contexts
    <2>3. Workflow!Cardinality({<<i, e.session>>}) = Cardinality({<<i, e.session>>})
        BY DEF Workflow!Cardinality, Cardinality
    <2>4. Cardinality({<<i, e.session>>}) = 1
        BY FS_Singleton
    <2> QED BY <2>2, <2>3, <2>4
<1>9. \E p \in d.periods : at >= p.from /\ (p.to = None \/ at < p.to)
    BY <1>4, <1>6
<1>10. ~\E e, g \in es : e.session # g.session
    <2> SUFFICES ASSUME NEW e \in es, e.session # start.session PROVE FALSE
        BY <1>6
    <2>1. e.operation = None
        BY <1>6
    <2>2. e.name \notin Outcomes
        BY <1>2, <1>3, <2>1 DEF Firm
    <2> QED BY <1>2, <1>3, <1>6, <1>7, <2>2 DEF Firm
<1>11. ~\E x \in Workflow!Starts(es) : x.at # at
    BY <1>2, <1>3, <1>5, <1>6 DEF Smooth
<1>12. ~\E e \in es : e.name \notin Workflow!OperationEnds \cup {"feature_started"} /\ e.at < at
    <2> SUFFICES ASSUME NEW e \in es, e.name \notin Parts PROVE ~(e.at < start.at)
        BY <1>5, <1>6
    <2>1. start.at <= e.at
        BY <1>2, <1>3, <1>6 DEF Smooth, Follower
    <2> QED BY <1>2, <1>6, <2>1
<1>13. ~\E e \in Workflow!StepEvents(es) : e.step \notin DOMAIN d.steps
    BY <1>2, <1>3, <1>4, <1>5 DEF Firm
<1>14. \A e \in Workflow!StepEvents(es) : d.steps[e.step] = "operation_terminal" => Workflow!OperationProved(es, d, at, e)
    BY <1>1, <1>4, <1>5, <1>6, FlowProves
<1>15. PICK ends : ends = Workflow!Terminals(es)
    OBVIOUS
<1>16. ~\E e \in ends : e.name # first.name
    <2> SUFFICES ASSUME NEW e \in ends PROVE e.name = first.name
        OBVIOUS
    <2>1. first \in ends
        BY <1>15, FlowEnds
    <2> QED BY <1>2, <1>3, <1>5, <1>15, <2>1 DEF Smooth
<1>17. PICK steps : steps = Workflow!StepTimes(es, d, at)
    OBVIOUS
<1>18. ASSUME ends # {}, first.name = "workflow_completed"
       PROVE  d.completed \in DOMAIN steps /\ steps[d.completed] <= first.at
    <2>1. PICK e : e = first
        OBVIOUS
    <2>2. e \in ends /\ e \in es /\ e.name = "workflow_completed"
        BY <1>15, <1>18, <2>1, FlowEnds
    <2>3. PICK g \in E : g.name = "workflow_step_reached" /\ g.instance = e.instance /\ g.step = flow.completed /\ g.at <= e.at
        BY <1>2, <1>3, <2>2 DEF Smooth
    <2>4. PICK valid : valid = {x \in Workflow!StepEvents(es) :
                                  /\ x.step \in DOMAIN d.steps
                                  /\ d.steps[x.step] = "operation_terminal" => Workflow!OperationProved(es, d, at, x)}
        OBVIOUS
    <2>5. g \in valid
        BY <1>2, <1>5, <1>13, <1>14, <2>2, <2>3, <2>4
    <2>6. steps = [k \in {x.step : x \in valid} |-> Workflow!FirstTime({x \in valid : x.step = k})]
        BY <1>17, <2>4 DEF Workflow!StepTimes
    <2>7. PICK V : V = {x \in valid : x.step = d.completed}
        OBVIOUS
    <2>8. g \in V /\ \A x \in V : x.at \in Nat
        BY <1>2, <1>4, <1>5, <2>3, <2>4, <2>5, <2>7
    <2>9. Workflow!FirstTime(V) <= g.at /\ \E x \in V : x.at = Workflow!FirstTime(V)
        BY <2>8, FlowFirst
    <2>10. d.completed \in DOMAIN steps /\ steps[d.completed] = Workflow!FirstTime(V)
        BY <1>4, <2>3, <2>5, <2>6, <2>7
    <2>11. g.at \in Nat /\ e.at \in Nat /\ Workflow!FirstTime(V) \in Nat
        BY <1>2, <2>2, <2>8, <2>9
    <2> QED BY <2>1, <2>3, <2>9, <2>10, <2>11
<1> QED BY <1>1, <1>8, <1>9, <1>10, <1>11, <1>12, <1>13, <1>14, <1>15, <1>16, <1>17, <1>18, FlowNoReasons

\* The evidence of an instance is contradictory only when the host's is.
LEMMA FlowHostReasons == RuntimeInvariant => Workflow!OnlyHostReasons
<1> SUFFICES ASSUME RuntimeInvariant, counters.faults = 0, NEW i \in Workflow!Started, ~Workflow!Straggler(i),
                    NEW fact \in Workflow!FactsOf(Workflow!Of(sdk.events, i))
             PROVE  fact.reasons \subseteq {"STEP_ORDER_CONFLICT", "STEP_SEQUENCE_UNVERIFIED"}
    BY DEF Workflow!OnlyHostReasons
<1>1. PICK E, es, m, n : /\ E = sdk.events /\ es = Workflow!Of(E, i) /\ m = counters.instances /\ n = counters.operations
    OBVIOUS
<1>2. flow \in Flowing /\ now \in Nat /\ Held(flow, sdk, m, n, now, 0)
    BY <1>1, FlowFacts
<1>3. Workflow!Starts(es) # {}
    BY <1>1 DEF Workflow!Started, Workflow!Starts, Workflow!Named, Workflow!Of
<1>4. ~\E e, g \in es : e.operation # None /\ e.session # g.session
    BY <1>1 DEF Workflow!Straggler
<1>5. PICK first \in Workflow!FirstEnds(es) : fact = Workflow!Fact(es, first, E, Workflow!Definition, now)
    BY <1>1 DEF Workflow!FactsOf
<1>6. Workflow!Reasons(es, first, E, Workflow!Definition) \subseteq {"STEP_ORDER_CONFLICT", "STEP_SEQUENCE_UNVERIFIED"}
    BY <1>1, <1>2, <1>3, <1>4, FlowReasonsHeld
<1>7. fact.reasons = Workflow!Reasons(es, first, E, Workflow!Definition)
    BY <1>3, <1>5 DEF Workflow!Fact
<1> QED BY <1>6, <1>7

\* No completion counts that took the timeout or longer.
LEMMA FlowInTime == RuntimeInvariant => Workflow!CompletedInTime
<1> SUFFICES ASSUME RuntimeInvariant, counters.faults = 0, NEW i \in Workflow!Started,
                    NEW S \in SUBSET Workflow!Of(sdk.events, i),
                    NEW fact \in Workflow!FactsOf(S), fact # None, fact.state = "workflow_completed"
             PROVE  fact.terminalAt < fact.startedAt + flow.timeout
    BY DEF Workflow!CompletedInTime
<1>1. PICK E, m, n : E = sdk.events /\ m = counters.instances /\ n = counters.operations
    OBVIOUS
<1>2. flow \in Flowing /\ now \in Nat /\ Held(flow, sdk, m, n, now, 0)
    BY <1>1, FlowFacts
<1>3. \A e \in S : e \in E /\ e.instance = i /\ e.at \in Nat
    BY <1>1, <1>2, FlowEventsOf
<1>4. PICK first \in Workflow!FirstEnds(S) : fact = Workflow!Fact(S, first, E, Workflow!Definition, now)
    BY <1>1 DEF Workflow!FactsOf
<1>5. Workflow!Starts(S) # {}
    BY <1>4 DEF Workflow!Fact
<1>6. PICK at, ends, reasons : /\ at = Workflow!FirstTime(Workflow!Starts(S)) /\ ends = Workflow!Terminals(S)
                               /\ reasons = Workflow!Reasons(S, first, E, Workflow!Definition)
    OBVIOUS
<1>7. /\ fact.state = Workflow!StateOf(reasons, S, first, Workflow!Definition, now)
      /\ fact.startedAt = at
      /\ fact.terminalAt = IF ends # {} THEN first.at ELSE None
    BY <1>4, <1>5, <1>6 DEF Workflow!Fact
<1>8. ends # {} /\ first.name = "workflow_completed"
    BY <1>6, <1>7 DEF Workflow!StateOf
<1>9. PICK start \in S : start.name = "workflow_started" /\ start.at = at
    BY <1>3, <1>5, <1>6, FlowFirst DEF Workflow!Starts, Workflow!Named
<1>10. first \in S
    BY <1>6, <1>8, FlowEnds
<1>11. Smooth(flow, E)
    BY <1>1, <1>2 DEF Held, History
<1>12. first.at < start.at + flow.timeout
    BY <1>3, <1>8, <1>9, <1>10, <1>11 DEF Smooth
<1> QED BY <1>7, <1>8, <1>9, <1>12

\* What counts as abandoned is not revived.
LEMMA FlowAbandons == RuntimeInvariant /\ Timely(flow, sdk, sdk', now) => Workflow!KeepsAbandoned
<1> SUFFICES ASSUME RuntimeInvariant, Timely(flow, sdk, sdk', now), NEW i \in Workflow!Started,
                    NEW fact \in Workflow!FactsOf(Workflow!Of(sdk.events, i)), fact.state = "approximate_abandoned"
             PROVE  Workflow!Terminals(Workflow!Of(sdk'.events, i)) = Workflow!Terminals(Workflow!Of(sdk.events, i))
    BY DEF Workflow!KeepsAbandoned
<1>1. PICK E, D, es, m, n, f : /\ E = sdk.events /\ D = sdk'.events /\ es = Workflow!Of(E, i)
                               /\ m = counters.instances /\ n = counters.operations /\ f = counters.faults
    OBVIOUS
<1>2. flow \in Flowing /\ now \in Nat /\ Held(flow, sdk, m, n, now, f)
    BY <1>1, FlowFacts
<1>3. \A e \in es : e \in E /\ e.instance = i /\ e.at \in Nat
    BY <1>1, <1>2, FlowEventsOf
<1>4. PICK first \in Workflow!FirstEnds(es) : fact = Workflow!Fact(es, first, E, Workflow!Definition, now)
    BY <1>1 DEF Workflow!FactsOf
<1>12. PICK at, ends, reasons : /\ at = Workflow!FirstTime(Workflow!Starts(es)) /\ ends = Workflow!Terminals(es)
                                /\ reasons = Workflow!Reasons(es, first, E, Workflow!Definition)
    OBVIOUS
<1>5. Workflow!Starts(es) # {}
    BY <1>1 DEF Workflow!Started, Workflow!Starts, Workflow!Named, Workflow!Of
<1>6. fact.state = Workflow!StateOf(reasons, es, first, Workflow!Definition, now)
    BY <1>4, <1>5, <1>12 DEF Workflow!Fact
<1>7. reasons \subseteq {"TERMINAL_CONFLICT"} /\ now >= at + flow.timeout
    <2>1. ends # {} => first.name \in Closings
        BY <1>4, <1>12, FlowEnds DEF Closings
    <2>2. "approximate_abandoned" \notin Closings
        BY DEF Closings
    <2>3. Workflow!Definition.timeout = flow.timeout
        BY DEF Workflow!Definition
    <2> QED BY <1>6, <1>12, <2>1, <2>2, <2>3 DEF Workflow!StateOf
<1>8. PICK start \in es : /\ start.name = "workflow_started" /\ start.at = at
                         /\ \A x \in es : x.name = "workflow_started" => x.at = start.at
    <2>1. Workflow!Starts(es) = {x \in es : x.name = "workflow_started"}
        BY DEF Workflow!Starts, Workflow!Named
    <2>2. \A x \in Workflow!Starts(es) : x.at = at
        BY <1>4, <1>7, <1>12, FlowOneStart
    <2> QED BY <1>3, <1>5, <1>12, <2>1, <2>2, FlowFirst
<1>9. ASSUME NEW e \in D, e.name \in Closings, e.instance = i PROVE e \in E
    <2> SUFFICES ASSUME e \notin E PROVE FALSE
        OBVIOUS
    <2>1. i \in DOMAIN sdk.active /\ now < sdk.active[i].startedAt + flow.timeout
        BY <1>1, <1>9 DEF Timely
    <2>2. PICK w : w = sdk.active[i]
        OBVIOUS
    <2>3. w \in Life(flow, now) /\ Bound(flow, w, i, E)
        BY <1>1, <1>2, <2>1, <2>2 DEF Held, LivesOk, Suits
    <2>4. w.startedAt <= start.at
        <3>1. CASE w.state = "pending"
            BY <1>3, <1>8, <2>3, <3>1 DEF Bound
        <3>2. CASE w.state = "started"
            <4>1. PICK x \in E : x.instance = i /\ x.name = "workflow_started" /\ x.at = w.startedAt
                BY <2>3, <3>2 DEF Bound
            <4>2. x \in es
                BY <1>1, <4>1 DEF Workflow!Of
            <4> QED BY <1>3, <1>8, <4>1, <4>2
        <3> QED BY <2>3, <3>1, <3>2 DEF Life
    <2>5. w.startedAt \in Nat /\ start.at \in Nat /\ flow.timeout \in Nat
        BY <1>2, <1>3, <1>8, <2>3, FlowSdk DEF Life
    <2> QED BY <1>2, <1>7, <1>8, <2>1, <2>2, <2>4, <2>5
<1>10. E \subseteq D
    BY <1>1 DEF Timely
<1>11. /\ Workflow!Terminals(Workflow!Of(D, i)) = {e \in D : e.instance = i /\ e.name \in Closings}
       /\ Workflow!Terminals(Workflow!Of(E, i)) = {e \in E : e.instance = i /\ e.name \in Closings}
    BY DEF Workflow!Terminals, Workflow!Named, Workflow!Of, Closings
<1> QED BY <1>1, <1>9, <1>10, <1>11

\* The types of the runtime.
LEMMA FlowTypes == RuntimeInvariant => Workflow!TypeOK
<1> SUFFICES ASSUME RuntimeInvariant PROVE Workflow!TypeOK
    OBVIOUS
<1>1. PICK m, n, f : m = counters.instances /\ n = counters.operations /\ f = counters.faults
    OBVIOUS
<1>2. /\ flow \in Flowing /\ now \in Nat /\ m \in Nat /\ n \in Nat /\ Held(flow, sdk, m, n, now, f)
      /\ Unended(sdk.events, operations, m, n) /\ now <= flow.time
    BY <1>1, FlowFacts DEF RuntimeInvariant
<1>3. sdk.host \in [session : Nat, activity : 0 .. now]
    BY <1>2 DEF Held, Host
<1>4. /\ DOMAIN sdk.active \cup DOMAIN sdk.saved \subseteq 1 .. m
      /\ Cardinality(DOMAIN sdk.active) <= flow.active
      /\ \A i \in DOMAIN sdk.active : sdk.active[i].state \in {"pending", "started"}
    BY <1>2 DEF Held, LivesOk, Life
<1>5. \A o \in DOMAIN operations : o \in 1 .. n
    BY <1>2 DEF Unended
<1>6. now \in 0 .. flow.time
    BY <1>2, FlowSdk
<1>7. Workflow!Cardinality(DOMAIN sdk.active) = Cardinality(DOMAIN sdk.active)
    BY DEF Workflow!Cardinality, Cardinality
<1>8. storing \in BOOLEAN /\ destroyed \in BOOLEAN /\ offered \in {"startable", "retired", "absent"}
    BY DEF RuntimeInvariant
<1> QED BY <1>1, <1>2, <1>3, <1>4, <1>5, <1>6, <1>7, <1>8 DEF Workflow!TypeOK

-----------------------------------------------------------------------------
\* The parts.

\* The types of the rows.
LEMMA ArrivalTypes == ArrivalInvariant => Arrival!TypeOK
BY WorkflowAssumption DEF ArrivalInvariant, Arrival!TypeOK

\* What the part that moves relies on.
WorkflowInvariant ==
    /\ part = "workflow" => RuntimeInvariant
    /\ part = "arrival" => ArrivalInvariant

\* What no step of it does.
KeepsPast ==
    /\ part = "workflow" => Workflow!KeepsAbandoned
    /\ part = "arrival" => Arrival!KeepsReports

\* The parts begin as they say.
LEMMA WorkflowBegins == BrowserInit => WorkflowInvariant
<1> SUFFICES ASSUME BrowserInit PROVE WorkflowInvariant
    OBVIOUS
<1>1. /\ part = "workflow" => Workflow!Init
      /\ part = "arrival" => Arrival!Init
    BY DEF BrowserInit
<1> QED BY <1>1, FlowRuntimeBegins, ArrivalBegins DEF WorkflowInvariant

\* One part moves.
LEMMA WorkflowMoves == WorkflowInvariant /\ BrowserNext => WorkflowInvariant' /\ KeepsPast
<1> SUFFICES ASSUME WorkflowInvariant, BrowserNext PROVE WorkflowInvariant' /\ KeepsPast
    OBVIOUS
<1>1. /\ UNCHANGED part
      /\ part = "workflow" => Workflow!Next
      /\ part = "arrival" => Arrival!Next
    BY DEF BrowserNext, Elsewhere
<1>2. part = "workflow" => RuntimeInvariant' /\ Workflow!KeepsAbandoned
    <2>1. part = "workflow" => Moved
        BY <1>1, FlowRuntimeMoves DEF WorkflowInvariant
    <2> QED BY <2>1, FlowAbandons DEF Moved, WorkflowInvariant
<1>3. part = "arrival" => ArrivalInvariant' /\ Arrival!KeepsReports
    BY <1>1, ArrivalMoves DEF WorkflowInvariant
<1> QED BY <1>1, <1>2, <1>3 DEF WorkflowInvariant, KeepsPast

\* Or nothing moves.
LEMMA WorkflowStands == WorkflowInvariant /\ UNCHANGED browserVars => WorkflowInvariant'
<1> SUFFICES ASSUME WorkflowInvariant, UNCHANGED browserVars PROVE WorkflowInvariant'
    OBVIOUS
<1>1. UNCHANGED part /\ UNCHANGED <<now, workflowVars>> /\ UNCHANGED <<now, rows>>
    BY DEF browserVars, vars
<1>2. RuntimeInvariant => RuntimeInvariant'
    BY <1>1 DEF workflowVars, RuntimeInvariant
<1>3. ArrivalInvariant => ArrivalInvariant'
    BY <1>1 DEF ArrivalInvariant
<1> QED BY <1>1, <1>2, <1>3 DEF WorkflowInvariant

\* What the parts rely on holds throughout.
LEMMA WorkflowInvariantHolds == BrowserSpec => []WorkflowInvariant
<1>1. WorkflowInvariant /\ [BrowserNext]_browserVars => WorkflowInvariant'
    BY WorkflowMoves, WorkflowStands
<1> QED BY <1>1, WorkflowBegins, PTL DEF BrowserSpec

\* The SDK's own evidence about a workflow is contradictory only where the host's calls were, the
\* server counts no completion that took the timeout or longer, and what it concludes is a function
\* of the set of the stored rows: the query's order decides between ends at one time, whatever the
\* order in which the rows came (WorkflowRuntime, readEvents, reduceWorkflowInstances).
THEOREM EvidenceStaysSound == BrowserSpec => []WorkflowEvidence
<1>1. WorkflowInvariant => WorkflowEvidence
    BY FlowHostReasons, FlowInTime, ArrivalOrder DEF WorkflowInvariant, WorkflowEvidence
<1> QED BY <1>1, WorkflowInvariantHolds, PTL

\* No late call revives an instance that counts as abandoned, and no late row changes what was
\* reported of an earlier moment (safe, readEvents, reduceWorkflowInstances).
THEOREM PastIsKept == BrowserSpec => PastStands
<1>1. WorkflowInvariant /\ [BrowserNext]_browserVars
        => [/\ part = "workflow" => Workflow!KeepsAbandoned
            /\ part = "arrival" => Arrival!KeepsReports]_browserVars
    BY WorkflowMoves DEF KeepsPast
<1> QED BY <1>1, WorkflowInvariantHolds, PTL DEF BrowserSpec, PastStands

\* The variables of the workflow and of the rows keep their types.
THEOREM WorkflowTypes ==
    BrowserSpec => [](/\ part = "workflow" => Workflow!TypeOK
                      /\ part = "arrival" => Arrival!TypeOK)
<1>1. WorkflowInvariant => /\ part = "workflow" => Workflow!TypeOK
                           /\ part = "arrival" => Arrival!TypeOK
    BY FlowTypes, ArrivalTypes DEF WorkflowInvariant
<1> QED BY <1>1, WorkflowInvariantHolds, PTL
=============================================================================
