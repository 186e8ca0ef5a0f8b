----------------------- MODULE ScientificRecordsProofs -----------------------
(***************************************************************************)
(* The formal records stand on each other, whatever the agents write, the  *)
(* validators find and the corrections change.  What an accepted run needs *)
(* was there when it started, and nothing is taken away while it works.    *)
(* Last come the search for cycles and the theories that it lets through.  *)
(***************************************************************************)
EXTENDS ScientificRecords, FiniteSetTheorems, SequenceTheorems, WellFoundedInduction, TLAPS

\* A run at work has the inputs that its contract requires.
InputsAreThere ==
    pc \in {"working", "rejected"} =>
        /\ mode \in Mode
        /\ \A input \in Always(mode) : Found(input, method)

RecordsInv == IsRecords(current) /\ StandsOn(current) /\ InputsAreThere

\* The types of a run, whose outputs are documents that agents may write.
WorkInv ==
    /\ run \in 0 .. MaxRuns
    /\ pc \in {"idle", "working", "rejected", "published"}
    /\ mode \in Mode \cup {None} /\ method \in Identity \cup {None}
    /\ mode # None => DOMAIN written \subseteq Outputs(mode)
    /\ \A o \in DOMAIN written : written[o] \in Writes[o]
    /\ DOMAIN stamp = DOMAIN written \cap Timed
    /\ used \subseteq Lane
    /\ \A o \in DOMAIN stamp : stamp[o] \in 1 .. Cardinality(used) + 1

-----------------------------------------------------------------------------
\* The latest item of a key.

\* A list is a function over its positions.
LEMMA ListIsSeq ==
    ASSUME NEW d, IsList(d)
    PROVE  /\ Len(d) \in Nat /\ DOMAIN d = 1 .. Len(d)
           /\ d = [i \in 1 .. Len(d) |-> d[i]]
BY DEF IsList

\* A set of numbers has a least one.
LEMMA MinNat ==
    ASSUME NEW T \in SUBSET Nat, T # {}
    PROVE  \E m \in T : \A x \in T : m <= x
<1> DEFINE R == OpToRel(<, Nat)
<1>1. \A x, y \in Nat : <<x, y>> \in R <=> x < y
  BY DEF OpToRel
<1>2. IsWellFoundedOn(R, Nat)
  BY NatLessThanWellFounded
<1> HIDE DEF R
<1>3. PICK m \in T : \A x \in T : ~ (<<x, m>> \in R)
  BY <1>2, WFMin
<1>4. ASSUME NEW x \in T PROVE m <= x
  <2>1. ~ (<<x, m>> \in R) /\ x \in Nat /\ m \in Nat
    BY <1>3
  <2> QED
    BY <1>1, <2>1
<1> QED
  BY <1>4

\* A set of positions that is not empty has a last one.
LEMMA LastNat ==
    ASSUME NEW n \in Nat, NEW S \in SUBSET (1 .. n), S # {}
    PROVE  \E m \in S : \A x \in S : x <= m
<1> DEFINE T == {n - x : x \in S}
<1>1. T \in SUBSET Nat /\ T # {}
  <2>1. ASSUME NEW x \in S PROVE n - x \in Nat
    OBVIOUS
  <2> QED
    BY <2>1
<1>2. PICK t \in T : \A y \in T : t <= y
  BY <1>1, MinNat
<1>3. PICK m \in S : t = n - m
  OBVIOUS
<1>4. ASSUME NEW x \in S PROVE x <= m
  <2>1. t <= n - x
    BY <1>2
  <2> QED
    BY <1>3, <2>1
<1> QED
  BY <1>4

\* Position i has the last item of key k.
IsLast(keys, k, i) ==
    i \in DOMAIN keys /\ keys[i] = k /\ \A j \in DOMAIN keys : keys[j] = k => j <= i

\* Latest has the keys of the items.
LEMMA LatestHasTheKeys ==
    ASSUME NEW items, NEW keys
    PROVE  DOMAIN Latest(items, keys) = {keys[i] : i \in DOMAIN items}
BY DEF Latest

\* Each of them has a last position.
LEMMA KeyHasALast ==
    ASSUME NEW items, IsList(items), NEW keys, DOMAIN keys = DOMAIN items,
           NEW k \in DOMAIN Latest(items, keys)
    PROVE  \E i \in DOMAIN items : IsLast(keys, k, i)
<1>1. Len(items) \in Nat /\ DOMAIN items = 1 .. Len(items)
  BY ListIsSeq
<1> DEFINE S == {i \in 1 .. Len(items) : keys[i] = k}
<1>2. S # {} /\ S \in SUBSET (1 .. Len(items))
  <2>1. k \in {keys[i] : i \in DOMAIN items}
    BY LatestHasTheKeys
  <2> QED
    BY <1>1, <2>1
<1>3. PICK m \in S : \A x \in S : x <= m
  BY <1>1, <1>2, LastNat
<1> QED
  BY <1>1, <1>3 DEF IsLast

\* The item there is the latest.
LEMMA LatestIsLast ==
    ASSUME NEW items, IsList(items), NEW keys, DOMAIN keys = DOMAIN items,
           NEW k, NEW i, IsLast(keys, k, i)
    PROVE  Latest(items, keys)[k] = items[i]
<1> DEFINE Fits(j) == keys[j] = k /\ \A l \in DOMAIN items : keys[l] = k => l <= j
<1>1. Len(items) \in Nat /\ DOMAIN items = 1 .. Len(items)
  BY ListIsSeq
<1>2. i \in DOMAIN items /\ Fits(i)
  BY DEF IsLast
<1>3. \A j \in DOMAIN items : Fits(j) => j = i
  BY <1>1, <1>2
<1>4. (CHOOSE j \in DOMAIN items : Fits(j)) = i
  BY <1>2, <1>3
<1>5. k \in {keys[j] : j \in DOMAIN items}
  BY <1>2
<1> QED
  BY <1>4, <1>5 DEF Latest

\* One list after another.
LEMMA ConcatIsList ==
    ASSUME NEW h, NEW g, IsList(h), IsList(g)
    PROVE  /\ DOMAIN (h \o g) = 1 .. Len(h) + Len(g)
           /\ \A i \in 1 .. Len(h) : (h \o g)[i] = h[i]
           /\ \A i \in 1 .. Len(g) : (h \o g)[Len(h) + i] = g[i]
           /\ IsList(h \o g)
<1> DEFINE both == h \o g
<1>1. /\ Len(h) \in Nat /\ DOMAIN h = 1 .. Len(h)
      /\ Len(g) \in Nat /\ DOMAIN g = 1 .. Len(g)
  BY ListIsSeq
<1>2. /\ Len(both) = Len(h) + Len(g) /\ DOMAIN both = 1 .. Len(h) + Len(g)
      /\ \A i \in 1 .. Len(h) : both[i] = h[i]
      /\ \A i \in 1 .. Len(g) : both[Len(h) + i] = g[i]
      /\ IsList(both)
  <2> DEFINE S == {h[i] : i \in DOMAIN h} \cup {g[i] : i \in DOMAIN g}
  <2>1. h \in Seq(S) /\ g \in Seq(S)
    BY DEF IsList
  <2>2. /\ both \in Seq(S) /\ Len(both) = Len(h) + Len(g)
        /\ \A i \in 1 .. Len(h) + Len(g) :
              both[i] = IF i <= Len(h) THEN h[i] ELSE g[i - Len(h)]
    BY <2>1, ConcatProperties
  <2> HIDE DEF both, S
  <2>3. DOMAIN both = 1 .. Len(h) + Len(g)
    BY <2>2
  <2>4. ASSUME NEW i \in 1 .. Len(g) PROVE both[Len(h) + i] = g[i]
    <3>1. Len(h) + i \in 1 .. Len(h) + Len(g) /\ ~(Len(h) + i <= Len(h))
          /\ (Len(h) + i) - Len(h) = i
      BY <1>1
    <3> QED
      BY <2>2, <3>1
  <2>5. \A i \in 1 .. Len(h) : both[i] = h[i]
    BY <1>1, <2>2
  <2>6. IsList(both)
    <3>1. \A i \in 1 .. Len(both) : both[i] \in {both[j] : j \in DOMAIN both}
      BY <2>2, <2>3
    <3>2. both \in Seq({both[j] : j \in DOMAIN both})
      BY <2>2, <3>1
    <3> QED
      BY <3>2 DEF IsList
  <2> QED
    BY <2>2, <2>3, <2>4, <2>5, <2>6
<1> QED
  BY <1>2

\* A list and its keys are those of two lists, one after the other.
Joins(both, bk, h, hk, g, gk) ==
    /\ IsList(h) /\ IsList(g) /\ IsList(both)
    /\ DOMAIN hk = DOMAIN h /\ DOMAIN gk = DOMAIN g /\ DOMAIN bk = DOMAIN both
    /\ DOMAIN both = 1 .. Len(h) + Len(g)
    /\ \A i \in 1 .. Len(h) : both[i] = h[i] /\ bk[i] = hk[i]
    /\ \A i \in 1 .. Len(g) : both[Len(h) + i] = g[i] /\ bk[Len(h) + i] = gk[i]

\* A function, and over it another.
Over(old, new) ==
    [k \in DOMAIN old \cup DOMAIN new |-> IF k \in DOMAIN new THEN new[k] ELSE old[k]]

\* Of two lists together the items of the later one are looked up first.
LEMMA LatestOfConcat ==
    ASSUME NEW both, NEW bk, NEW h, NEW hk, NEW g, NEW gk, Joins(both, bk, h, hk, g, gk)
    PROVE  Latest(both, bk) = Over(Latest(h, hk), Latest(g, gk))
<1> USE DEF Joins
<1> DEFINE old == Latest(h, hk)
           new == Latest(g, gk)
           all == Latest(both, bk)
<1>1. /\ Len(h) \in Nat /\ DOMAIN h = 1 .. Len(h)
      /\ Len(g) \in Nat /\ DOMAIN g = 1 .. Len(g)
  BY ListIsSeq
<1>2. \A j \in DOMAIN both : j \in 1 .. Len(h) \/ \E i \in 1 .. Len(g) : j = Len(h) + i
  <2>1. ASSUME NEW j \in DOMAIN both, j \notin 1 .. Len(h)
        PROVE  \E i \in 1 .. Len(g) : j = Len(h) + i
    <3>1. j - Len(h) \in 1 .. Len(g) /\ j = Len(h) + (j - Len(h))
      BY <1>1, <2>1
    <3> QED
      BY <3>1
  <2> QED
    BY <2>1
<1>3. /\ DOMAIN old = {hk[i] : i \in DOMAIN h}
      /\ \A k \in DOMAIN old : \E i \in DOMAIN h : IsLast(hk, k, i)
      /\ \A k, i : IsLast(hk, k, i) => old[k] = h[i]
  <2>1. DOMAIN old = {hk[i] : i \in DOMAIN h}
    BY LatestHasTheKeys
  <2>2. \A k \in DOMAIN old : \E i \in DOMAIN h : IsLast(hk, k, i)
    BY KeyHasALast
  <2>3. \A k, i : IsLast(hk, k, i) => old[k] = h[i]
    BY LatestIsLast
  <2> QED
    BY <2>1, <2>2, <2>3
<1>4. /\ DOMAIN new = {gk[i] : i \in DOMAIN g}
      /\ \A k \in DOMAIN new : \E i \in DOMAIN g : IsLast(gk, k, i)
      /\ \A k, i : IsLast(gk, k, i) => new[k] = g[i]
  <2>1. DOMAIN new = {gk[i] : i \in DOMAIN g}
    BY LatestHasTheKeys
  <2>2. \A k \in DOMAIN new : \E i \in DOMAIN g : IsLast(gk, k, i)
    BY KeyHasALast
  <2>3. \A k, i : IsLast(gk, k, i) => new[k] = g[i]
    BY LatestIsLast
  <2> QED
    BY <2>1, <2>2, <2>3
<1>5. /\ DOMAIN all = {bk[i] : i \in DOMAIN both}
      /\ \A k, i : IsLast(bk, k, i) => all[k] = both[i]
  <2>1. DOMAIN all = {bk[i] : i \in DOMAIN both}
    BY LatestHasTheKeys
  <2>3. \A k, i : IsLast(bk, k, i) => all[k] = both[i]
    BY LatestIsLast
  <2> QED
    BY <2>1, <2>3
<1>6. all = [k \in DOMAIN all |-> all[k]]
  BY DEF Latest
<1> HIDE DEF old, new, all
<1>7. ASSUME NEW k \in DOMAIN new
      PROVE  k \in DOMAIN all /\ all[k] = new[k]
  <2>1. PICK i \in DOMAIN g : IsLast(gk, k, i)
    BY <1>4
  <2>2. i \in 1 .. Len(g) /\ new[k] = g[i]
    BY <1>1, <1>4, <2>1 DEF IsLast
  <2>3. Len(h) + i \in DOMAIN both /\ bk[Len(h) + i] = k
    BY <1>1, <2>1, <2>2 DEF IsLast
  <2>4. ASSUME NEW j \in DOMAIN both, bk[j] = k PROVE j <= Len(h) + i
    <3>1. CASE j \in 1 .. Len(h)
      BY <1>1, <2>2, <3>1
    <3>2. ASSUME NEW l \in 1 .. Len(g), j = Len(h) + l PROVE j <= Len(h) + i
      <4>1. l <= i
        BY <1>1, <2>1, <2>4, <3>2 DEF IsLast
      <4> QED
        BY <1>1, <2>2, <3>2, <4>1
    <3> QED
      BY <1>2, <3>1, <3>2
  <2>5. IsLast(bk, k, Len(h) + i)
    BY <2>3, <2>4 DEF IsLast
  <2>6. k \in DOMAIN all /\ all[k] = both[Len(h) + i]
    BY <1>5, <2>3, <2>5
  <2> QED
    BY <2>2, <2>6
<1>8. ASSUME NEW k \in DOMAIN old, k \notin DOMAIN new
      PROVE  k \in DOMAIN all /\ all[k] = old[k]
  <2>1. PICK i \in DOMAIN h : IsLast(hk, k, i)
    BY <1>3
  <2>2. i \in 1 .. Len(h) /\ old[k] = h[i]
    BY <1>1, <1>3, <2>1 DEF IsLast
  <2>3. i \in DOMAIN both /\ bk[i] = k
    BY <1>1, <2>1, <2>2 DEF IsLast
  <2>4. ASSUME NEW j \in DOMAIN both, bk[j] = k PROVE j <= i
    <3>1. CASE j \in 1 .. Len(h)
      BY <1>1, <2>1, <2>4, <3>1 DEF IsLast
    <3>2. ASSUME NEW l \in 1 .. Len(g), j = Len(h) + l PROVE FALSE
      <4>1. gk[l] = k /\ l \in DOMAIN g
        BY <1>1, <2>4, <3>2
      <4>2. DOMAIN new = {gk[m] : m \in DOMAIN g}
        BY <1>4
      <4> QED
        BY <1>8, <4>1, <4>2
    <3> QED
      BY <1>2, <3>1, <3>2
  <2>5. IsLast(bk, k, i)
    BY <2>3, <2>4 DEF IsLast
  <2>6. k \in DOMAIN all /\ all[k] = both[i]
    BY <1>5, <2>3, <2>5
  <2> QED
    BY <2>2, <2>6
<1>9. DOMAIN all \subseteq DOMAIN old \cup DOMAIN new
  <2>1. /\ DOMAIN all = {bk[i] : i \in DOMAIN both}
        /\ DOMAIN old = {hk[i] : i \in DOMAIN h}
        /\ DOMAIN new = {gk[i] : i \in DOMAIN g}
    BY <1>3, <1>4, <1>5
  <2>2. ASSUME NEW j \in DOMAIN both PROVE bk[j] \in DOMAIN old \cup DOMAIN new
    <3>1. CASE j \in 1 .. Len(h)
      BY <1>1, <2>1, <3>1
    <3>2. ASSUME NEW l \in 1 .. Len(g), j = Len(h) + l
          PROVE  bk[j] \in DOMAIN new
      BY <1>1, <2>1, <3>2
    <3> QED
      BY <1>2, <3>1, <3>2
  <2> QED
    BY <2>1, <2>2
<1>10. all = [k \in DOMAIN old \cup DOMAIN new |-> IF k \in DOMAIN new THEN new[k] ELSE old[k]]
  BY <1>7, <1>8, <1>9, <1>6
<1> QED
  BY <1>10 DEF all, old, new, Over

\* What was published is listed after it: the later lists are looked up first.
LEMMA LatestOfBoth ==
    ASSUME NEW h, NEW g, IsList(h), IsList(g)
    PROVE  /\ IsList(h \o g)
           /\ Latest(h \o g, LiteratureKeys(h \o g)) =
                Over(Latest(h, LiteratureKeys(h)), Latest(g, LiteratureKeys(g)))
<1> DEFINE both == h \o g
           hk == LiteratureKeys(h)
           gk == LiteratureKeys(g)
           bk == LiteratureKeys(both)
<1>1. /\ Len(h) \in Nat /\ DOMAIN h = 1 .. Len(h)
      /\ Len(g) \in Nat /\ DOMAIN g = 1 .. Len(g)
  BY ListIsSeq
<1>2. /\ DOMAIN both = 1 .. Len(h) + Len(g)
      /\ \A i \in 1 .. Len(h) : both[i] = h[i]
      /\ \A i \in 1 .. Len(g) : both[Len(h) + i] = g[i]
      /\ IsList(both)
  BY ConcatIsList
<1> HIDE DEF both
<1>3. /\ DOMAIN hk = DOMAIN h /\ DOMAIN gk = DOMAIN g /\ DOMAIN bk = DOMAIN both
      /\ \A i \in 1 .. Len(h) : bk[i] = hk[i]
      /\ \A i \in 1 .. Len(g) : bk[Len(h) + i] = gk[i]
  <2>1. \A i \in 1 .. Len(g) : Len(h) + i \in 1 .. Len(h) + Len(g)
    BY <1>1
  <2>2. \A i \in 1 .. Len(h) : i \in 1 .. Len(h) + Len(g)
    BY <1>1
  <2> QED
    BY <1>1, <1>2, <2>1, <2>2 DEF LiteratureKeys
<1> HIDE DEF hk, gk, bk
<1>4. Joins(both, bk, h, hk, g, gk)
  BY <1>2, <1>3 DEF Joins
<1>5. Latest(both, bk) = Over(Latest(h, hk), Latest(g, gk))
  BY <1>4, LatestOfConcat
<1> QED
  BY <1>2, <1>5 DEF both, hk, gk, bk

-----------------------------------------------------------------------------
\* What the required inputs mean for the records.

\* Phases 2 to 5 have a literature library (Always, Found).
LEMMA LibraryIsThere ==
    ASSUME mode \in Mode, mode \notin LiteratureModes,
           \A input \in Always(mode) : Found(input, method)
    PROVE  current.library # {}
<1>1. <<"library", "any">> \in Always(mode)
  BY ModeAssumption DEF Always, LiteratureModes, MethodModes, TheoryModes, EmpiricalModes,
     ManuscriptModes, MethodBound
<1>2. Found(<<"library", "any">>, method)
  BY <1>1
<1> QED
  BY <1>2 DEF Found

\* Phases 3 to 5 have a method catalogue (Always, Found).
LEMMA CatalogIsThere ==
    ASSUME mode \in Mode, mode \notin LiteratureModes \cup MethodModes,
           \A input \in Always(mode) : Found(input, method)
    PROVE  current.catalog # {}
<1>1. <<"catalog", "any">> \in Always(mode)
  BY ModeAssumption DEF Always, LiteratureModes, MethodModes, TheoryModes, EmpiricalModes,
     ManuscriptModes, MethodBound
<1>2. Found(<<"catalog", "any">>, method)
  BY <1>1
<1> QED
  BY <1>2 DEF Found

\* Phases 3 to 5 have one of the current methods (Always, Found).
LEMMA MethodIsThere ==
    ASSUME mode \in Mode, mode \notin LiteratureModes \cup MethodModes, IsRecords(current),
           \A input \in Always(mode) : Found(input, method)
    PROVE  method \in Identity
<1>1. <<"method", "exact">> \in Always(mode)
  BY ModeAssumption DEF Always, LiteratureModes, MethodModes, TheoryModes, EmpiricalModes,
     ManuscriptModes, MethodBound
<1>2. Found(<<"method", "exact">>, method)
  BY <1>1
<1>3. method \in Declares("method")
  BY <1>2 DEF Found
<1>4. Declares("method") \subseteq Identity
  BY DEF Declares, IsRecords
<1> QED
  BY <1>3, <1>4

\* Phase 5 has a theory and evidence of the very version (Always, Found).
LEMMA SupportIsThere ==
    ASSUME mode \in ManuscriptModes, \A input \in Always(mode) : Found(input, method)
    PROVE  method \in current.theory /\ method \in current.empirical
<1>1. <<"theory", "exact">> \in Always(mode) /\ <<"empirical", "exact">> \in Always(mode)
  BY DEF Always, LiteratureModes, MethodModes, TheoryModes, EmpiricalModes, ManuscriptModes
<1>2. Found(<<"theory", "exact">>, method) /\ Found(<<"empirical", "exact">>, method)
  BY <1>1
<1> QED
  BY <1>2 DEF Found, Declares

-----------------------------------------------------------------------------
\* The start of a run.

\* Initially the records are those of earlier runs.
LEMMA InitRecords == Init => RecordsInv
<1> SUFFICES ASSUME Init PROVE RecordsInv
  OBVIOUS
<1>1. PICK e \in Earlier : current = e.current
  BY DEF Init
<1>2. IsRecords(current) /\ StandsOn(current)
  BY <1>1, EarlierAssumption
<1>3. InputsAreThere
  BY DEF Init, InputsAreThere
<1> QED
  BY <1>2, <1>3 DEF RecordsInv

\* What a run finds depends on the records only.
LEMMA FoundIsKept ==
    ASSUME UNCHANGED current, NEW input, NEW x, Found(input, x)
    PROVE  Found(input, x)'
BY DEF Found, Declares

\* A run that starts has found its inputs.
LEMMA StartRecords ==
    ASSUME RecordsInv, NEW m \in Mode, NEW x, Start(m, x)
    PROVE  RecordsInv'
<1>1. current' = current /\ mode' = m /\ method' = x /\ pc' = "working"
  BY DEF Start, formal
<1>2. ASSUME NEW input \in Always(m) PROVE Found(input, x)'
  <2>1. Found(input, x)
    BY DEF Start
  <2> QED
    BY <1>1, <2>1, FoundIsKept
<1>3. InputsAreThere'
  BY <1>1, <1>2 DEF InputsAreThere, Found, Declares
<1> QED
  BY <1>1, <1>3 DEF RecordsInv, IsRecords, StandsOn

\* A step of a run that neither starts nor publishes leaves records and inputs.
LEMMA WorkRecords ==
    ASSUME RecordsInv, UNCHANGED <<current, mode, method>>,
           pc' \in {"working", "rejected"} => pc \in {"working", "rejected"}
    PROVE  RecordsInv'
<1>1. (IsRecords(current) /\ StandsOn(current))'
  BY DEF RecordsInv, IsRecords, StandsOn
<1>2. ASSUME pc' \in {"working", "rejected"}
      PROVE  mode' \in Mode /\ \A input \in Always(mode') : Found(input, method)'
  <2>1. mode \in Mode /\ \A input \in Always(mode) : Found(input, method)
    BY <1>2 DEF RecordsInv, InputsAreThere
  <2> QED
    BY <2>1 DEF Found, Declares
<1> QED
  BY <1>1, <1>2 DEF RecordsInv, InputsAreThere

-----------------------------------------------------------------------------
\* A publication, phase by phase.

\* The fields of the records.
LEMMA Shape ==
    ASSUME IsRecords(current)
    PROVE  current = [library |-> current.library, catalog |-> current.catalog,
                      methods |-> current.methods, theory |-> current.theory,
                      empirical |-> current.empirical, manuscript |-> current.manuscript,
                      ledger |-> current.ledger]
BY DEF IsRecords

\* An index is in its slot after a reducer has run.
LEMMA MergedIsThere ==
    ASSUME NEW prior, NEW changes
    PROVE  Merged(prior, changes) # {}
BY DEF Merged

\* The library of phase 1 is replaced by a library.
LEMMA PublishLiterature ==
    ASSUME IsRecords(current), StandsOn(current), mode \in LiteratureModes
    PROVE  IsRecords(Records) /\ StandsOn(Records)
<1> DEFINE L == Merged(Prior("library", current.library), SourceChanges)
<1>1. Records = AfterLiterature
  BY DEF Records, LiteratureModes, MethodModes, TheoryModes, EmpiricalModes
<1>2. AfterLiterature =
        [library |-> L, catalog |-> current.catalog, methods |-> current.methods,
         theory |-> current.theory, empirical |-> current.empirical,
         manuscript |-> current.manuscript, ledger |-> current.ledger]
  BY Shape DEF AfterLiterature
<1>3. L # {}
  BY MergedIsThere
<1> HIDE DEF L
<1> QED
  BY <1>1, <1>2, <1>3 DEF IsRecords, StandsOn

\* What the agents list is a list after it has been filled in.
LEMMA FilledIsList ==
    ASSUME NEW d, IsList(d), NEW e, DOMAIN e = DOMAIN d, e = [i \in DOMAIN e |-> e[i]]
    PROVE  IsList(e)
<1>1. Len(d) \in Nat /\ DOMAIN e = 1 .. Len(d)
  BY ListIsSeq
<1> DEFINE S == {e[i] : i \in DOMAIN e}
<1>2. \A i \in DOMAIN e : e[i] \in S
  OBVIOUS
<1>3. e \in [1 .. Len(d) -> S]
  BY <1>1, <1>2
<1>4. e \in Seq(S)
  BY <1>1, <1>3, SeqDef
<1> QED
  BY <1>4 DEF IsList

\* A run changes methods to identities: of its own, or the selected one.
LEMMA ChangesAreMethods ==
    ASSUME WorkInv, Submitted, mode \in MethodModes
    PROVE  \A m \in DOMAIN MethodChanges : MethodChanges[m].identity \in Identity
<1> DEFINE d == written["method_changes"]
           items == Populated("method_changes")
           keys == MethodKeys(items)
<1>1. d \in Writes["method_changes"]
  <2>1. "method_changes" \in DOMAIN written
    BY DEF Submitted, Outputs, LiteratureModes, MethodModes, TheoryModes, EmpiricalModes
  <2> QED
    BY <2>1 DEF WorkInv
<1>2. IsList(d) /\ \A i \in DOMAIN d : "identity" \in DOMAIN d[i] /\ d[i].identity \in Identity
  BY <1>1, WriteAssumption
<1>3. items = [i \in DOMAIN d |-> [d[i] EXCEPT !.identity = IF method = None THEN @ ELSE method]]
  BY DEF Populated, PopulateMethods
<1>4. \A i \in DOMAIN items : items[i].identity \in Identity
  BY <1>2, <1>3 DEF WorkInv
<1>5. IsList(items) /\ DOMAIN keys = DOMAIN items
  BY <1>2, <1>3, FilledIsList DEF MethodKeys
<1> HIDE DEF keys, items
<1>6. ASSUME NEW m \in DOMAIN Latest(items, keys)
      PROVE  Latest(items, keys)[m].identity \in Identity
  <2>1. PICK i \in DOMAIN items : IsLast(keys, m, i)
    BY <1>5, KeyHasALast
  <2>2. Latest(items, keys)[m] = items[i]
    BY <1>5, <2>1, LatestIsLast
  <2> QED
    BY <1>4, <2>1, <2>2
<1>7. MethodChanges = Latest(items, keys)
  BY DEF MethodChanges, items, keys
<1> QED
  BY <1>6, <1>7

\* The methods of phase 2 go into their slots and, over all earlier ones, into
\* the catalogue: the prior catalogue is an input whenever there is one.
LEMMA PublishMethods ==
    ASSUME IsRecords(current), StandsOn(current), mode \in MethodModes,
           current.library # {},
           \A m \in DOMAIN MethodChanges : MethodChanges[m].identity \in Identity
    PROVE  IsRecords(Records) /\ StandsOn(Records)
<1> DEFINE prior == Prior("catalog", current.catalog)
           changes == [m \in DOMAIN MethodChanges |-> MethodChanges[m].identity]
           M == [m \in Method |-> IF m \in DOMAIN MethodChanges
                                  THEN MethodChanges[m].identity ELSE current.methods[m]]
           C == Merged(prior, changes)
<1>1. Records = AfterMethods
  BY DEF Records, LiteratureModes, MethodModes, TheoryModes, EmpiricalModes
<1>11. AfterMethods =
        [library |-> current.library, catalog |-> C, methods |-> M,
         theory |-> current.theory, empirical |-> current.empirical,
         manuscript |-> current.manuscript, ledger |-> current.ledger]
  <2>1. AfterMethods = [current EXCEPT !.methods = M, !.catalog = C]
    BY Zenon DEF AfterMethods
  <2> HIDE DEF M, C
  <2> QED
    BY <2>1, Shape
<1>2. prior = current.catalog
  <2>1. <<"catalog", "any">> \in IfThere(mode)
    BY DEF IfThere, LiteratureModes, MethodModes, TheoryModes, EmpiricalModes
  <2>2. CASE current.catalog = {}
    BY <2>2 DEF Prior
  <2>3. CASE current.catalog # {}
    <3>1. Found(<<"catalog", "any">>, method)
      BY <2>3 DEF Found
    <3>2. "catalog" \in Frozen(mode, method)
      <4>1. <<"catalog", "any">> \in {i \in Always(mode) \cup IfThere(mode) : Found(i, method)}
        BY <2>1, <3>1
      <4> QED
        BY <4>1 DEF Frozen
    <3> QED
      BY <3>2 DEF Prior
  <2> QED
    BY <2>2, <2>3
<1>21. DOMAIN changes = DOMAIN MethodChanges
  OBVIOUS
<1>22. \A m \in DOMAIN changes : changes[m] = MethodChanges[m].identity
  OBVIOUS
<1> HIDE DEF changes, prior
<1>3. C # {}
  BY MergedIsThere
<1>4. ASSUME NEW m \in Method, M[m] # None
      PROVE  \E catalog \in C : m \in DOMAIN catalog /\ catalog[m] = M[m]
  <2> DEFINE whole == [k \in (UNION {DOMAIN p : p \in prior}) \cup DOMAIN changes |->
                        IF k \in DOMAIN changes THEN changes[k]
                        ELSE (CHOOSE p \in prior : TRUE)[k]]
  <2>1. C = {whole}
    BY DEF Merged
  <2>2. CASE m \in DOMAIN changes
    <3>1. m \in DOMAIN whole /\ whole[m] = changes[m]
      BY <2>2
    <3>2. M[m] = changes[m]
      BY <2>2, <1>21, <1>22
    <3> QED
      BY <2>1, <3>1, <3>2
  <2>3. CASE m \notin DOMAIN changes
    <3>1. current.methods[m] # None
      BY <1>4, <2>3, <1>21
    <3>2. PICK catalog \in current.catalog :
              m \in DOMAIN catalog /\ catalog[m] = current.methods[m]
      BY <3>1 DEF StandsOn
    <3>3. (CHOOSE p \in prior : TRUE) = catalog
      BY <1>2, <3>2 DEF IsRecords
    <3>4. m \in DOMAIN whole /\ whole[m] = catalog[m]
      BY <1>2, <2>3, <3>2, <3>3
    <3> QED
      BY <2>1, <2>3, <3>2, <3>4, <1>21
  <2> QED
    BY <2>2, <2>3
<1>5. \A p, q \in C : p = q
  BY DEF Merged
<1>6. M \in [Method -> Identity \cup {None}]
  BY DEF IsRecords
<1> HIDE DEF M, C
<1> QED
  BY <1>1, <1>11, <1>3, <1>4, <1>5, <1>6 DEF IsRecords, StandsOn

\* A theory and evidence change one field each.
LEMMA TheoryFields ==
    ASSUME IsRecords(current)
    PROVE  AfterTheory =
        [library |-> current.library, catalog |-> current.catalog,
         methods |-> current.methods, theory |-> current.theory \cup {method},
         empirical |-> current.empirical, manuscript |-> current.manuscript,
         ledger |-> current.ledger]
BY Shape DEF AfterTheory

\* The records after evidence, field by field.
LEMMA EvidenceFields ==
    ASSUME IsRecords(current)
    PROVE  AfterEvidence =
        [library |-> current.library, catalog |-> current.catalog,
         methods |-> current.methods, theory |-> current.theory,
         empirical |-> current.empirical \cup {method}, manuscript |-> current.manuscript,
         ledger |-> current.ledger]
BY Shape DEF AfterEvidence

\* A theory, or evidence, goes where there is a catalogue.
LEMMA PublishStudy ==
    ASSUME IsRecords(current), StandsOn(current),
           mode \in TheoryModes \cup EmpiricalModes, current.catalog # {},
           method \in Identity
    PROVE  IsRecords(Records) /\ StandsOn(Records)
<1>1. CASE mode \in TheoryModes
  <2>1. Records = AfterTheory
    BY <1>1 DEF Records, LiteratureModes, MethodModes, TheoryModes, EmpiricalModes
  <2>2. AfterTheory =
        [library |-> current.library, catalog |-> current.catalog,
         methods |-> current.methods, theory |-> current.theory \cup {method},
         empirical |-> current.empirical, manuscript |-> current.manuscript,
         ledger |-> current.ledger]
    BY TheoryFields
  <2> QED
    BY <2>1, <2>2 DEF IsRecords, StandsOn
<1>2. CASE mode \in EmpiricalModes
  <2>1. Records = AfterEvidence
    BY <1>2 DEF Records, LiteratureModes, MethodModes, TheoryModes, EmpiricalModes
  <2>2. AfterEvidence =
        [library |-> current.library, catalog |-> current.catalog,
         methods |-> current.methods, theory |-> current.theory,
         empirical |-> current.empirical \cup {method}, manuscript |-> current.manuscript,
         ledger |-> current.ledger]
    BY EvidenceFields
  <2> QED
    BY <2>1, <2>2 DEF IsRecords, StandsOn
<1> QED
  BY <1>1, <1>2

\* An assembly changes the manuscripts only.
LEMMA AssemblyFields ==
    ASSUME IsRecords(current)
    PROVE  AfterAssembly =
        [library |-> current.library, catalog |-> current.catalog,
         methods |-> current.methods, theory |-> current.theory,
         empirical |-> current.empirical,
         manuscript |-> current.manuscript \cup {method}, ledger |-> current.ledger]
BY Shape DEF AfterAssembly

\* A manuscript goes where its version has a theory and evidence, and the ledger
\* of its issues goes with it.
LEMMA PublishManuscript ==
    ASSUME IsRecords(current), StandsOn(current), mode \in ManuscriptModes,
           method \in current.theory /\ method \in current.empirical
    PROVE  IsRecords(Records) /\ StandsOn(Records)
<1>1. CASE mode = "assembly"
  <2>1. Records = AfterAssembly
    BY <1>1 DEF Records, LiteratureModes, MethodModes, TheoryModes, EmpiricalModes
  <2>2. AfterAssembly =
        [library |-> current.library, catalog |-> current.catalog,
         methods |-> current.methods, theory |-> current.theory,
         empirical |-> current.empirical,
         manuscript |-> current.manuscript \cup {method}, ledger |-> current.ledger]
    BY AssemblyFields
  <2> QED
    BY <2>1, <2>2 DEF IsRecords, StandsOn
<1>2. CASE mode = "review_revision"
  <2> DEFINE K == Merged(Prior("ledger", current.ledger[method]), IssueChanges)
             L == [current.ledger EXCEPT ![method] = K]
  <2>1. Records = AfterReview
    BY <1>2 DEF Records, LiteratureModes, MethodModes, TheoryModes, EmpiricalModes
  <2>2. AfterReview =
        [current EXCEPT !.manuscript = current.manuscript \cup {method}, !.ledger = L]
    BY Shape DEF AfterReview
  <2>3. L = [x \in Identity |-> IF x = method THEN K ELSE current.ledger[x]]
    BY DEF IsRecords
  <2> HIDE DEF K, L
  <2>4. AfterReview =
        [library |-> current.library, catalog |-> current.catalog,
         methods |-> current.methods, theory |-> current.theory,
         empirical |-> current.empirical,
         manuscript |-> current.manuscript \cup {method}, ledger |-> L]
    BY <2>2, Shape
  <2>5. L = [x \in Identity |-> L[x]]
    BY <2>3
  <2>6. ASSUME NEW x \in Identity, L[x] # {}
        PROVE  x \in current.manuscript \cup {method}
    BY <2>3, <2>6 DEF StandsOn
  <2> QED
    BY <2>1, <2>4, <2>5, <2>6 DEF IsRecords, StandsOn
<1> QED
  BY <1>1, <1>2 DEF ManuscriptModes

\* A publication leaves the records standing on each other, and no run at work.
LEMMA PublishRecords ==
    ASSUME RecordsInv, WorkInv, Publish
    PROVE  RecordsInv'
<1>1. pc = "working" /\ current' = Records /\ pc' = "published"
  BY DEF Publish, Submitted
<1>2. IsRecords(current) /\ StandsOn(current) /\ mode \in Mode
  BY <1>1 DEF RecordsInv, InputsAreThere
<1>3. \A input \in Always(mode) : Found(input, method)
  BY <1>1 DEF RecordsInv, InputsAreThere
<1>4. IsRecords(Records) /\ StandsOn(Records)
  <2>1. CASE mode \in LiteratureModes
    BY <1>2, <2>1, PublishLiterature
  <2>2. CASE mode \in MethodModes
    <3>1. mode \notin LiteratureModes
      BY <2>2 DEF LiteratureModes, MethodModes
    <3>2. current.library # {}
      BY <1>2, <1>3, <3>1, LibraryIsThere
    <3>3. \A m \in DOMAIN MethodChanges : MethodChanges[m].identity \in Identity
      BY <2>2, ChangesAreMethods DEF Publish
    <3> QED
      BY <1>2, <2>2, <3>2, <3>3, PublishMethods
  <2>3. CASE mode \in TheoryModes \cup EmpiricalModes
    <3>1. mode \notin LiteratureModes \cup MethodModes
      BY <2>3 DEF LiteratureModes, MethodModes, TheoryModes, EmpiricalModes
    <3>2. method \in Identity
      BY <1>2, <1>3, <3>1, MethodIsThere
    <3> QED
      BY <1>2, <1>3, <2>3, <3>1, <3>2, CatalogIsThere, PublishStudy
  <2>4. CASE mode \in ManuscriptModes
    BY <1>2, <1>3, <2>4, SupportIsThere, PublishManuscript
  <2> QED
    BY <1>2, <2>1, <2>2, <2>3, <2>4, ModeAssumption DEF MethodBound, MethodModes
<1>5. InputsAreThere'
  BY <1>1 DEF InputsAreThere
<1> QED
  BY <1>1, <1>4, <1>5 DEF RecordsInv, IsRecords, StandsOn

-----------------------------------------------------------------------------
\* The types of a run.

\* The documents that agents write for some outputs are documents of these.
LEMMA DraftsAreWrites ==
    ASSUME NEW outputs \in Scopes, NEW w \in Drafts[outputs]
    PROVE  DOMAIN w = outputs /\ \A o \in outputs : w[o] \in Writes[o]
<1> DEFINE marked == [outputs -> UNION {{o} \X Writes[o] : o \in outputs}]
           own == {v \in marked : \A o \in outputs : v[o][1] = o}
<1>1. Drafts[outputs] = {[o \in outputs |-> v[o][2]] : v \in own}
  BY DEF Drafts
<1>2. PICK v \in own : w = [o \in outputs |-> v[o][2]]
  BY <1>1
<1>3. ASSUME NEW o \in outputs PROVE v[o][2] \in Writes[o]
  <2>1. v[o] \in UNION {{p} \X Writes[p] : p \in outputs} /\ v[o][1] = o
    BY <1>2
  <2>2. PICK p \in outputs : v[o] \in {p} \X Writes[p]
    BY <2>1
  <2>3. v[o][1] = p /\ v[o][2] \in Writes[p]
    BY <2>2
  <2> QED
    BY <2>1, <2>3
<1> QED
  BY <1>2, <1>3

\* A role writes some of its own outputs.
LEMMA RoleScopes ==
    ASSUME mode \in Mode, NEW role \in Role
    PROVE  OutputsOf(role) \subseteq Outputs(mode) /\ SUBSET OutputsOf(role) \subseteq Scopes
<1> DEFINE mine == {o \in Outputs(mode) : Author(o) = role}
<1>1. OutputsOf(role) = mine
  BY DEF OutputsOf
<1>2. SUBSET mine \in {SUBSET {o \in Outputs(m) : Author(o) = r} : m \in Mode, r \in Role}
  OBVIOUS
<1> DEFINE all == {SUBSET {o \in Outputs(m) : Author(o) = r} : m \in Mode, r \in Role}
<1>3. SUBSET mine \subseteq Scopes
  <2>1. Scopes = UNION all
    BY DEF Scopes
  <2>2. SUBSET mine \in all
    BY <1>2
  <2> HIDE DEF mine, all
  <2> QED
    BY <2>1, <2>2
<1>4. mine \subseteq Outputs(mode)
  BY DEF mine
<1> QED
  BY <1>1, <1>3, <1>4

\* No lane is open at first, and a lane is open once.
LEMMA LanesAreCounted ==
    ASSUME NEW S \in SUBSET Lane, NEW lane \in Lane
    PROVE  /\ Cardinality(S) \in Nat
           /\ lane \notin S => Cardinality(S \cup {lane}) = Cardinality(S) + 1
<1>1. IsFiniteSet(Lane)
  <2>1. IsFiniteSet({}) /\ IsFiniteSet({} \cup {"packaging"})
    BY FS_EmptySet, FS_AddElement
  <2>2. IsFiniteSet(({} \cup {"packaging"}) \cup {"scientific"})
    BY <2>1, FS_AddElement
  <2>3. Lane = ({} \cup {"packaging"}) \cup {"scientific"}
    BY DEF Lane
  <2> QED
    BY <2>2, <2>3
<1>2. IsFiniteSet(S)
  BY <1>1, FS_Subset
<1> QED
  BY <1>2, FS_CardinalityType, FS_AddElement

\* Nothing is written at first.
LEMMA InitWork == Init => WorkInv
<1> SUFFICES ASSUME Init PROVE WorkInv
  OBVIOUS
<1>1. DOMAIN written = {} /\ DOMAIN stamp = {}
  BY DEF Init
<1> QED
  BY <1>1, BoundAssumption DEF Init, WorkInv

\* A start clears what was written.
LEMMA StartWork ==
    ASSUME WorkInv, NEW m \in Mode, NEW x \in Identity \cup {None}, Start(m, x)
    PROVE  WorkInv'
<1>1. DOMAIN written' = {} /\ DOMAIN stamp' = {}
  BY DEF Start
<1>2. run' \in 0 .. MaxRuns
  BY BoundAssumption DEF Start, WorkInv
<1> QED
  BY <1>1, <1>2 DEF Start, WorkInv

\* A role that closes adds documents of its outputs, stamped with the records it read.
LEMMA CloseWork ==
    ASSUME WorkInv, InputsAreThere, NEW role \in Role, Close(role)
    PROVE  WorkInv'
<1>1. mode \in Mode /\ pc = "working"
  BY DEF Close, InputsAreThere
<1>2. /\ OutputsOf(role) \subseteq Outputs(mode)
      /\ OutputsOf(role) \in Scopes
  BY <1>1, RoleScopes
<1>3. PICK w \in Drafts[OutputsOf(role)] :
        written' = [o \in DOMAIN written \cup DOMAIN w |->
                        IF o \in DOMAIN w THEN w[o] ELSE written[o]]
  BY DEF Close
<1>4. DOMAIN w = OutputsOf(role) /\ \A o \in OutputsOf(role) : w[o] \in Writes[o]
  BY <1>2, DraftsAreWrites
<1>5. DOMAIN written' = DOMAIN written \cup OutputsOf(role)
  BY <1>3, <1>4
<1>6. \A o \in DOMAIN written' : written'[o] \in Writes[o]
  BY <1>3, <1>4 DEF WorkInv
<1>7. mode # None => DOMAIN written' \subseteq Outputs(mode)
  BY <1>2, <1>5 DEF WorkInv
<1>8. stamp' = [o \in DOMAIN written' \cap Timed |-> IF o \in DOMAIN stamp THEN stamp[o] ELSE 1]
  BY DEF Close
<1>9. UNCHANGED <<run, pc, mode, method, used>>
  BY DEF Close
<1>10. 1 \in 1 .. Cardinality(used) + 1
  <2>1. "packaging" \in Lane /\ used \in SUBSET Lane
    BY DEF WorkInv, Lane
  <2>2. Cardinality(used) \in Nat
    BY <2>1, LanesAreCounted
  <2> QED
    BY <2>2
<1>11. \A o \in DOMAIN stamp' : stamp'[o] \in 1 .. Cardinality(used) + 1
  BY <1>8, <1>10 DEF WorkInv
<1>12. DOMAIN stamp' = DOMAIN written' \cap Timed
  BY <1>8
<1> QED
  BY <1>1, <1>6, <1>7, <1>9, <1>11, <1>12 DEF WorkInv

\* A correction rewrites some of what its role owns and adds no output.
LEMMA CorrectWork ==
    ASSUME WorkInv, InputsAreThere, NEW lane \in Lane, NEW role \in Role, Correct(lane, role)
    PROVE  WorkInv'
<1>1. mode \in Mode
  BY DEF Correct, InputsAreThere
<1>2. PICK scope \in SUBSET OutputsOf(role) \ {{}} : \E w \in Drafts[scope] :
        /\ written' = [o \in DOMAIN written |-> IF o \in scope THEN w[o] ELSE written[o]]
        /\ stamp' = [o \in DOMAIN stamp |-> IF o \in scope THEN Now ELSE stamp[o]]
  BY DEF Correct
<1>3. PICK w \in Drafts[scope] :
        /\ written' = [o \in DOMAIN written |-> IF o \in scope THEN w[o] ELSE written[o]]
        /\ stamp' = [o \in DOMAIN stamp |-> IF o \in scope THEN Now ELSE stamp[o]]
  BY <1>2
<1>4. \A o \in scope : w[o] \in Writes[o]
  <2>1. scope \in Scopes
    BY <1>1, <1>2, RoleScopes
  <2> QED
    BY <2>1, DraftsAreWrites
<1>5. DOMAIN written' = DOMAIN written /\ DOMAIN stamp' = DOMAIN stamp
  BY <1>3
<1>6. \A o \in DOMAIN written' : written'[o] \in Writes[o]
  BY <1>3, <1>4 DEF WorkInv
<1>7. used' = used \cup {lane} /\ lane \notin used /\ pc' = "working"
      /\ UNCHANGED <<run, mode, method>>
  BY DEF Correct
<1>8. Cardinality(used) \in Nat /\ Cardinality(used') = Cardinality(used) + 1
  BY <1>7, LanesAreCounted DEF WorkInv
<1>9. \A o \in DOMAIN stamp' : stamp'[o] \in 1 .. Cardinality(used') + 1
  BY <1>3, <1>8 DEF WorkInv, Now
<1> QED
  BY <1>1, <1>5, <1>6, <1>7, <1>9 DEF WorkInv

\* The other steps change where the run is, and nothing of what it wrote.
LEMMA OtherWork ==
    ASSUME WorkInv, UNCHANGED <<run, mode, method, written, stamp, used>>,
           pc' \in {"idle", "working", "rejected", "published"}
    PROVE  WorkInv'
BY DEF WorkInv

-----------------------------------------------------------------------------
\* The invariant of all steps.

Inv == RecordsInv /\ WorkInv

\* The invariant holds at first.
LEMMA InitInv == Init => Inv
BY InitRecords, InitWork DEF Inv

\* Every step keeps the invariant.
LEMMA NextInv ==
    ASSUME Inv, [Next]_vars
    PROVE  Inv'
<1> USE DEF Inv
<1>1. ASSUME NEW m \in Mode, NEW x \in Identity \cup {None}, Start(m, x)
      PROVE  Inv'
  BY <1>1, StartRecords, StartWork
<1>2. ASSUME NEW role \in Role, Close(role) PROVE Inv'
  <2>1. RecordsInv'
    BY <1>2, WorkRecords DEF Close, formal
  <2> QED
    BY <1>2, <2>1, CloseWork DEF RecordsInv
<1>3. CASE Reject
  <2>1. RecordsInv'
    BY <1>3, WorkRecords DEF Reject, Submitted, formal
  <2> QED
    BY <1>3, <2>1, OtherWork DEF Reject
<1>4. CASE Publish
  <2>1. RecordsInv'
    BY <1>4, PublishRecords
  <2> QED
    BY <1>4, <2>1, OtherWork DEF Publish
<1>5. ASSUME NEW lane \in Lane, NEW role \in Role, Correct(lane, role) PROVE Inv'
  <2>1. RecordsInv'
    BY <1>5, WorkRecords DEF Correct, formal
  <2> QED
    BY <1>5, <2>1, CorrectWork DEF RecordsInv
<1>6. CASE UNCHANGED vars
  <2>1. RecordsInv'
    BY <1>6, WorkRecords DEF vars, formal, work
  <2>2. pc' \in {"idle", "working", "rejected", "published"}
    BY <1>6 DEF vars, work, WorkInv
  <2> QED
    BY <1>6, <2>1, <2>2, OtherWork DEF vars, work
<1> QED
  BY <1>1, <1>2, <1>3, <1>4, <1>5, <1>6 DEF Next

\* The types of the records and of the run, whatever is written; an output that
\* is compared by its time has that of its closure or of a correction that was
\* made (_close and _validate_and_close_correction).
THEOREM TypesAreCorrect == Spec => []TypeOK
<1>1. Inv => TypeOK
  BY DEF Inv, RecordsInv, WorkInv, TypeOK
<1> QED
  BY <1>1, InitInv, NextInv, PTL DEF Spec

\* Every published record has under it what the contract of its phase asks for,
\* for the same version of the method (resolve_run_inputs, current_record, and
\* the writes that _materialize_writes makes of a run).
THEOREM RecordsAreGrounded == Spec => []Grounded
<1>1. Inv => Grounded
  BY DEF Inv, RecordsInv, Grounded
<1> QED
  BY <1>1, InitInv, NextInv, PTL DEF Spec

-----------------------------------------------------------------------------
\* The library and what was published.

LibraryInv == IsList(history) /\ IsLatest(current.library, history)

\* The reducer of phase 1, when it has read the library: what the run says of a
\* source replaces what the library said of it, and the rest stays.
LEMMA LiteratureIsLatest ==
    ASSUME Inv, LibraryInv, Submitted, mode \in LiteratureModes, ~IndexUnread
    PROVE  LET published == history \o Populated("source_changes") IN
           IsList(published) /\ IsLatest(AfterLiterature.library, published)
<1> DEFINE items == Populated("source_changes")
           old == Latest(history, LiteratureKeys(history))
           new == Latest(items, LiteratureKeys(items))
           L == Merged(current.library, new)
<1>1. IsList(items)
  <2> DEFINE d == written["source_changes"]
  <2>1. "source_changes" \in DOMAIN written
    BY DEF Submitted, Outputs, LiteratureModes, MethodModes, TheoryModes, EmpiricalModes
  <2>2. IsList(d)
    BY <2>1, WriteAssumption DEF Inv, WorkInv
  <2>3. items = [i \in DOMAIN d |-> [d[i] EXCEPT !.id = FillId(@, "source", i)]]
    BY DEF Populated, PopulateSources
  <2> QED
    BY <2>2, <2>3, FilledIsList
<1>2. IsList(history \o items)
      /\ Latest(history \o items, LiteratureKeys(history \o items)) = Over(old, new)
  BY <1>1, LatestOfBoth DEF LibraryInv
<1>3. AfterLiterature.library = L
  <2>1. Prior("library", current.library) = current.library
    BY DEF IndexUnread
  <2>2. SourceChanges = new
    BY DEF SourceChanges
  <2>3. AfterLiterature =
          [current EXCEPT !.library = Merged(Prior("library", current.library), SourceChanges)]
    BY DEF AfterLiterature
  <2>4. AfterLiterature = [current EXCEPT !.library = L]
    BY <2>1, <2>2, <2>3
  <2>5. current = [library |-> current.library, catalog |-> current.catalog,
                   methods |-> current.methods, theory |-> current.theory,
                   empirical |-> current.empirical, manuscript |-> current.manuscript,
                   ledger |-> current.ledger]
    BY Shape DEF Inv, RecordsInv
  <2> HIDE DEF L
  <2> QED
    BY <2>4, <2>5
<1>4. old = [k \in DOMAIN old |-> old[k]] /\ new = [k \in DOMAIN new |-> new[k]]
  BY DEF Latest
<1>5. current.library \subseteq {old} /\ (current.library = {} => history = <<>>)
  BY DEF LibraryInv, IsLatest
<1>6. DOMAIN old = {LiteratureKeys(history)[i] : i \in DOMAIN history}
  BY LatestHasTheKeys
<1> HIDE DEF old, new, items
<1>7. L = {Over(old, new)}
  <2>1. CASE current.library = {}
    <3>1. DOMAIN old = {}
      BY <1>5, <1>6, <2>1
    <3>2. L = {[k \in DOMAIN new |-> new[k]]}
      <4>1. (UNION {DOMAIN p : p \in current.library}) \cup DOMAIN new = DOMAIN new
        BY <2>1
      <4> QED
        BY <4>1 DEF Merged
    <3>3. Over(old, new) = [k \in DOMAIN new |-> new[k]]
      BY <3>1 DEF Over
    <3> QED
      BY <3>2, <3>3
  <2>2. CASE current.library = {old}
    <3>1. (UNION {DOMAIN p : p \in current.library}) = DOMAIN old
      BY <2>2
    <3>2. (CHOOSE p \in current.library : TRUE) = old
      BY <2>2
    <3> QED
      BY <3>1, <3>2 DEF Merged, Over
  <2> QED
    BY <1>5, <2>1, <2>2
<1>8. IsLatest(L, history \o items)
  BY <1>2, <1>7 DEF IsLatest
<1> QED
  BY <1>2, <1>3, <1>8 DEF items

\* The other phases leave the library.
LEMMA LibraryStays ==
    ASSUME IsRecords(current), mode \notin LiteratureModes
    PROVE  Records.library = current.library
<1>1. CASE Records = AfterMethods
  BY <1>1, Shape DEF AfterMethods
<1>2. CASE Records = AfterTheory
  BY <1>2, TheoryFields
<1>3. CASE Records = AfterEvidence
  BY <1>3, EvidenceFields
<1>4. CASE Records = AfterAssembly
  BY <1>4, AssemblyFields
<1>5. CASE Records = AfterReview
  BY <1>5, Shape DEF AfterReview
<1>6. Records \in {AfterMethods, AfterTheory, AfterEvidence, AfterAssembly, AfterReview}
  BY DEF Records
<1> QED
  BY <1>1, <1>2, <1>3, <1>4, <1>5, <1>6

\* A publication keeps the library in step with what was published.
LEMMA PublishLibrary ==
    ASSUME Inv, LibraryInv, Publish
    PROVE  LibraryInv'
<1>1. Submitted /\ current' = Records /\ ~IndexUnread
  BY DEF Publish, Implausible
<1>2. CASE mode \in LiteratureModes
  <2>1. Records = AfterLiterature
    BY <1>2 DEF Records, LiteratureModes, MethodModes, TheoryModes, EmpiricalModes
  <2>2. history' = history \o Populated("source_changes")
    BY <1>2 DEF Publish
  <2>3. IsList(history') /\ IsLatest(AfterLiterature.library, history')
    BY <1>1, <1>2, <2>2, LiteratureIsLatest
  <2> QED
    BY <1>1, <2>1, <2>3 DEF LibraryInv
<1>3. CASE mode \notin LiteratureModes
  <2>1. history' = history
    BY <1>3 DEF Publish
  <2>2. current'.library = current.library
    BY <1>1, <1>3, LibraryStays DEF Inv, RecordsInv
  <2> QED
    BY <2>1, <2>2 DEF LibraryInv
<1> QED
  BY <1>2, <1>3

\* The library, which each run makes of the index it froze and its own changes,
\* says of every source what the latest publication said of it, however many
\* there were (_literature_library over p1.literature_sources).
THEOREM LibraryIsAlwaysLatest == Spec => []LibraryIsLatest
<1>1. Init => LibraryInv
  <2> SUFFICES ASSUME Init PROVE LibraryInv
    OBVIOUS
  <2>1. PICK e \in Earlier : current = e.current /\ history = e.sources
    BY DEF Init
  <2> QED
    BY <2>1, EarlierAssumption DEF LibraryInv
<1>2. Inv /\ LibraryInv /\ [Next]_vars => LibraryInv'
  <2> SUFFICES ASSUME Inv, LibraryInv, [Next]_vars PROVE LibraryInv'
    OBVIOUS
  <2>1. CASE Publish
    BY <2>1, PublishLibrary
  <2>2. CASE UNCHANGED formal
    BY <2>2 DEF LibraryInv, formal
  <2>3. Publish \/ UNCHANGED formal
    BY DEF Next, Start, Close, Reject, Correct, vars
  <2> QED
    BY <2>1, <2>2, <2>3
<1>3. LibraryInv => LibraryIsLatest
  BY DEF LibraryInv, LibraryIsLatest
<1> QED
  BY <1>1, <1>2, <1>3, InitInv, NextInv, PTL DEF Spec

-----------------------------------------------------------------------------
\* The issues of a review.

RaisedIssues ==
    Ids(Populated("theory_audit")) \cup Ids(Populated("empirical_audit"))
        \cup Ids(Populated("outside_review"))

\* They depend on what was written.
LEMMA RaisedIssuesStay ==
    ASSUME UNCHANGED <<run, mode, method, written>>
    PROVE  RaisedIssues' = RaisedIssues
BY DEF RaisedIssues, Ids, Populated, PopulateSources, PopulateMethods, PopulateFindings,
   PopulateIssues, FillId

\* A list of ids that are filled in has no None.
LEMMA FilledIdsAreThere ==
    ASSUME Inv, NEW d, IsList(d), \A i \in DOMAIN d : "id" \in DOMAIN d[i], NEW role
    PROVE  None \notin Ids(PopulateFindings(d, role))
<1> DEFINE items == PopulateFindings(d, role)
<1>1. Len(d) \in Nat /\ DOMAIN d = 1 .. Len(d) /\ run \in Nat
  BY ListIsSeq, BoundAssumption DEF Inv, WorkInv
<1>2. DOMAIN items = DOMAIN d
  BY DEF PopulateFindings
<1>3. ASSUME NEW i \in DOMAIN items PROVE items[i].id # None
  <2>1. items[i] = [d[i] EXCEPT !.id = FillId(@, "finding", i), !.by = role]
    BY <1>2 DEF PopulateFindings
  <2>2. items[i].id = FillId(d[i].id, "finding", i)
    BY <1>2, <2>1
  <2>3. <<"finding", i>> \in {"finding"} \X Nat
    BY <1>1, <1>2
  <2> QED
    BY <2>2, <2>3, NoneAssumption DEF FillId
<1> HIDE DEF items
<1>4. None \notin Ids(items)
  BY <1>3 DEF Ids
<1> QED
  BY <1>4 DEF items

\* Each issue of a reviewer has an id.
LEMMA IssuesHaveIds ==
    ASSUME Inv, Submitted, mode = "review_revision"
    PROVE  None \notin RaisedIssues
<1>1. {"theory_audit", "empirical_audit", "outside_review"} \subseteq DOMAIN written
  BY DEF Submitted, Outputs, LiteratureModes, MethodModes, TheoryModes, EmpiricalModes
<1>2. /\ written["theory_audit"] \in Writes["theory_audit"]
      /\ written["empirical_audit"] \in Writes["empirical_audit"]
      /\ written["outside_review"] \in Writes["outside_review"]
  BY <1>1 DEF Inv, WorkInv
<1>3. None \notin Ids(Populated("theory_audit"))
  <2> DEFINE d == written["theory_audit"]
  <2>1. IsList(d) /\ \A i \in DOMAIN d : "id" \in DOMAIN d[i]
    BY <1>2, WriteAssumption
  <2>2. Populated("theory_audit") = PopulateFindings(d, Author("theory_audit"))
    BY DEF Populated
  <2> HIDE DEF d
  <2> QED
    BY <2>1, <2>2, FilledIdsAreThere
<1>4. None \notin Ids(Populated("empirical_audit"))
  <2> DEFINE d == written["empirical_audit"]
  <2>1. IsList(d) /\ \A i \in DOMAIN d : "id" \in DOMAIN d[i]
    BY <1>2, WriteAssumption
  <2>2. Populated("empirical_audit") = PopulateFindings(d, Author("empirical_audit"))
    BY DEF Populated
  <2> HIDE DEF d
  <2> QED
    BY <2>1, <2>2, FilledIdsAreThere
<1>5. None \notin Ids(Populated("outside_review"))
  <2>1. Populated("outside_review") = written["outside_review"]
    BY DEF Populated
  <2>2. \A i \in DOMAIN written["outside_review"] : written["outside_review"][i].id # None
    BY <1>2, WriteAssumption
  <2> QED
    BY <2>1, <2>2 DEF Ids
<1> QED
  BY <1>3, <1>4, <1>5 DEF RaisedIssues

\* A code that is not among the findings says that its condition is false.
LEMMA NotFound ==
    ASSUME NEW condition, NEW code, code \notin When(condition, code)
    PROVE  ~condition
BY DEF When

\* What the validation of a review that is accepted has seen.
LEMMA AcceptedReview ==
    ASSUME mode = "review_revision", Blocking(PhaseFindings) = {}
    PROVE  LET issues == Populated("review_issues") IN
           /\ RaisedIssues \ {None} \subseteq Ids(issues)
           /\ \A i \in DOMAIN issues : issues[i].disposition # "open"
<1> DEFINE issues == Populated("review_issues")
           raised == Raised(Populated("theory_audit"), Populated("empirical_audit"),
                            Populated("outside_review"))
           found == ReviewIssueFindings(Populated("theory_audit"), Populated("empirical_audit"),
                                        Populated("outside_review"), issues)
<1>1. found \subseteq PhaseFindings
  <2>1. PhaseFindings = ManuscriptRunFindings
    BY DEF PhaseFindings, LiteratureModes, MethodModes, TheoryModes, EmpiricalModes
  <2>2. found \subseteq ManuscriptRunFindings
    BY DEF ManuscriptRunFindings
  <2> QED
    BY <2>1, <2>2
<1>2. found \subseteq Attention
  BY <1>1 DEF Blocking
<1>3. /\ "p5.issue_undispositioned" \notin found
      /\ "p5.review_finding_not_dispositioned" \notin found
  BY <1>2 DEF Attention
<1>4. ~(\E i \in DOMAIN issues : issues[i].disposition = "open")
  <2>1. When(\E i \in DOMAIN issues : issues[i].disposition = "open",
             "p5.issue_undispositioned") \subseteq found
    BY DEF ReviewIssueFindings, DispositionFindings
  <2> QED
    BY <1>3, <2>1, NotFound
<1>5. ~Unresolved(raised, Ids(issues))
  <2>1. When(Unresolved(raised, Ids(issues)), "p5.review_finding_not_dispositioned")
            \subseteq found
    BY DEF ReviewIssueFindings
  <2> QED
    BY <1>3, <2>1, NotFound
<1>6. raised = RaisedIssues \ {None}
  BY DEF Raised, RaisedIssues
<1> QED
  BY <1>4, <1>5, <1>6 DEF Unresolved

\* The ledger that a review publishes has the answers of the lead.
LEMMA PublishedLedger ==
    ASSUME Inv, Publish, mode = "review_revision", NEW id \in Ids(Populated("review_issues"))
    PROVE  \E ledger \in current'.ledger[method] :
              /\ id \in DOMAIN ledger
              /\ \E i \in DOMAIN Populated("review_issues") :
                    ledger[id] = Populated("review_issues")[i]
<1> DEFINE items == Populated("review_issues")
           keys == IssueKeys(items)
           prior == Prior("ledger", current.ledger[method])
           whole == [k \in (UNION {DOMAIN p : p \in prior}) \cup DOMAIN IssueChanges |->
                        IF k \in DOMAIN IssueChanges THEN IssueChanges[k]
                        ELSE (CHOOSE p \in prior : TRUE)[k]]
<1>1. IsList(items)
  <2> DEFINE d == written["review_issues"]
  <2>1. "review_issues" \in DOMAIN written
    BY DEF Publish, Submitted, Outputs, LiteratureModes, MethodModes, TheoryModes, EmpiricalModes
  <2>2. IsList(d)
    BY <2>1, WriteAssumption DEF Inv, WorkInv
  <2>3. items = [i \in DOMAIN d |-> [d[i] EXCEPT !.id = FillId(@, "finding", i)]]
    BY DEF Populated, PopulateIssues
  <2> QED
    BY <2>2, <2>3, FilledIsList
<1>2. DOMAIN keys = DOMAIN items /\ \A i \in DOMAIN items : keys[i] = items[i].id
  BY DEF IssueKeys
<1>3. IssueChanges = Latest(items, keys)
  BY DEF IssueChanges
<1>4. current'.ledger[method] = {whole}
  <2>1. method \in Identity
    <3>1. mode \in Mode /\ \A input \in Always(mode) : Found(input, method)
      BY DEF Publish, Submitted, Inv, RecordsInv, InputsAreThere
    <3>2. mode \notin LiteratureModes \cup MethodModes
      BY DEF LiteratureModes, MethodModes
    <3> QED
      BY <3>1, <3>2, MethodIsThere DEF Inv, RecordsInv
  <2>2. current' = AfterReview
    BY DEF Publish, Records, LiteratureModes, MethodModes, TheoryModes, EmpiricalModes
  <2> DEFINE L == [current.ledger EXCEPT ![method] = Merged(prior, IssueChanges)]
  <2>3. AfterReview =
        [current EXCEPT !.manuscript = current.manuscript \cup {method}, !.ledger = L]
    BY Shape DEF AfterReview, Inv, RecordsInv
  <2>4. L[method] = Merged(prior, IssueChanges)
    BY <2>1 DEF Inv, RecordsInv, IsRecords
  <2> HIDE DEF L
  <2>5. AfterReview.ledger = L
    BY <2>3, Shape DEF Inv, RecordsInv
  <2>6. Merged(prior, IssueChanges) = {whole}
    BY DEF Merged
  <2> QED
    BY <2>2, <2>4, <2>5, <2>6
<1> HIDE DEF items, keys, prior
<1>5. id \in DOMAIN IssueChanges
  <2>1. PICK i \in DOMAIN items : items[i].id = id
    BY DEF Ids, items
  <2>2. id \in {keys[j] : j \in DOMAIN items}
    BY <1>2, <2>1
  <2>3. DOMAIN Latest(items, keys) = {keys[j] : j \in DOMAIN items}
    BY LatestHasTheKeys
  <2> QED
    BY <1>3, <2>2, <2>3
<1>6. PICK i \in DOMAIN items : IssueChanges[id] = items[i]
  <2>1. PICK i \in DOMAIN items : IsLast(keys, id, i)
    BY <1>1, <1>2, <1>3, <1>5, KeyHasALast
  <2>2. Latest(items, keys)[id] = items[i]
    BY <1>1, <1>2, <2>1, LatestIsLast
  <2> QED
    BY <1>3, <2>2
<1>7. id \in DOMAIN whole /\ whole[id] = IssueChanges[id]
  BY <1>5
<1> HIDE DEF whole
<1> QED
  BY <1>4, <1>6, <1>7 DEF items

\* After a review, each issue that a reviewer raised is in the ledger with a
\* final answer: no document that a reviewer or the lead may write, and no
\* correction of one, leaves an issue open or out (p5.issue_disposition of the
\* contract of phase 5, validate_review_issues).
THEOREM IssuesAreAlwaysAnswered == Spec => []IssuesAreAnswered
<1>1. Init => IssuesAreAnswered
  BY DEF Init, IssuesAreAnswered
<1>2. Inv /\ IssuesAreAnswered /\ [Next]_vars => IssuesAreAnswered'
  <2> SUFFICES ASSUME Inv, IssuesAreAnswered, [Next]_vars PROVE IssuesAreAnswered'
    OBVIOUS
  <2>1. CASE Publish
    <3> SUFFICES ASSUME mode' = "review_revision" PROVE IssuesAreAnswered'
      BY DEF IssuesAreAnswered
    <3>1. UNCHANGED <<run, mode, method, written>> /\ mode = "review_revision"
      BY <2>1 DEF Publish
    <3>2. RaisedIssues' = RaisedIssues
      BY <3>1, RaisedIssuesStay
    <3>3. None \notin RaisedIssues
      BY <2>1, <3>1, IssuesHaveIds DEF Publish
    <3>4. /\ RaisedIssues \ {None} \subseteq Ids(Populated("review_issues"))
          /\ \A i \in DOMAIN Populated("review_issues") :
                Populated("review_issues")[i].disposition # "open"
      BY <2>1, <3>1, AcceptedReview DEF Publish
    <3>5. ASSUME NEW id \in RaisedIssues
          PROVE  \E ledger \in current'.ledger[method'] :
                    id \in DOMAIN ledger /\ ledger[id].disposition # "open"
      <4>1. id \in Ids(Populated("review_issues"))
        BY <3>3, <3>4
      <4>2. PICK ledger \in current'.ledger[method] :
                /\ id \in DOMAIN ledger
                /\ \E i \in DOMAIN Populated("review_issues") :
                        ledger[id] = Populated("review_issues")[i]
        BY <2>1, <3>1, <4>1, PublishedLedger
      <4> QED
        BY <3>1, <3>4, <4>2
    <3> QED
      BY <3>2, <3>5 DEF IssuesAreAnswered, RaisedIssues
  <2>2. CASE UNCHANGED vars
    <3>1. RaisedIssues' = RaisedIssues
      BY <2>2, RaisedIssuesStay DEF vars, work
    <3>2. UNCHANGED <<pc, mode, method, current>>
      BY <2>2 DEF vars, work, formal
    <3> QED
      BY <3>1, <3>2 DEF IssuesAreAnswered, RaisedIssues
  <2>3. CASE pc' # "published"
    BY <2>3 DEF IssuesAreAnswered
  <2>4. Publish \/ UNCHANGED vars \/ pc' # "published"
    BY DEF Next, Start, Close, Reject, Correct
  <2> QED
    BY <2>1, <2>2, <2>3, <2>4
<1> QED
  BY <1>1, <1>2, InitInv, NextInv, PTL DEF Spec

-----------------------------------------------------------------------------
\* The search for cycles.

\* The dependencies of a record are statements of the record, of which there
\* are finitely many.
IsGraph(graph) ==
    /\ IsFiniteSet(DOMAIN graph)
    /\ \A n \in DOMAIN graph : graph[n] \subseteq DOMAIN graph

\* The equation of the search.
Solves(search, graph) ==
    search = [s \in Searches(graph) |->
                ClosesCycle(s) \/ (~Exhausted(graph, s) /\ search[Turn(graph, s)])]

Goes(graph, s) == ~ClosesCycle(s) /\ ~Exhausted(graph, s)

\* Such a search exists: it finds a cycle where some number of turns leads to one.
LEMMA SearchExists ==
    ASSUME NEW graph,
           \A s \in Searches(graph) : Goes(graph, s) => Turn(graph, s) \in Searches(graph)
    PROVE  \E search : Solves(search, graph)
<1> DEFINE D == Searches(graph)
           Leads(t, n, s) ==
                /\ t[0] = s /\ ClosesCycle(t[n])
                /\ \A i \in 0 .. n - 1 : ~Exhausted(graph, t[i]) /\ t[i + 1] = Turn(graph, t[i])
           Finds(s) == \E n \in Nat : \E t \in [Nat -> D] : Leads(t, n, s)
           found == [s \in D |-> Finds(s)]
<1> HIDE DEF D
<1>1. ASSUME NEW s \in D, ClosesCycle(s) PROVE Finds(s)
  <2> DEFINE t == [i \in Nat |-> s]
  <2>1. t \in [Nat -> D] /\ t[0] = s
    OBVIOUS
  <2>2. Leads(t, 0, s)
    BY <1>1, <2>1
  <2> QED
    BY <2>1, <2>2
<1>2. ASSUME NEW s \in D, ~ClosesCycle(s), Finds(s)
      PROVE  ~Exhausted(graph, s) /\ Finds(Turn(graph, s))
  <2>1. PICK n \in Nat : \E t \in [Nat -> D] : Leads(t, n, s)
    BY <1>2
  <2>2. PICK t \in [Nat -> D] : Leads(t, n, s)
    BY <2>1
  <2>3. n # 0 /\ n - 1 \in Nat
    BY <1>2, <2>2
  <2> DEFINE u == [i \in Nat |-> t[i + 1]]
  <2>4. u \in [Nat -> D] /\ \A i \in Nat : u[i] = t[i + 1]
    OBVIOUS
  <2>5. ~Exhausted(graph, t[0]) /\ t[1] = Turn(graph, t[0])
    <3>1. 0 \in 0 .. n - 1
      BY <2>3
    <3> QED
      BY <2>2, <3>1
  <2> HIDE DEF u
  <2>6. u[0] = Turn(graph, s)
    BY <2>2, <2>4, <2>5
  <2>7. u[n - 1] = t[n]
    BY <2>3, <2>4
  <2>8. ASSUME NEW i \in 0 .. (n - 1) - 1
        PROVE  ~Exhausted(graph, u[i]) /\ u[i + 1] = Turn(graph, u[i])
    <3>1. i + 1 \in 0 .. n - 1 /\ i \in Nat /\ i + 1 \in Nat
      BY <2>3
    <3>2. u[i] = t[i + 1] /\ u[i + 1] = t[(i + 1) + 1]
      BY <2>4, <3>1
    <3> QED
      BY <2>2, <3>1, <3>2
  <2>9. Leads(u, n - 1, Turn(graph, s))
    BY <2>2, <2>6, <2>7, <2>8
  <2> QED
    BY <2>2, <2>3, <2>4, <2>5, <2>9
<1>3. ASSUME NEW s \in D, ~Exhausted(graph, s), Finds(Turn(graph, s)) PROVE Finds(s)
  <2>1. PICK n \in Nat : \E t \in [Nat -> D] : Leads(t, n, Turn(graph, s))
    BY <1>3
  <2>2. PICK t \in [Nat -> D] : Leads(t, n, Turn(graph, s))
    BY <2>1
  <2> DEFINE u == [i \in Nat |-> IF i = 0 THEN s ELSE t[i - 1]]
  <2>3. u \in [Nat -> D] /\ u[0] = s
    OBVIOUS
  <2>4. \A i \in Nat : u[i + 1] = t[i]
    OBVIOUS
  <2> HIDE DEF u
  <2>5. ASSUME NEW i \in 0 .. (n + 1) - 1
        PROVE  ~Exhausted(graph, u[i]) /\ u[i + 1] = Turn(graph, u[i])
    <3>1. CASE i = 0
      BY <1>3, <2>2, <2>3, <2>4, <3>1
    <3>2. CASE i # 0
      <4>1. i - 1 \in 0 .. n - 1 /\ i - 1 \in Nat /\ (i - 1) + 1 = i /\ i \in Nat
        BY <3>2
      <4>2. u[i] = t[i - 1] /\ u[i + 1] = t[i]
        BY <2>4, <4>1
      <4>3. ~Exhausted(graph, t[i - 1]) /\ t[(i - 1) + 1] = Turn(graph, t[i - 1])
        BY <2>2, <4>1
      <4> QED
        BY <4>1, <4>2, <4>3
    <3> QED
      BY <3>1, <3>2
  <2>6. ClosesCycle(u[n + 1])
    BY <2>2, <2>4
  <2>7. Leads(u, n + 1, s)
    BY <2>3, <2>5, <2>6
  <2> QED
    BY <2>3, <2>7
<1> HIDE DEF Finds
<1>4. ASSUME NEW s \in D
      PROVE  found[s] = (ClosesCycle(s) \/ (~Exhausted(graph, s) /\ found[Turn(graph, s)]))
  <2>1. found[s] = Finds(s) /\ Finds(s) \in BOOLEAN
    BY DEF Finds
  <2>2. CASE ClosesCycle(s)
    BY <1>1, <2>1, <2>2
  <2>3. CASE Exhausted(graph, s) /\ ~ClosesCycle(s)
    <3>1. ~Finds(s)
      BY <1>2, <2>3
    <3> QED
      BY <2>1, <2>3, <3>1
  <2>4. CASE Goes(graph, s)
    <3>1. Turn(graph, s) \in D
      BY <2>4 DEF D
    <3>2. found[Turn(graph, s)] = Finds(Turn(graph, s)) /\ Finds(Turn(graph, s)) \in BOOLEAN
      BY <3>1 DEF Finds
    <3>3. Finds(s) = Finds(Turn(graph, s))
      BY <1>2, <1>3, <2>1, <2>4, <3>2 DEF Goes
    <3>4. found[s] = found[Turn(graph, s)] /\ found[s] \in BOOLEAN
      BY <2>1, <3>2, <3>3
    <3> HIDE DEF found
    <3> QED
      BY <2>4, <3>4 DEF Goes
  <2> QED
    BY <2>2, <2>3, <2>4 DEF Goes
<1>5. Solves(found, graph)
  BY <1>4 DEF Solves, D
<1> QED
  BY <1>5

\* The list that is made of a set has every member of the set.
LEMMA SetToSeqLists ==
    ASSUME NEW S, IsFiniteSet(S)
    PROVE  /\ SetToSeq(S) \in Seq(S)
           /\ \A x \in S : \E i \in DOMAIN SetToSeq(S) : SetToSeq(S)[i] = x
<1> DEFINE n == Cardinality(S)
           f == SetToSeq(S)
<1>1. n \in Nat /\ ExistsBijection(1 .. n, S)
  BY FS_CardinalityType
<1>2. \E g \in [1 .. n -> S] : IsInjective(g)
  BY <1>1 DEF ExistsBijection, Bijection, Injection, IsInjective
<1>3. f \in [1 .. n -> S] /\ IsInjective(f)
  BY <1>2 DEF SetToSeq
<1>4. IsFiniteSet(1 .. n) /\ Cardinality(1 .. n) = n
  BY <1>1, FS_Interval
<1>5. f \in Surjection(1 .. n, S)
  <2>1. f \in Injection(1 .. n, S)
    BY <1>3 DEF Injection, IsInjective
  <2> HIDE DEF f
  <2> QED
    BY <1>4, <2>1, FS_Injection
<1> HIDE DEF f, n
<1>6. f \in Seq(S) /\ DOMAIN f = 1 .. n
  BY <1>1, <1>3
<1>7. \A x \in S : \E i \in 1 .. n : f[i] = x
  BY <1>5 DEF Surjection
<1> QED
  BY <1>6, <1>7 DEF f

\* What a set of frames for the members of a finite set is.
LEMMA FramesAreFinite ==
    ASSUME NEW X, IsFiniteSet(X)
    PROVE  IsFiniteSet({[node |-> d, left |-> FALSE] : d \in X})
<1> DEFINE T == {[node |-> d, left |-> FALSE] : d \in X}
           f == [d \in X |-> [node |-> d, left |-> FALSE]]
<1>1. f \in Surjection(X, T)
  BY DEF Surjection
<1> HIDE DEF f, T
<1>2. IsFiniteSet(T)
  BY <1>1, FS_Surjection
<1> QED
  BY <1>2 DEF T

\* A search, and where it stands.
IsSearch(graph, s) ==
    /\ IsGraph(graph)
    /\ s \in Searches(graph)

Frame(graph) == [node : DOMAIN graph, left : BOOLEAN]

\* What a search is made of.
LEMMA StackIsThere ==
    ASSUME NEW graph, NEW s, IsSearch(graph, s)
    PROVE  /\ s.stack \in Seq(Frame(graph)) /\ Len(s.stack) \in Nat
           /\ s.visiting \subseteq DOMAIN graph /\ s.visited \subseteq DOMAIN graph
           /\ \A i \in 1 .. Len(s.stack) : s.stack[i] \in Frame(graph)
<1>1. s.stack \in Seq(Frame(graph))
  BY DEF IsSearch, Searches, Frame
<1> QED
  BY <1>1, ElementOfSeq, LenProperties DEF IsSearch, Searches

\* A search that has begun has a top, and a rest one shorter.
LEMMA TopIsThere ==
    ASSUME NEW graph, NEW s, IsSearch(graph, s), s.stack # <<>>
    PROVE  /\ Len(s.stack) \in Nat \ {0}
           /\ Top(s) = s.stack[Len(s.stack)] /\ Top(s) \in Frame(graph)
           /\ Rest(s) \in Seq(Frame(graph)) /\ Len(Rest(s)) = Len(s.stack) - 1
           /\ \A i \in 1 .. Len(s.stack) - 1 : Rest(s)[i] = s.stack[i]
<1>1. s.stack \in Seq(Frame(graph)) /\ Len(s.stack) \in Nat \ {0}
      /\ \A i \in 1 .. Len(s.stack) : s.stack[i] \in Frame(graph)
  BY StackIsThere, EmptySeq
<1> DEFINE stack == s.stack
           n == Len(stack)
<1>2. n \in Nat \ {0} /\ \A i \in 1 .. n - 1 : stack[i] \in Frame(graph)
  BY <1>1
<1>3. /\ SubSeq(stack, 1, n - 1) \in Seq(Frame(graph))
      /\ Len(SubSeq(stack, 1, n - 1)) = (IF 1 <= n - 1 THEN (n - 1) - 1 + 1 ELSE 0)
      /\ \A i \in 1 .. (n - 1) - 1 + 1 : SubSeq(stack, 1, n - 1)[i] = stack[1 + i - 1]
  <2> HIDE DEF n, stack
  <2>1. 1 \in Int /\ n - 1 \in Int
    BY <1>2
  <2> QED
    BY <1>2, <2>1, SubSeqProperties
<1> HIDE DEF n, stack
<1>4. /\ Len(SubSeq(stack, 1, n - 1)) = n - 1
      /\ \A i \in 1 .. n - 1 : SubSeq(stack, 1, n - 1)[i] = stack[i]
  BY <1>2, <1>3
<1> QED
  BY <1>1, <1>3, <1>4 DEF Top, Rest, n, stack

\* What is pushed: a frame that has not been left for each dependency of the
\* node that has not been visited.
LEMMA PushedIsAll ==
    ASSUME NEW graph, NEW s, IsSearch(graph, s), s.stack # <<>>
    PROVE  /\ Pushed(graph, s) \in Seq(Frame(graph)) /\ Len(Pushed(graph, s)) \in Nat
           /\ \A i \in 1 .. Len(Pushed(graph, s)) :
                /\ Pushed(graph, s)[i] \in Frame(graph)
                /\ ~Pushed(graph, s)[i].left
                /\ Pushed(graph, s)[i].node \in graph[Top(s).node] \ s.visited
           /\ \A d \in graph[Top(s).node] \ s.visited :
                \E i \in 1 .. Len(Pushed(graph, s)) :
                    Pushed(graph, s)[i] = [node |-> d, left |-> FALSE]
<1> DEFINE X == graph[Top(s).node] \ s.visited
           F == {[node |-> d, left |-> FALSE] : d \in X}
           p == SetToSeq(F)
<1>1. X \subseteq DOMAIN graph /\ IsFiniteSet(DOMAIN graph)
  BY TopIsThere DEF IsSearch, IsGraph, Frame
<1>2. IsFiniteSet(F)
  <2>1. IsFiniteSet(X)
    BY <1>1, FS_Subset
  <2> HIDE DEF X
  <2> QED
    BY <2>1, FramesAreFinite
<1>3. F \subseteq Frame(graph)
  <2>1. ASSUME NEW d \in X PROVE [node |-> d, left |-> FALSE] \in Frame(graph)
    BY <1>1 DEF Frame
  <2> QED
    BY <2>1
<1>4. \A x \in F : ~x.left /\ x.node \in X
  OBVIOUS
<1>5. \A d \in X : [node |-> d, left |-> FALSE] \in F
  OBVIOUS
<1> HIDE DEF F, X
<1>6. p \in Seq(F) /\ \A x \in F : \E i \in DOMAIN p : p[i] = x
  BY <1>2, SetToSeqLists
<1>7. Pushed(graph, s) = p
  BY DEF Pushed, p, F, X
<1> HIDE DEF p
<1>8. Len(p) \in Nat /\ DOMAIN p = 1 .. Len(p) /\ \A i \in 1 .. Len(p) : p[i] \in F
  BY <1>6, ElementOfSeq, LenProperties
<1>9. p \in Seq(Frame(graph))
  BY <1>3, <1>6
<1>10. \A i \in 1 .. Len(p) : p[i] \in Frame(graph) /\ ~p[i].left /\ p[i].node \in X
  BY <1>3, <1>4, <1>8
<1>11. \A d \in X : \E i \in 1 .. Len(p) : p[i] = [node |-> d, left |-> FALSE]
  BY <1>5, <1>6, <1>8
<1> QED
  BY <1>7, <1>8, <1>9, <1>10, <1>11 DEF X

\* The four kinds of turns.
Begins(graph, s, t) ==
    /\ s.stack = <<>>
    /\ t.visiting = s.visiting /\ t.visited = s.visited
    /\ \E n \in DOMAIN graph \ s.visited : t.stack = <<[node |-> n, left |-> FALSE]>>

Leaves(graph, s, t) ==
    /\ s.stack # <<>> /\ Top(s).left
    /\ t.stack = Rest(s)
    /\ t.visiting = s.visiting \ {Top(s).node} /\ t.visited = s.visited \cup {Top(s).node}

Skips(graph, s, t) ==
    /\ s.stack # <<>> /\ ~Top(s).left /\ Top(s).node \in s.visited
    /\ t.stack = Rest(s) /\ t.visiting = s.visiting /\ t.visited = s.visited

Enters(graph, s, t) ==
    /\ s.stack # <<>> /\ ~Top(s).left /\ Top(s).node \notin s.visited \cup s.visiting
    /\ t.stack = (Rest(s) \o <<[node |-> Top(s).node, left |-> TRUE]>>) \o Pushed(graph, s)
    /\ t.visiting = s.visiting \cup {Top(s).node} /\ t.visited = s.visited

\* Every turn is of one of the four kinds.
LEMMA KindsOfTurns ==
    ASSUME NEW graph, NEW s, IsSearch(graph, s), Goes(graph, s)
    PROVE  /\ Turn(graph, s) = [stack |-> Turn(graph, s).stack,
                                visiting |-> Turn(graph, s).visiting,
                                visited |-> Turn(graph, s).visited]
           /\ \/ Begins(graph, s, Turn(graph, s)) \/ Leaves(graph, s, Turn(graph, s))
              \/ Skips(graph, s, Turn(graph, s)) \/ Enters(graph, s, Turn(graph, s))
<1>0. s = [stack |-> s.stack, visiting |-> s.visiting, visited |-> s.visited]
  BY DEF IsSearch, Searches
<1>1. CASE s.stack = <<>>
  <2>1. DOMAIN graph \ s.visited # {}
    BY <1>1, StackIsThere DEF Goes, Exhausted
  <2> QED
    BY <1>0, <1>1, <2>1 DEF Turn, Begins
<1>2. CASE s.stack # <<>> /\ Top(s).left
  BY <1>2 DEF Turn, Leaves
<1>3. CASE s.stack # <<>> /\ ~Top(s).left /\ Top(s).node \in s.visited
  BY <1>0, <1>3 DEF Turn, Skips
<1>4. CASE s.stack # <<>> /\ ~Top(s).left /\ Top(s).node \notin s.visited
  <2>1. Top(s).node \notin s.visiting
    BY <1>4 DEF Goes, ClosesCycle
  <2> QED
    BY <1>0, <1>4, <2>1 DEF Turn, Enters
<1> QED
  BY <1>1, <1>2, <1>3, <1>4

\* The stack after a node is entered: the node waits, with its dependencies above it.
LEMMA EnteredStack ==
    ASSUME NEW graph, NEW s, NEW t, IsSearch(graph, s), Enters(graph, s, t)
    PROVE  /\ t.stack \in Seq(Frame(graph))
           /\ Len(t.stack) = Len(s.stack) + Len(Pushed(graph, s))
           /\ \A i \in 1 .. Len(s.stack) - 1 : t.stack[i] = s.stack[i]
           /\ t.stack[Len(s.stack)] = [node |-> Top(s).node, left |-> TRUE]
           /\ \A i \in 1 .. Len(Pushed(graph, s)) :
                t.stack[Len(s.stack) + i] = Pushed(graph, s)[i]
<1> DEFINE F == Frame(graph)
           rest == Rest(s)
           n == Len(s.stack)
           p == Pushed(graph, s)
           left == [node |-> Top(s).node, left |-> TRUE]
<1>1. /\ n \in Nat \ {0} /\ rest \in Seq(F) /\ Len(rest) = n - 1
      /\ \A i \in 1 .. n - 1 : rest[i] = s.stack[i]
      /\ p \in Seq(F) /\ Len(p) \in Nat
  BY TopIsThere, PushedIsAll DEF Enters
<1>2. left \in F
  BY TopIsThere DEF Enters, Frame
<1>3. t.stack = (rest \o <<left>>) \o p
  BY DEF Enters
<1> HIDE DEF F, rest, n, p, left
<1> DEFINE one == <<left>>
<1>4. one \in Seq(F) /\ Len(one) = 1 /\ one[1] = left
  BY <1>2
<1> HIDE DEF one
<1> DEFINE u == rest \o one
<1>5. /\ u \in Seq(F) /\ Len(u) = Len(rest) + Len(one)
      /\ \A i \in 1 .. Len(rest) + Len(one) :
            u[i] = IF i <= Len(rest) THEN rest[i] ELSE one[i - Len(rest)]
  BY <1>1, <1>4, ConcatProperties
<1> HIDE DEF u
<1>6. Len(u) = n /\ (\A i \in 1 .. n - 1 : u[i] = rest[i]) /\ u[n] = left
  <2>1. Len(u) = n
    BY <1>1, <1>4, <1>5
  <2>2. ASSUME NEW i \in 1 .. n - 1 PROVE u[i] = rest[i]
    <3>1. i \in 1 .. Len(rest) + Len(one) /\ i <= Len(rest)
      BY <1>1, <1>4
    <3> QED
      BY <1>5, <3>1
  <2>3. u[n] = left
    <3>1. n \in 1 .. Len(rest) + Len(one) /\ ~(n <= Len(rest)) /\ n - Len(rest) = 1
      BY <1>1, <1>4
    <3>2. u[n] = one[n - Len(rest)]
      BY <1>5, <3>1
    <3> QED
      BY <1>4, <3>1, <3>2
  <2> QED
    BY <2>1, <2>2, <2>3
<1> DEFINE v == u \o p
<1>7. /\ v \in Seq(F) /\ Len(v) = Len(u) + Len(p)
      /\ \A i \in 1 .. Len(u) + Len(p) : v[i] = IF i <= Len(u) THEN u[i] ELSE p[i - Len(u)]
  BY <1>1, <1>5, ConcatProperties
<1>8. t.stack = v
  BY <1>3 DEF u, one
<1> HIDE DEF v
<1>9. ASSUME NEW i \in 1 .. n PROVE v[i] = u[i]
  <2>1. i \in 1 .. Len(u) + Len(p) /\ i <= Len(u)
    BY <1>1, <1>6
  <2> QED
    BY <1>7, <2>1
<1>10. ASSUME NEW i \in 1 .. Len(p) PROVE v[n + i] = p[i]
  <2>1. n + i \in 1 .. Len(u) + Len(p) /\ ~(n + i <= Len(u)) /\ (n + i) - Len(u) = i
    BY <1>1, <1>6
  <2> QED
    BY <1>7, <2>1
<1>11. (\A i \in 1 .. n - 1 : v[i] = s.stack[i]) /\ v[n] = left
  <2>1. ASSUME NEW i \in 1 .. n - 1 PROVE v[i] = s.stack[i]
    <3>1. i \in 1 .. n
      BY <1>1
    <3> QED
      BY <1>1, <1>6, <1>9, <3>1
  <2>2. n \in 1 .. n
    BY <1>1
  <2> QED
    BY <1>6, <1>9, <2>1, <2>2
<1> QED
  BY <1>6, <1>7, <1>8, <1>10, <1>11 DEF F, n, p, left

\* A record of the three parts is a search.
LEMMA SearchOfParts ==
    ASSUME NEW graph, IsGraph(graph),
           NEW stack \in Seq(Frame(graph)),
           NEW visiting \in SUBSET DOMAIN graph, NEW visited \in SUBSET DOMAIN graph,
           NEW t, t = [stack |-> stack, visiting |-> visiting, visited |-> visited]
    PROVE  IsSearch(graph, t)
BY DEF IsSearch, Searches, Frame

\* A turn of a search is a search.
LEMMA TurnIsSearch ==
    ASSUME NEW graph, NEW s, IsSearch(graph, s), Goes(graph, s)
    PROVE  IsSearch(graph, Turn(graph, s))
<1> DEFINE t == Turn(graph, s)
           Fits == t.stack \in Seq(Frame(graph)) /\ t.visiting \subseteq DOMAIN graph
                     /\ t.visited \subseteq DOMAIN graph
<1>1. /\ t = [stack |-> t.stack, visiting |-> t.visiting, visited |-> t.visited]
      /\ Begins(graph, s, t) \/ Leaves(graph, s, t) \/ Skips(graph, s, t)
           \/ Enters(graph, s, t)
  BY KindsOfTurns
<1> HIDE DEF t
<1>2. s.visiting \subseteq DOMAIN graph /\ s.visited \subseteq DOMAIN graph
  BY StackIsThere
<1>3. ASSUME Begins(graph, s, t) PROVE Fits
  <2>1. PICK n \in DOMAIN graph : t.stack = <<[node |-> n, left |-> FALSE]>>
    BY <1>3 DEF Begins
  <2>2. [node |-> n, left |-> FALSE] \in Frame(graph)
    BY DEF Frame
  <2>3. t.stack \in Seq(Frame(graph))
    BY <2>1, <2>2
  <2> QED
    BY <1>1, <1>2, <1>3, <2>3 DEF Begins
<1>4. ASSUME Leaves(graph, s, t) PROVE Fits
  <2>1. Top(s).node \in DOMAIN graph /\ t.stack \in Seq(Frame(graph))
    BY <1>4, TopIsThere DEF Leaves, Frame
  <2> QED
    BY <1>1, <1>2, <1>4, <2>1 DEF Leaves
<1>5. ASSUME Skips(graph, s, t) PROVE Fits
  <2>1. t.stack \in Seq(Frame(graph))
    BY <1>5, TopIsThere DEF Skips
  <2> QED
    BY <1>1, <1>2, <1>5, <2>1 DEF Skips
<1>6. ASSUME Enters(graph, s, t) PROVE Fits
  <2>1. t.stack \in Seq(Frame(graph))
    BY <1>6, EnteredStack
  <2>2. Top(s).node \in DOMAIN graph
    BY <1>6, TopIsThere DEF Enters, Frame
  <2> QED
    BY <1>1, <1>2, <1>6, <2>1, <2>2 DEF Enters
<1>7. Fits
  BY <1>1, <1>3, <1>4, <1>5, <1>6
<1>8. IsGraph(graph)
  BY DEF IsSearch
<1>9. IsSearch(graph, t)
  BY <1>1, <1>7, <1>8, SearchOfParts
<1> QED
  BY <1>9 DEF t

\* What is neither visited nor being visited.
Fresh(graph, s) == DOMAIN graph \ (s.visiting \cup s.visited)

\* Of a finite graph, finitely many nodes are new to the search.
LEMMA FreshIsCounted ==
    ASSUME NEW graph, NEW s, IsSearch(graph, s)
    PROVE  IsFiniteSet(Fresh(graph, s)) /\ Cardinality(Fresh(graph, s)) \in Nat
<1>1. IsFiniteSet(DOMAIN graph) /\ Fresh(graph, s) \subseteq DOMAIN graph
  BY DEF IsSearch, IsGraph, Fresh
<1> QED
  BY <1>1, FS_Subset, FS_CardinalityType

\* No turn makes more of it, and one that enters a node makes less.
LEMMA FreshGetsLess ==
    ASSUME NEW graph, NEW s, IsSearch(graph, s), Goes(graph, s)
    PROVE  /\ Cardinality(Fresh(graph, Turn(graph, s))) <= Cardinality(Fresh(graph, s))
           /\ Enters(graph, s, Turn(graph, s)) =>
                Cardinality(Fresh(graph, Turn(graph, s))) < Cardinality(Fresh(graph, s))
<1> DEFINE t == Turn(graph, s)
<1>1. Begins(graph, s, t) \/ Leaves(graph, s, t) \/ Skips(graph, s, t) \/ Enters(graph, s, t)
  BY KindsOfTurns
<1>2. /\ IsFiniteSet(Fresh(graph, s)) /\ Cardinality(Fresh(graph, s)) \in Nat
      /\ IsFiniteSet(Fresh(graph, t)) /\ Cardinality(Fresh(graph, t)) \in Nat
  BY TurnIsSearch, FreshIsCounted
<1> HIDE DEF t
<1>3. Fresh(graph, t) \subseteq Fresh(graph, s)
  BY <1>1 DEF Begins, Leaves, Skips, Enters, Fresh
<1>4. ASSUME Enters(graph, s, t) PROVE Fresh(graph, t) # Fresh(graph, s)
  <2>1. Top(s).node \in Fresh(graph, s)
    BY <1>4, TopIsThere DEF Enters, Fresh, Frame
  <2>2. Top(s).node \notin Fresh(graph, t)
    BY <1>4 DEF Enters, Fresh
  <2> QED
    BY <2>1, <2>2
<1>5. /\ Cardinality(Fresh(graph, t)) <= Cardinality(Fresh(graph, s))
      /\ Cardinality(Fresh(graph, s)) = Cardinality(Fresh(graph, t)) =>
            Fresh(graph, s) = Fresh(graph, t)
  BY <1>2, <1>3, FS_Subset
<1> QED
  BY <1>2, <1>4, <1>5 DEF t

\* The search comes to an end: no set of searches that go on is closed under turns.
LEMMA SearchEnds ==
    ASSUME NEW graph, NEW C,
           \A s \in C : IsSearch(graph, s) /\ Goes(graph, s) /\ Turn(graph, s) \in C
    PROVE  C = {}
<1> SUFFICES ASSUME C # {} PROVE FALSE
  OBVIOUS
<1> DEFINE u(s) == Cardinality(Fresh(graph, s))
           l(s) == Len(s.stack)
           t(s) == Turn(graph, s)
<1>1. \A s \in C : u(s) \in Nat /\ l(s) \in Nat
  BY FreshIsCounted, StackIsThere
<1>2. \A s \in C : u(t(s)) <= u(s) /\ (Enters(graph, s, t(s)) => u(t(s)) < u(s))
  BY FreshGetsLess
<1>3. \A s \in C : t(s) \in C
  OBVIOUS
<1>4. \A s \in C : \/ Begins(graph, s, t(s)) \/ Leaves(graph, s, t(s))
                   \/ Skips(graph, s, t(s)) \/ Enters(graph, s, t(s))
  BY KindsOfTurns
<1>5. \A s \in C : Leaves(graph, s, t(s)) \/ Skips(graph, s, t(s)) => l(t(s)) < l(s)
  BY TopIsThere DEF Leaves, Skips
<1>6. ASSUME NEW s \in C, Begins(graph, s, t(s))
      PROVE  Enters(graph, t(s), t(t(s)))
  <2>1. PICK n \in DOMAIN graph \ s.visited : t(s).stack = <<[node |-> n, left |-> FALSE]>>
    BY <1>6 DEF Begins
  <2>2. /\ t(s).stack # <<>> /\ Top(t(s)) = [node |-> n, left |-> FALSE]
        /\ n \notin t(s).visited
    BY <1>6, <2>1 DEF Top, Begins
  <2> HIDE DEF t
  <2>3. ~Begins(graph, t(s), t(t(s))) /\ ~Leaves(graph, t(s), t(t(s)))
        /\ ~Skips(graph, t(s), t(t(s)))
    BY <2>2 DEF Begins, Leaves, Skips
  <2> QED
    BY <1>3, <1>4, <2>3
<1> HIDE DEF u, l, t
<1> DEFINE U == {u(s) : s \in C}
<1>7. PICK m \in U : \A x \in U : m <= x
  BY <1>1, MinNat
<1> DEFINE L == {l(s) : s \in {r \in C : u(r) = m}}
<1>8. PICK k \in L : \A x \in L : k <= x
  <2>1. L # {} /\ L \subseteq Nat
    BY <1>1, <1>7
  <2> HIDE DEF L
  <2> QED
    BY <2>1, MinNat
<1>9. PICK s \in C : u(s) = m /\ l(s) = k
  BY <1>8
<1>10. \A r \in C : m <= u(r) /\ (u(r) = m => k <= l(r))
  BY <1>7, <1>8
<1> HIDE DEF U, L
<1>11. t(s) \in C /\ u(t(s)) = m
  BY <1>1, <1>2, <1>3, <1>9, <1>10
<1>12. ~Enters(graph, s, t(s)) /\ ~Leaves(graph, s, t(s)) /\ ~Skips(graph, s, t(s))
  BY <1>1, <1>2, <1>5, <1>9, <1>10, <1>11
<1>13. Enters(graph, t(s), t(t(s)))
  BY <1>4, <1>6, <1>12
<1>14. u(t(t(s))) < m /\ t(t(s)) \in C
  BY <1>2, <1>3, <1>11, <1>13
<1> QED
  BY <1>1, <1>10, <1>11, <1>14

-----------------------------------------------------------------------------
\* Statements that can be read from the front: each rests on earlier ones only.
IsOrder(graph, S, place) ==
    /\ place \in [S -> 1 .. Cardinality(S)]
    /\ \A m, n \in S : place[m] = place[n] => m = n
    /\ \A n \in S : \A d \in graph[n] : d \in S /\ place[d] < place[n]

Ordered(graph, S) == \E place : IsOrder(graph, S, place)

\* What a node that is left depends on is visited or still above it.
Waits(graph, s) ==
    \A i \in 1 .. Len(s.stack) : s.stack[i].left =>
        \A d \in graph[s.stack[i].node] :
            d \in s.visited \/ \E j \in i + 1 .. Len(s.stack) : s.stack[j].node = d

Start0 == [stack |-> <<>>, visiting |-> {}, visited |-> {}]

\* The verdict is that of a solution of the recursive equations at the empty search.
LEMMA HasCycleSearches ==
    ASSUME NEW graph, IsGraph(graph)
    PROVE  \E search : Solves(search, graph) /\ HasCycle(graph) = search[Start0]
<1>1. \A s \in Searches(graph) : Goes(graph, s) => Turn(graph, s) \in Searches(graph)
  BY TurnIsSearch DEF IsSearch
<1>2. \E search : Solves(search, graph)
  BY <1>1, SearchExists
<1> DEFINE found == CHOOSE search : Solves(search, graph)
<1>3. Solves(found, graph)
  BY <1>2
<1>4. HasCycle(graph) = found[Start0]
  BY DEF HasCycle, found, Solves, Start0
<1> HIDE DEF found
<1> QED
  BY <1>3, <1>4

\* What an order says, as a fact that a search can use.
Good(graph, s) == Waits(graph, s) /\ Ordered(graph, s.visited)

\* A node all of whose dependencies are placed can be placed after them.
LEMMA OrderGrows ==
    ASSUME NEW graph, NEW S, NEW n, IsFiniteSet(S), Ordered(graph, S), graph[n] \subseteq S
    PROVE  Ordered(graph, S \cup {n})
<1>1. PICK place : IsOrder(graph, S, place)
  BY DEF Ordered
<1>2. CASE n \in S
  <2>1. S \cup {n} = S
    BY <1>2
  <2> QED
    BY <2>1
<1>3. CASE n \notin S
  <2> DEFINE c == Cardinality(S)
             longer == [m \in S \cup {n} |-> IF m = n THEN c + 1 ELSE place[m]]
  <2>1. c \in Nat /\ Cardinality(S \cup {n}) = c + 1
    BY <1>3, FS_CardinalityType, FS_AddElement
  <2> HIDE DEF c
  <2>2. \A m \in S : place[m] \in 1 .. c
    BY <1>1 DEF IsOrder, c
  <2>3. longer[n] = c + 1 /\ \A m \in S : longer[m] = place[m]
    BY <1>3
  <2>4. longer \in [S \cup {n} -> 1 .. c + 1]
    BY <2>1, <2>2
  <2> HIDE DEF longer
  <2>5. \A l, m \in S \cup {n} : longer[l] = longer[m] => l = m
    <3>1. \A m \in S : longer[m] # c + 1
      BY <2>1, <2>2, <2>3
    <3>2. \A l, m \in S : longer[l] = longer[m] => l = m
      BY <1>1, <2>3 DEF IsOrder
    <3> QED
      BY <2>3, <3>1, <3>2
  <2>6. ASSUME NEW m \in S \cup {n}, NEW d \in graph[m]
        PROVE  d \in S \cup {n} /\ longer[d] < longer[m]
    <3>1. CASE m = n
      <4>1. d \in S /\ longer[d] \in 1 .. c /\ longer[m] = c + 1
        BY <2>2, <2>3, <3>1
      <4> QED
        BY <2>1, <4>1
    <3>2. CASE m \in S
      <4>1. d \in S /\ place[d] < place[m]
        BY <1>1, <3>2 DEF IsOrder
      <4> QED
        BY <2>3, <3>2, <4>1
    <3> QED
      BY <3>1, <3>2
  <2>7. IsOrder(graph, S \cup {n}, longer)
    BY <2>1, <2>4, <2>5, <2>6 DEF IsOrder
  <2> QED
    BY <2>7 DEF Ordered
<1> QED
  BY <1>2, <1>3

\* A turn keeps it so.
LEMMA TurnWaits ==
    ASSUME NEW graph, NEW s, IsSearch(graph, s), Goes(graph, s), Waits(graph, s)
    PROVE  Waits(graph, Turn(graph, s))
<1> DEFINE t == Turn(graph, s)
           n == Len(s.stack)
<1>1. Begins(graph, s, t) \/ Leaves(graph, s, t) \/ Skips(graph, s, t) \/ Enters(graph, s, t)
  BY KindsOfTurns
<1>2. n \in Nat
  BY StackIsThere
<1> HIDE DEF t, n
<1>3. CASE Begins(graph, s, t)
  <2>1. PICK m : t.stack = <<[node |-> m, left |-> FALSE]>>
    BY <1>3 DEF Begins
  <2>2. Len(t.stack) = 1 /\ ~t.stack[1].left
    BY <2>1
  <2> QED
    BY <2>2 DEF Waits, t
<1>4. CASE Leaves(graph, s, t) \/ Skips(graph, s, t)
  <2>1. /\ n \in Nat \ {0} /\ Len(t.stack) = n - 1
        /\ \A i \in 1 .. n - 1 : t.stack[i] = s.stack[i]
        /\ Top(s) = s.stack[n]
    BY <1>4, TopIsThere DEF Leaves, Skips, n
  <2>2. s.visited \subseteq t.visited /\ Top(s).node \in t.visited
    BY <1>4 DEF Leaves, Skips
  <2>3. ASSUME NEW i \in 1 .. n - 1, t.stack[i].left, NEW d \in graph[t.stack[i].node],
               d \notin t.visited
        PROVE  \E j \in i + 1 .. n - 1 : t.stack[j].node = d
    <3>1. i \in 1 .. n /\ s.stack[i].left /\ d \in graph[s.stack[i].node] /\ d \notin s.visited
      BY <2>1, <2>2, <2>3
    <3>2. PICK j \in i + 1 .. n : s.stack[j].node = d
      BY <3>1 DEF Waits, n
    <3>3. j # n
      BY <2>1, <2>2, <2>3, <3>2
    <3>4. j \in i + 1 .. n - 1 /\ j \in 1 .. n - 1
      BY <2>1, <3>2, <3>3
    <3> QED
      BY <2>1, <3>2, <3>4
  <2> QED
    BY <2>1, <2>3 DEF Waits, t
<1>5. CASE Enters(graph, s, t)
  <2> DEFINE p == Pushed(graph, s)
             k == Len(p)
  <2>1. n \in Nat \ {0} /\ Top(s) = s.stack[n]
    BY <1>5, TopIsThere DEF Enters, n
  <2>2. /\ Len(t.stack) = n + k
        /\ \A i \in 1 .. n - 1 : t.stack[i] = s.stack[i]
        /\ t.stack[n] = [node |-> Top(s).node, left |-> TRUE]
        /\ \A i \in 1 .. k : t.stack[n + i] = p[i]
    BY <1>5, EnteredStack DEF n
  <2>3. /\ k \in Nat
        /\ \A i \in 1 .. k : ~p[i].left
        /\ \A d \in graph[Top(s).node] \ s.visited :
                \E i \in 1 .. k : p[i] = [node |-> d, left |-> FALSE]
    BY <1>5, PushedIsAll DEF Enters
  <2> HIDE DEF p, k
  <2>4. t.visited = s.visited /\ ~Top(s).left
    BY <1>5 DEF Enters
  <2>5. ASSUME NEW i \in 1 .. n + k, t.stack[i].left, NEW d \in graph[t.stack[i].node],
               d \notin t.visited
        PROVE  \E j \in i + 1 .. n + k : t.stack[j].node = d
    <3>1. CASE i < n
      <4>1. i \in 1 .. n /\ i \in 1 .. n - 1
        BY <2>1, <3>1
      <4>2. s.stack[i].left /\ d \in graph[s.stack[i].node] /\ d \notin s.visited
        BY <2>2, <2>4, <2>5, <4>1
      <4>3. PICK j \in i + 1 .. n : s.stack[j].node = d
        BY <4>1, <4>2 DEF Waits, n
      <4>4. j \in i + 1 .. n + k /\ (j \in 1 .. n - 1 \/ j = n)
        BY <2>1, <2>3, <4>1, <4>3
      <4>5. t.stack[j].node = s.stack[j].node
        BY <2>1, <2>2, <4>4
      <4> QED
        BY <4>3, <4>4, <4>5
    <3>2. CASE i = n
      <4>1. d \in graph[Top(s).node] \ s.visited
        BY <2>2, <2>4, <2>5, <3>2
      <4>2. PICK j \in 1 .. k : p[j] = [node |-> d, left |-> FALSE]
        BY <2>3, <4>1
      <4>3. n + j \in i + 1 .. n + k /\ t.stack[n + j].node = d
        BY <2>1, <2>2, <2>3, <3>2, <4>2
      <4> QED
        BY <4>3
    <3>3. CASE i > n
      <4>1. i - n \in 1 .. k /\ n + (i - n) = i
        BY <2>1, <2>3, <3>3
      <4>2. ~t.stack[i].left
        BY <2>2, <2>3, <4>1
      <4> QED
        BY <2>5, <4>2
    <3> QED
      BY <2>1, <3>1, <3>2, <3>3
  <2> QED
    BY <2>2, <2>5 DEF Waits, t
<1> QED
  BY <1>1, <1>3, <1>4, <1>5

\* A turn leaves what is visited ordered.
LEMMA TurnIsOrdered ==
    ASSUME NEW graph, NEW s, IsSearch(graph, s), Goes(graph, s), Good(graph, s)
    PROVE  Ordered(graph, Turn(graph, s).visited)
<1> DEFINE t == Turn(graph, s)
<1>1. Begins(graph, s, t) \/ Leaves(graph, s, t) \/ Skips(graph, s, t) \/ Enters(graph, s, t)
  BY KindsOfTurns
<1> HIDE DEF t
<1>2. CASE Leaves(graph, s, t)
  <2>1. Len(s.stack) \in Nat \ {0} /\ Top(s) = s.stack[Len(s.stack)] /\ Top(s).left
    BY <1>2, TopIsThere DEF Leaves
  <2>2. Len(s.stack) \in 1 .. Len(s.stack)
        /\ ~ \E j \in Len(s.stack) + 1 .. Len(s.stack) : s.stack[j].node = s.stack[j].node
    BY <2>1
  <2>3. graph[Top(s).node] \subseteq s.visited
    BY <2>1, <2>2 DEF Good, Waits
  <2>4. IsFiniteSet(s.visited)
    BY StackIsThere, FS_Subset DEF IsSearch, IsGraph
  <2>5. Ordered(graph, s.visited \cup {Top(s).node})
    BY <2>3, <2>4, OrderGrows DEF Good
  <2> QED
    BY <1>2, <2>5 DEF Leaves, t
<1>3. CASE t.visited = s.visited
  BY <1>3 DEF Good, t
<1> QED
  BY <1>1, <1>2, <1>3 DEF Begins, Skips, Enters

\* A graph in which the search finds no cycle can be ordered.
LEMMA NoCycleIsOrdered ==
    ASSUME NEW graph, IsGraph(graph), ~HasCycle(graph)
    PROVE  Ordered(graph, DOMAIN graph)
<1> SUFFICES ASSUME ~Ordered(graph, DOMAIN graph) PROVE FALSE
  OBVIOUS
<1>1. PICK search : Solves(search, graph) /\ HasCycle(graph) = search[Start0]
  BY HasCycleSearches
<1> DEFINE C == {s \in Searches(graph) : Good(graph, s) /\ ~search[s]}
<1>2. ASSUME NEW s \in C
      PROVE  IsSearch(graph, s) /\ Goes(graph, s) /\ Turn(graph, s) \in C
  <2>1. s \in Searches(graph) /\ IsSearch(graph, s) /\ Good(graph, s) /\ ~search[s]
    BY DEF IsSearch
  <2>2. ~(ClosesCycle(s) \/ (~Exhausted(graph, s) /\ search[Turn(graph, s)]))
    BY <1>1, <2>1 DEF Solves
  <2>3. ~Exhausted(graph, s)
    BY <2>1 DEF Exhausted, Good
  <2>4. Goes(graph, s) /\ ~search[Turn(graph, s)]
    BY <2>2, <2>3 DEF Goes
  <2>5. Turn(graph, s) \in Searches(graph) /\ Good(graph, Turn(graph, s))
    BY <2>1, <2>4, TurnIsSearch, TurnWaits, TurnIsOrdered DEF IsSearch, Good
  <2> QED
    BY <2>1, <2>4, <2>5
<1> HIDE DEF C
<1>3. C = {}
  BY <1>2, SearchEnds
<1>4. Start0 \in Searches(graph) /\ Start0.stack = <<>> /\ Start0.visited = {}
  BY EmptySeq DEF Start0, Searches
<1>5. Waits(graph, Start0)
  BY <1>4 DEF Waits
<1>6. Ordered(graph, {})
  <2>1. IsOrder(graph, {}, [n \in {} |-> 1])
    BY DEF IsOrder
  <2> QED
    BY <2>1 DEF Ordered
<1>7. Start0 \in C
  BY <1>1, <1>4, <1>5, <1>6 DEF C, Good
<1> QED
  BY <1>3, <1>7

\* Above a node that is left are nodes with a smaller place only, and what is
\* being visited is left.
Descends(s, place) ==
    \A i, j \in 1 .. Len(s.stack) :
        i < j /\ s.stack[i].left => place[s.stack[j].node] < place[s.stack[i].node]

Visits(s) ==
    \A n \in s.visiting : \E i \in 1 .. Len(s.stack) : s.stack[i] = [node |-> n, left |-> TRUE]

\* A frame is its node and its mark.
LEMMA FrameIsItsParts ==
    ASSUME NEW graph, NEW f \in Frame(graph)
    PROVE  f = [node |-> f.node, left |-> f.left] /\ f.left \in BOOLEAN /\ f.node \in DOMAIN graph
BY DEF Frame

\* A turn keeps every visiting node on the stack, marked.
LEMMA TurnVisits ==
    ASSUME NEW graph, NEW s, IsSearch(graph, s), Goes(graph, s), Visits(s)
    PROVE  Visits(Turn(graph, s))
<1> DEFINE t == Turn(graph, s)
           n == Len(s.stack)
<1>1. Begins(graph, s, t) \/ Leaves(graph, s, t) \/ Skips(graph, s, t) \/ Enters(graph, s, t)
  BY KindsOfTurns
<1>2. n \in Nat
  BY StackIsThere
<1> HIDE DEF t, n
<1>3. CASE Begins(graph, s, t)
  <2>1. Len(s.stack) = 0 /\ t.visiting = s.visiting
    BY <1>3, EmptySeq DEF Begins
  <2>2. t.visiting = {}
    BY <2>1 DEF Visits
  <2> QED
    BY <2>2 DEF Visits, t
<1>4. CASE Leaves(graph, s, t) \/ Skips(graph, s, t)
  <2>1. /\ n \in Nat \ {0} /\ Len(t.stack) = n - 1
        /\ \A i \in 1 .. n - 1 : t.stack[i] = s.stack[i]
        /\ Top(s) = s.stack[n]
    BY <1>4, TopIsThere DEF Leaves, Skips, n
  <2>2. t.visiting \subseteq s.visiting /\ (Top(s).left => Top(s).node \notin t.visiting)
    BY <1>4 DEF Leaves, Skips
  <2>3. ASSUME NEW m \in t.visiting
        PROVE  \E i \in 1 .. n - 1 : t.stack[i] = [node |-> m, left |-> TRUE]
    <3>1. PICK i \in 1 .. n : s.stack[i] = [node |-> m, left |-> TRUE]
      BY <2>2 DEF Visits, n
    <3>2. i # n
      BY <2>1, <2>2, <3>1
    <3>3. i \in 1 .. n - 1
      BY <2>1, <3>1, <3>2
    <3> QED
      BY <2>1, <3>1, <3>3
  <2> QED
    BY <2>1, <2>3 DEF Visits, t
<1>5. CASE Enters(graph, s, t)
  <2> DEFINE k == Len(Pushed(graph, s))
  <2>1. n \in Nat \ {0} /\ k \in Nat /\ Top(s) = s.stack[n]
    BY <1>5, TopIsThere, PushedIsAll DEF Enters, n
  <2>2. /\ Len(t.stack) = n + k
        /\ \A i \in 1 .. n - 1 : t.stack[i] = s.stack[i]
        /\ t.stack[n] = [node |-> Top(s).node, left |-> TRUE]
    BY <1>5, EnteredStack DEF n
  <2> HIDE DEF k
  <2>3. t.visiting = s.visiting \cup {Top(s).node} /\ ~Top(s).left
    BY <1>5 DEF Enters
  <2>4. ASSUME NEW m \in t.visiting
        PROVE  \E i \in 1 .. n + k : t.stack[i] = [node |-> m, left |-> TRUE]
    <3>1. CASE m = Top(s).node
      <4>1. n \in 1 .. n + k
        BY <2>1
      <4> QED
        BY <2>2, <3>1, <4>1
    <3>2. CASE m \in s.visiting
      <4>1. PICK i \in 1 .. n : s.stack[i] = [node |-> m, left |-> TRUE]
        BY <3>2 DEF Visits, n
      <4>2. i # n
        BY <2>1, <2>3, <4>1
      <4>3. i \in 1 .. n - 1 /\ i \in 1 .. n + k
        BY <2>1, <4>1, <4>2
      <4> QED
        BY <2>2, <4>1, <4>3
    <3> QED
      BY <2>3, <3>1, <3>2
  <2> QED
    BY <2>2, <2>4 DEF Visits, t
<1> QED
  BY <1>1, <1>3, <1>4, <1>5

\* A turn keeps the stack descending along the order.
LEMMA TurnDescends ==
    ASSUME NEW graph, NEW place, IsOrder(graph, DOMAIN graph, place),
           NEW s, IsSearch(graph, s), Goes(graph, s), Descends(s, place)
    PROVE  Descends(Turn(graph, s), place)
<1> DEFINE t == Turn(graph, s)
           n == Len(s.stack)
<1>1. Begins(graph, s, t) \/ Leaves(graph, s, t) \/ Skips(graph, s, t) \/ Enters(graph, s, t)
  BY KindsOfTurns
<1>2. n \in Nat
  BY StackIsThere
<1> HIDE DEF t, n
<1>3. CASE Begins(graph, s, t)
  <2>1. Len(t.stack) = 1
    BY <1>3 DEF Begins
  <2> QED
    BY <2>1 DEF Descends, t
<1>4. CASE Leaves(graph, s, t) \/ Skips(graph, s, t)
  <2>1. /\ n \in Nat \ {0} /\ Len(t.stack) = n - 1
        /\ \A i \in 1 .. n - 1 : t.stack[i] = s.stack[i]
    BY <1>4, TopIsThere DEF Leaves, Skips, n
  <2>2. \A i \in 1 .. n - 1 : i \in 1 .. n
    BY <2>1
  <2> QED
    BY <2>1, <2>2 DEF Descends, t, n
<1>5. CASE Enters(graph, s, t)
  <2> DEFINE p == Pushed(graph, s)
             k == Len(p)
             top == Top(s).node
  <2>1. n \in Nat \ {0} /\ Top(s) = s.stack[n] /\ top \in DOMAIN graph
    BY <1>5, TopIsThere, FrameIsItsParts DEF Enters, n
  <2>2. /\ Len(t.stack) = n + k
        /\ \A i \in 1 .. n - 1 : t.stack[i] = s.stack[i]
        /\ t.stack[n] = [node |-> top, left |-> TRUE]
        /\ \A i \in 1 .. k : t.stack[n + i] = p[i]
    BY <1>5, EnteredStack DEF n
  <2>3. k \in Nat /\ \A i \in 1 .. k : ~p[i].left /\ p[i].node \in graph[top]
    BY <1>5, PushedIsAll DEF Enters
  <2> HIDE DEF p, k
  <2>4. \A m \in DOMAIN graph : place[m] \in Nat
    BY FS_CardinalityType DEF IsOrder, IsSearch, IsGraph
  <2>5. \A m \in graph[top] : place[m] < place[top] /\ m \in DOMAIN graph
    BY <2>1 DEF IsOrder
  <2>6. \A i \in 1 .. n : s.stack[i].node \in DOMAIN graph
    BY StackIsThere, FrameIsItsParts DEF n
  <2>7. ASSUME NEW i \in 1 .. n + k, NEW j \in 1 .. n + k, i < j, t.stack[i].left
        PROVE  place[t.stack[j].node] < place[t.stack[i].node]
    <3>1. i \in 1 .. n
      <4>1. CASE i > n
        <5>1. i - n \in 1 .. k /\ n + (i - n) = i
          BY <2>1, <2>3, <4>1
        <5> QED
          BY <2>2, <2>3, <2>7, <5>1
      <4> QED
        BY <2>1, <4>1
    <3>2. t.stack[i].node = s.stack[i].node /\ (i # n => s.stack[i].left)
      <4>1. i \in 1 .. n - 1 \/ i = n
        BY <2>1, <3>1
      <4> QED
        BY <2>1, <2>2, <2>7, <4>1
    <3>3. CASE j \in 1 .. n
      <4>1. i \in 1 .. n - 1 /\ (j \in 1 .. n - 1 \/ j = n)
        BY <2>1, <2>7, <3>1, <3>3
      <4>2. t.stack[j].node = s.stack[j].node
        BY <2>1, <2>2, <4>1
      <4>3. i # n
        BY <2>1, <4>1
      <4> QED
        BY <2>7, <3>1, <3>2, <3>3, <4>2, <4>3 DEF Descends, n
    <3>4. CASE j > n
      <4>1. j - n \in 1 .. k /\ n + (j - n) = j
        BY <2>1, <2>3, <3>4
      <4>2. t.stack[j].node \in graph[top]
        BY <2>2, <2>3, <4>1
      <4>3. place[t.stack[j].node] < place[top] /\ t.stack[j].node \in DOMAIN graph
        BY <2>5, <4>2
      <4>4. CASE i = n
        BY <2>2, <4>3, <4>4
      <4>5. CASE i # n
        <5>1. i < n /\ n \in 1 .. n
          BY <2>1, <3>1, <4>5
        <5>2. place[top] < place[s.stack[i].node]
          BY <2>1, <3>1, <3>2, <4>5, <5>1 DEF Descends, n
        <5>3. /\ place[t.stack[j].node] \in Nat /\ place[top] \in Nat
              /\ place[s.stack[i].node] \in Nat
          BY <2>1, <2>4, <2>6, <3>1, <4>3
        <5> QED
          BY <3>2, <4>3, <5>2, <5>3
      <4> QED
        BY <4>4, <4>5
    <3> QED
      BY <2>1, <3>3, <3>4
  <2> QED
    BY <2>2, <2>7 DEF Descends, t
<1> QED
  BY <1>1, <1>3, <1>4, <1>5

\* In a graph that can be ordered the search finds no cycle.
LEMMA OrderedHasNoCycle ==
    ASSUME NEW graph, IsGraph(graph), Ordered(graph, DOMAIN graph)
    PROVE  ~HasCycle(graph)
<1> SUFFICES ASSUME HasCycle(graph) PROVE FALSE
  OBVIOUS
<1>1. PICK search : Solves(search, graph) /\ HasCycle(graph) = search[Start0]
  BY HasCycleSearches
<1>2. PICK place : IsOrder(graph, DOMAIN graph, place)
  BY DEF Ordered
<1> DEFINE C == {s \in Searches(graph) : Visits(s) /\ Descends(s, place) /\ search[s]}
<1>3. ASSUME NEW s \in C
      PROVE  IsSearch(graph, s) /\ Goes(graph, s) /\ Turn(graph, s) \in C
  <2>1. /\ s \in Searches(graph) /\ IsSearch(graph, s)
        /\ Visits(s) /\ Descends(s, place) /\ search[s]
    BY DEF IsSearch
  <2>2. ClosesCycle(s) \/ (~Exhausted(graph, s) /\ search[Turn(graph, s)])
    BY <1>1, <2>1 DEF Solves
  <2>3. ~ClosesCycle(s)
    <3>1. SUFFICES ASSUME ClosesCycle(s) PROVE FALSE
      OBVIOUS
    <3>2. Len(s.stack) \in Nat \ {0} /\ Top(s) = s.stack[Len(s.stack)]
          /\ Top(s).node \in DOMAIN graph
      BY <2>1, <3>1, TopIsThere, FrameIsItsParts DEF ClosesCycle
    <3>3. PICK i \in 1 .. Len(s.stack) : s.stack[i] = [node |-> Top(s).node, left |-> TRUE]
      BY <2>1, <3>1 DEF ClosesCycle, Visits
    <3>4. i # Len(s.stack)
      BY <3>1, <3>2, <3>3 DEF ClosesCycle
    <3>5. i < Len(s.stack) /\ Len(s.stack) \in 1 .. Len(s.stack)
      BY <3>2, <3>3, <3>4
    <3>6. place[Top(s).node] < place[Top(s).node]
      BY <2>1, <3>2, <3>3, <3>5 DEF Descends
    <3>7. place[Top(s).node] \in Nat
      BY <1>2, <3>2, FS_CardinalityType DEF IsOrder, IsGraph
    <3> QED
      BY <3>6, <3>7
  <2>4. Goes(graph, s) /\ search[Turn(graph, s)]
    BY <2>2, <2>3 DEF Goes
  <2>5. Turn(graph, s) \in Searches(graph)
    BY <2>1, <2>4, TurnIsSearch DEF IsSearch
  <2>6. Visits(Turn(graph, s)) /\ Descends(Turn(graph, s), place)
    BY <1>2, <2>1, <2>4, TurnVisits, TurnDescends
  <2> QED
    BY <2>1, <2>4, <2>5, <2>6
<1> HIDE DEF C
<1>4. C = {}
  BY <1>3, SearchEnds
<1>5. /\ Start0 \in Searches(graph) /\ Start0.stack = <<>> /\ Len(Start0.stack) = 0
      /\ Start0.visiting = {}
  BY EmptySeq DEF Start0, Searches
<1>6. Visits(Start0) /\ Descends(Start0, place)
  BY <1>5 DEF Visits, Descends
<1>7. Start0 \in C
  BY <1>1, <1>5, <1>6 DEF C
<1> QED
  BY <1>4, <1>7

\* The search for cycles is exact: on a graph with finitely many nodes, all of
\* whose edges lead to nodes, it finds a cycle exactly when the nodes cannot be
\* put into an order in which each depends on earlier ones only (_has_cycle).
THEOREM SearchIsExact ==
    ASSUME NEW graph, IsGraph(graph)
    PROVE  HasCycle(graph) <=> ~Ordered(graph, DOMAIN graph)
BY NoCycleIsOrdered, OrderedHasNoCycle

-----------------------------------------------------------------------------
\* The theory of a run.

Statements == Populated("complete_theory").statements

\* They depend on what was written.
LEMMA StatementsStay ==
    ASSUME UNCHANGED <<run, mode, method, written>>
    PROVE  Statements' = Statements
BY DEF Statements, Populated, PopulateSources, PopulateMethods, PopulateFindings,
   PopulateIssues, FillId

\* What a theory submits has its statements in a list.
LEMMA StatementsAreList ==
    ASSUME Inv, Submitted, mode \in TheoryModes
    PROVE  IsList(Statements)
<1> DEFINE d == written["complete_theory"]
<1>1. "complete_theory" \in DOMAIN written
  BY DEF Submitted, Outputs, LiteratureModes, MethodModes, TheoryModes, EmpiricalModes
<1>2. "statements" \in DOMAIN d /\ IsList(d.statements)
  BY <1>1, WriteAssumption DEF Inv, WorkInv
<1>3. Populated("complete_theory") = [d EXCEPT !.identity = method]
  BY DEF Populated
<1> HIDE DEF d
<1>4. Statements = d.statements
  BY <1>2, <1>3 DEF Statements
<1> QED
  BY <1>2, <1>4

\* What the validation of a theory that is accepted has seen.
LEMMA AcceptedTheory ==
    ASSUME mode \in TheoryModes, Blocking(PhaseFindings) = {}
    PROVE  /\ ~Repeated(Statements)
           /\ \A i \in DOMAIN Statements : Statements[i].rests \subseteq Ids(Statements)
           /\ ~HasCycle(Dependencies(Statements))
<1> DEFINE t == Populated("complete_theory")
           rests == UNION {t.statements[i]["rests"] : i \in DOMAIN t.statements}
           found == TheoryFindings(t, Populated("theory_candidate").unstamped,
                                   Populated("analyst_audit").unstamped)
<1>1. found = PhaseFindings
  <2>1. mode \notin LiteratureModes /\ mode \notin MethodModes /\ mode \notin EmpiricalModes
    BY DEF LiteratureModes, MethodModes, TheoryModes, EmpiricalModes
  <2> HIDE DEF found
  <2>2. PhaseFindings = TheoryFindings(Populated("complete_theory"),
                                       Populated("theory_candidate").unstamped,
                                       Populated("analyst_audit").unstamped)
    BY <2>1 DEF PhaseFindings
  <2> QED
    BY <2>2 DEF found
<1>2. found \subseteq Attention
  BY <1>1 DEF Blocking
<1>3. /\ "p3.duplicate_statement_id" \notin found
      /\ "p3.unknown_statement_dependency" \notin found
      /\ "p3.statement_dependency_cycle" \notin found
  BY <1>2 DEF Attention
<1> HIDE DEF t
<1>4. ReferenceFindings(t) \subseteq found
  BY DEF TheoryFindings
<1>5. ~Repeated(t.statements)
  <2>1. When(Repeated(t.statements), "p3.duplicate_statement_id") \subseteq found
    BY <1>4 DEF ReferenceFindings
  <2> QED
    BY <1>3, <2>1, NotFound
<1>6. ~Unresolved(rests, Ids(t.statements))
  <2>1. When(Unresolved(rests, Ids(t.statements)), "p3.unknown_statement_dependency")
            \subseteq found
    BY <1>4 DEF ReferenceFindings
  <2> QED
    BY <1>3, <2>1, NotFound
<1>7. ~HasCycle(Dependencies(t.statements))
  <2>1. CircleFindings(t.statements) \subseteq found
    BY DEF TheoryFindings
  <2> QED
    BY <1>3, <2>1, NotFound DEF CircleFindings
<1>8. Statements = t.statements
  BY DEF Statements, t
<1>9. \A i \in DOMAIN t.statements : t.statements[i].rests \subseteq Ids(t.statements)
  BY <1>6 DEF Unresolved
<1> QED
  BY <1>5, <1>7, <1>8, <1>9

\* A list has at most one id for each of its positions.
LEMMA IdsAreCounted ==
    ASSUME NEW items, IsList(items)
    PROVE  /\ IsFiniteSet(Ids(items)) /\ Cardinality(Ids(items)) \in Nat
           /\ Cardinality(Ids(items)) <= Len(items)
<1> DEFINE f == [i \in 1 .. Len(items) |-> items[i].id]
<1>1. Len(items) \in Nat /\ DOMAIN items = 1 .. Len(items)
  BY ListIsSeq
<1>2. f \in Surjection(1 .. Len(items), Ids(items))
  <2>1. \A i \in 1 .. Len(items) : f[i] = items[i].id /\ f[i] \in Ids(items)
    BY <1>1 DEF Ids
  <2>2. \A n \in Ids(items) : \E i \in 1 .. Len(items) : f[i] = n
    BY <1>1 DEF Ids
  <2>3. f \in [1 .. Len(items) -> Ids(items)]
    BY <2>1
  <2> HIDE DEF f
  <2> QED
    BY <2>2, <2>3 DEF Surjection
<1> HIDE DEF f
<1>3. IsFiniteSet(1 .. Len(items)) /\ Cardinality(1 .. Len(items)) = Len(items)
  <2>1. PICK n \in Nat : n = Len(items)
    BY <1>1
  <2>2. /\ IsFiniteSet(1 .. n)
        /\ Cardinality(1 .. n) = IF 1 > n THEN 0 ELSE n - 1 + 1
    <3>1. 1 \in Int /\ n \in Int
      OBVIOUS
    <3> QED
      BY <3>1, FS_Interval, Zenon
  <2>3. (IF 1 > n THEN 0 ELSE n - 1 + 1) = n
    OBVIOUS
  <2> QED
    BY <2>1, <2>2, <2>3
<1> QED
  BY <1>1, <1>2, <1>3, FS_Surjection, FS_CardinalityType

\* When no id is repeated, an id has the dependencies of its statement.
LEMMA DependenciesAreThose ==
    ASSUME NEW items, IsList(items), ~Repeated(items), NEW i \in DOMAIN items
    PROVE  Dependencies(items)[items[i].id] = items[i].rests \cap Ids(items)
<1> DEFINE n == items[i].id
           LastOf(l) == /\ items[l].id = n
                        /\ \A j \in DOMAIN items : items[j].id = n => j <= l
           last == CHOOSE l \in DOMAIN items : LastOf(l)
<1>1. Len(items) \in Nat /\ DOMAIN items = 1 .. Len(items)
  BY ListIsSeq
<1>2. \A j \in DOMAIN items : items[j].id = n => j = i
  <2>1. \A j, k \in DOMAIN items : j < k => items[j].id # items[k].id
    BY DEF Repeated
  <2> QED
    BY <1>1, <2>1
<1>3. LastOf(i)
  BY <1>1, <1>2
<1>4. \A l \in DOMAIN items : LastOf(l) => l = i
  BY <1>2
<1> HIDE DEF LastOf
<1>5. last = i
  BY <1>3, <1>4
<1>6. n \in Ids(items)
  BY DEF Ids
<1>7. Dependencies(items)[n] = items[last].rests \cap Ids(items)
  BY <1>6 DEF Dependencies, LastOf
<1> QED
  BY <1>5, <1>7

\* The dependencies of a list are a finite graph on its ids.
LEMMA DependenciesAreGraph ==
    ASSUME NEW items, IsList(items)
    PROVE  IsGraph(Dependencies(items)) /\ DOMAIN Dependencies(items) = Ids(items)
<1>1. DOMAIN Dependencies(items) = Ids(items)
  BY DEF Dependencies
<1>2. \A n \in Ids(items) : Dependencies(items)[n] \subseteq Ids(items)
  BY DEF Dependencies
<1> QED
  BY <1>1, <1>2, IdsAreCounted DEF IsGraph

\* A list of statements without a cycle is read from the front.
CanBeRead(items) ==
    \E place \in [Ids(items) -> DOMAIN items] :
        /\ \A m, n \in Ids(items) : place[m] = place[n] => m = n
        /\ \A i \in DOMAIN items : \A n \in items[i].rests :
                n \in Ids(items) /\ place[n] < place[items[i].id]

\* A list without a cycle, a repetition or an unknown id can be read from the front.
LEMMA ReadFromTheFront ==
    ASSUME NEW items, IsList(items), ~Repeated(items),
           \A i \in DOMAIN items : items[i].rests \subseteq Ids(items),
           ~HasCycle(Dependencies(items))
    PROVE  CanBeRead(items)
<1> DEFINE graph == Dependencies(items)
           c == Cardinality(Ids(items))
<1>1. IsGraph(graph) /\ DOMAIN graph = Ids(items)
  BY DependenciesAreGraph
<1>2. Ordered(graph, Ids(items))
  BY <1>1, NoCycleIsOrdered
<1>3. PICK place : IsOrder(graph, Ids(items), place)
  BY <1>2 DEF Ordered
<1>4. c \in Nat /\ Len(items) \in Nat /\ c <= Len(items) /\ DOMAIN items = 1 .. Len(items)
  BY IdsAreCounted, ListIsSeq
<1>5. \A i \in DOMAIN items : graph[items[i].id] = items[i].rests
  BY DependenciesAreThose
<1> HIDE DEF graph
<1>6. place \in [Ids(items) -> 1 .. c]
  BY <1>3 DEF IsOrder
<1> HIDE DEF c
<1>7. place \in [Ids(items) -> DOMAIN items]
  BY <1>4, <1>6
<1>8. \A m, n \in Ids(items) : place[m] = place[n] => m = n
  BY <1>3 DEF IsOrder
<1>9. ASSUME NEW i \in DOMAIN items, NEW n \in items[i].rests
      PROVE  n \in Ids(items) /\ place[n] < place[items[i].id]
  <2>1. items[i].id \in Ids(items) /\ n \in graph[items[i].id]
    BY <1>5 DEF Ids
  <2> QED
    BY <1>3, <2>1 DEF IsOrder
<1> QED
  BY <1>7, <1>8, <1>9 DEF CanBeRead

\* A theory that is published can be read from the front: whatever statements
\* the theorist writes and corrects, the validation refuses those that rest on
\* each other in a circle of any length, on a repeated id or on a statement of
\* another record (_has_cycle, _require_resolved_ids, _unique_ids).
THEOREM TheoriesCanAlwaysBeRead == Spec => []TheoryCanBeRead
<1> DEFINE Readable == pc = "published" /\ mode \in TheoryModes => CanBeRead(Statements)
<1>1. Init => Readable
  BY DEF Init
<1>2. Inv /\ Readable /\ [Next]_vars => Readable'
  <2> SUFFICES ASSUME Inv, Readable, [Next]_vars PROVE Readable'
    OBVIOUS
  <2>1. CASE Publish
    <3> SUFFICES ASSUME mode' \in TheoryModes PROVE CanBeRead(Statements')
      BY DEF CanBeRead, Ids
    <3>1. UNCHANGED <<run, mode, method, written>> /\ mode \in TheoryModes /\ Submitted
          /\ Blocking(PhaseFindings) = {}
      BY <2>1 DEF Publish
    <3>2. CanBeRead(Statements)
      BY <3>1, StatementsAreList, AcceptedTheory, ReadFromTheFront
    <3> QED
      BY <3>1, <3>2, StatementsStay
  <2>2. CASE UNCHANGED vars
    <3> SUFFICES ASSUME pc' = "published", mode' \in TheoryModes PROVE CanBeRead(Statements')
      BY DEF CanBeRead, Ids
    <3>1. UNCHANGED <<run, pc, mode, method, written>>
      BY <2>2 DEF vars, work
    <3> QED
      BY <3>1, StatementsStay
  <2>3. CASE pc' # "published"
    BY <2>3
  <2>4. Publish \/ UNCHANGED vars \/ pc' # "published"
    BY DEF Next, Start, Close, Reject, Correct
  <2> QED
    BY <2>1, <2>2, <2>3, <2>4
<1>3. Readable => TheoryCanBeRead
  BY DEF TheoryCanBeRead, CanBeRead, Statements
<1> QED
  BY <1>1, <1>2, <1>3, InitInv, NextInv, PTL DEF Spec

=============================================================================
