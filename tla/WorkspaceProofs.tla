----------------------------- MODULE WorkspaceProofs -----------------------------
(* Proofs about the document of the studio. Every step of it is a move of a    *)
(* history -- an edit that lengthens the past, an undo, a redo, a change in    *)
(* place, a document that is opened -- and a move keeps the documents sound    *)
(* and is a step of the Timeline. Rows of the account are one document's for   *)
(* as long as they are there, and so is what a call under way will say of one. *)
EXTENDS Workspace, SequenceTheorems, FiniteSetTheorems, TLAPS

-----------------------------------------------------------------------------
(* The documents, and the history of one.                                      *)

Documents ==
    [doc : Nat, parts : SUBSET Numbers, twins : SUBSET Ids, wires : SUBSET SUBSET Numbers,
     text : {0, 1}, look : {0, 1}]

\* The documents there may be, once something has strayed and before.
Fit(s) == {p \in Documents : s \/ Sound(p)}

Versions(p, s) == {q \in Fit(s) : q.doc = p.doc}

History(h, s) ==
    /\ h = [past |-> h.past, project |-> h.project, future |-> h.future]
    /\ h.project \in Fit(s)
    /\ h.past \in Seq(Versions(h.project, s)) /\ h.future \in Seq(Versions(h.project, s))
    /\ Len(h.past) + Len(h.future) <= HistoryLimit

LEMMA LaterFits == ASSUME NEW s, NEW t, s => t PROVE Fit(s) \subseteq Fit(t)
BY DEF Fit

LEMMA EmptyIsFit == ASSUME NEW d \in Nat, NEW s
                    PROVE  EmptyProject(d) \in Fit(s) /\ EmptyProject(d).doc = d
<1>1. EmptyProject(d) \in Documents
  BY DEF EmptyProject, Documents
<1> QED
  BY <1>1 DEF EmptyProject, Fit, Sound

LEMMA LibraryIsFit == ASSUME NEW d \in Nat, NEW s
                      PROVE  LibraryProject(d) \in Fit(s) /\ LibraryProject(d).doc = d
<1>1. 1 \in Numbers /\ 2 \in Numbers
  BY EditorAssumption DEF Numbers
<1> DEFINE p == EmptyProject(d)
           S == {1, 2}
           W == {S}
<1>2. p \in Documents /\ p.doc = d /\ p.twins = {}
  BY EmptyIsFit DEF Fit, EmptyProject
<1>3. LibraryProject(d) = [p EXCEPT !.parts = S, !.wires = W]
  BY DEF LibraryProject
<1>4. S \in SUBSET Numbers /\ W \in SUBSET SUBSET Numbers /\ \A w \in W : w \subseteq S
  BY <1>1
<1> HIDE DEF p, S, W
<1>5. LibraryProject(d) \in Documents
  BY <1>2, <1>3, <1>4 DEF Documents
<1>6. LibraryProject(d).parts = S /\ LibraryProject(d).wires = W /\ LibraryProject(d).twins = {}
      /\ LibraryProject(d).doc = d
  BY <1>2, <1>3 DEF Documents
<1> QED
  BY <1>4, <1>5, <1>6 DEF Fit, Sound

LEMMA ReadIsFit ==
    ASSUME NEW s, NEW p \in Fit(s)
    PROVE  /\ UniqueIds(p) \in Fit(s) /\ UniqueIds(p).doc = p.doc
           /\ UniqueIds(UniqueIds(p)) = UniqueIds(p)
<1> DEFINE more == p.parts \cup {i + MaxId : i \in p.twins}
<1>1. p \in Documents
  BY DEF Fit
<1>2. \A i \in Ids : i + MaxId \in Numbers
  BY EditorAssumption DEF Ids, Numbers
<1>3. more \in SUBSET Numbers
  BY <1>1, <1>2 DEF Documents
<1>4. UniqueIds(p) = [doc |-> p.doc, parts |-> more, twins |-> {}, wires |-> p.wires, text |-> p.text, look |-> p.look]
  <2>1. UniqueIds(p) = [p EXCEPT !.parts = more, !.twins = {}]
    BY DEF UniqueIds
  <2> HIDE DEF more
  <2> QED
    BY <1>1, <2>1 DEF Documents
<1>5. UniqueIds(p) \in Documents
  BY <1>1, <1>3, <1>4 DEF Documents
<1>6. p.parts \subseteq more
  OBVIOUS
<1> HIDE DEF more
<1>7. UniqueIds(p) \in Fit(s)
  BY <1>4, <1>5, <1>6 DEF Fit, Sound
<1> DEFINE u == [doc |-> p.doc, parts |-> more, twins |-> {}, wires |-> p.wires, text |-> p.text, look |-> p.look]
<1>8. UniqueIds(u) = u
  <2>1. {i + MaxId : i \in u.twins} = {}
    OBVIOUS
  <2> QED
    BY <2>1 DEF UniqueIds
<1> QED
  BY <1>4, <1>7, <1>8

LEMMA MutationsFit ==
    ASSUME NEW s, NEW p \in Fit(s)
    PROVE  /\ \A i \in Ids : s \/ i \notin p.parts =>
                 WithPart(p, i) \in Fit(s) /\ WithPart(p, i).doc = p.doc
           /\ \A gone : WithoutParts(p, gone) \in Fit(s) /\ WithoutParts(p, gone).doc = p.doc
           /\ \A w \in SUBSET Numbers : s \/ w \subseteq p.parts =>
                 WithWire(p, w) \in Fit(s) /\ WithWire(p, w).doc = p.doc
           /\ \A ws \in SUBSET p.wires :
                 [p EXCEPT !.wires = ws] \in Fit(s) /\ [p EXCEPT !.wires = ws].doc = p.doc
           /\ Rearranged(p) \in Fit(s) /\ Rearranged(p).doc = p.doc
           /\ Typed(p) \in Fit(s) /\ Typed(p).doc = p.doc
<1>0. p \in Documents /\ Ids \subseteq Numbers
  BY EditorAssumption DEF Fit, Ids, Numbers
<1> USE <1>0 DEF Fit, Sound, Documents
<1>1. ASSUME NEW i \in Ids, s \/ i \notin p.parts
      PROVE  WithPart(p, i) \in Fit(s) /\ WithPart(p, i).doc = p.doc
  <2> DEFINE q == WithPart(p, i)
             ps == p.parts \cup {i}
             ts == p.twins \cup ({i} \cap p.parts)
  <2>1. ps \in SUBSET Numbers /\ ts \in SUBSET Ids
    OBVIOUS
  <2>2. q = [p EXCEPT !.parts = ps, !.twins = ts]
    BY DEF WithPart
  <2>a. p.parts \subseteq ps
    OBVIOUS
  <2>b. i \notin p.parts => ts = p.twins
    OBVIOUS
  <2> HIDE DEF q, ps, ts
  <2>3. q \in Documents /\ q.doc = p.doc
    BY <2>1, <2>2
  <2>4. ASSUME ~s PROVE Sound(q)
    BY <1>1, <2>2, <2>4, <2>a, <2>b
  <2>5. q \in Fit(s)
    BY <2>3, <2>4
  <2> QED
    BY <2>3, <2>5 DEF q
<1>2. ASSUME NEW gone PROVE WithoutParts(p, gone) \in Fit(s) /\ WithoutParts(p, gone).doc = p.doc
  BY DEF WithoutParts
<1>3. ASSUME NEW w \in SUBSET Numbers, s \/ w \subseteq p.parts
      PROVE  WithWire(p, w) \in Fit(s) /\ WithWire(p, w).doc = p.doc
  BY <1>3 DEF WithWire
<1>4. ASSUME NEW ws \in SUBSET p.wires
      PROVE  [p EXCEPT !.wires = ws] \in Fit(s) /\ [p EXCEPT !.wires = ws].doc = p.doc
  BY <1>4
<1>5. Rearranged(p) \in Fit(s) /\ Rearranged(p).doc = p.doc
  BY DEF Rearranged
<1>6. Typed(p) \in Fit(s) /\ Typed(p).doc = p.doc
  BY DEF Typed
<1> QED
  BY <1>1, <1>2, <1>3, <1>4, <1>5, <1>6

WithCopies(p, new, ws) ==
    [p EXCEPT !.parts = @ \cup new, !.twins = @ \cup (new \cap p.parts), !.wires = @ \cup ws]

LEMMA CopiesFit ==
    ASSUME NEW s, NEW p \in Fit(s), NEW new \in SUBSET Ids, new \cap p.parts = {},
           NEW ws, \A w \in ws : w \subseteq new
    PROVE  WithCopies(p, new, ws) \in Fit(s) /\ WithCopies(p, new, ws).doc = p.doc
<1> DEFINE q == WithCopies(p, new, ws)
           ps == p.parts \cup new
           ts == p.twins \cup (new \cap p.parts)
           vs == p.wires \cup ws
<1>0. p \in Documents /\ Ids \subseteq Numbers
  BY EditorAssumption DEF Fit, Ids, Numbers
<1>1. ps \in SUBSET Numbers /\ vs \in SUBSET SUBSET Numbers /\ ts = p.twins
  BY <1>0 DEF Documents
<1>2. q = [p EXCEPT !.parts = ps, !.twins = ts, !.wires = vs]
  BY DEF WithCopies
<1>3. p.parts \subseteq ps /\ \A w \in vs : w \in p.wires \/ w \subseteq ps
  OBVIOUS
<1> HIDE DEF q, ps, ts, vs
<1>4. q \in Documents /\ q.doc = p.doc
  BY <1>0, <1>1, <1>2 DEF Documents
<1>5. ~s => Sound(q)
  BY <1>0, <1>1, <1>2, <1>3 DEF Fit, Sound, Documents
<1>6. q \in Fit(s)
  BY <1>4, <1>5 DEF Fit
<1> QED
  BY <1>4, <1>6 DEF q

\* The newest of a sequence are the end of it.
LEMMA NewestAre ==
    ASSUME NEW S, NEW q \in Seq(S)
    PROVE  /\ Newest(q) \in Seq(S)
           /\ Len(Newest(q)) = IF Len(q) > HistoryLimit THEN HistoryLimit ELSE Len(q)
           /\ \A i \in 1 .. Len(Newest(q)) : Newest(q)[i] = q[i + Len(q) - Len(Newest(q))]
<1>1. Len(q) \in Nat /\ \A i \in 1 .. Len(q) : q[i] \in S
  BY LenProperties, ElementOfSeq
<1>2. CASE Len(q) > HistoryLimit
  <2> DEFINE m == Len(q) - HistoryLimit + 1
  <2>1. m \in Int /\ Len(q) \in Int /\ m >= 1
    BY <1>1, <1>2, EditorAssumption
  <2>2. \A i \in m .. Len(q) : q[i] \in S
    BY <1>1, <2>1
  <2>3. Newest(q) = SubSeq(q, m, Len(q))
    BY <1>2 DEF Newest
  <2> HIDE DEF m
  <2>4. /\ SubSeq(q, m, Len(q)) \in Seq(S)
        /\ Len(SubSeq(q, m, Len(q))) = IF m <= Len(q) THEN Len(q) - m + 1 ELSE 0
        /\ \A i \in 1 .. Len(q) - m + 1 : SubSeq(q, m, Len(q))[i] = q[m + i - 1]
    BY <2>1, <2>2, SubSeqProperties
  <2>5. m = Len(q) - HistoryLimit + 1
    BY DEF m
  <2>6. Len(Newest(q)) = HistoryLimit
    BY <2>1, <2>3, <2>4, <2>5, EditorAssumption
  <2>7. ASSUME NEW i \in 1 .. HistoryLimit
        PROVE  Newest(q)[i] = q[i + Len(q) - HistoryLimit]
    <3>1. m + i - 1 = i + Len(q) - HistoryLimit /\ i \in 1 .. Len(q) - m + 1
      BY <1>1, <2>5, EditorAssumption
    <3> QED
      BY <2>3, <2>4, <3>1
  <2> QED
    BY <1>2, <2>3, <2>4, <2>6, <2>7
<1>3. CASE ~(Len(q) > HistoryLimit)
  BY <1>1, <1>3 DEF Newest
<1> QED
  BY <1>2, <1>3

\* Remembering several states one after another is remembering all of them.
LEMMA NewestOfNewest ==
    ASSUME NEW S, NEW q \in Seq(S), NEW x \in S
    PROVE  Newest(Append(Newest(q), x)) = Newest(Append(q, x))
<1> DEFINE a == Append(Newest(q), x)
           b == Append(q, x)
<1>1. Newest(q) \in Seq(S) /\ Len(q) \in Nat /\ Len(Newest(q)) \in Nat /\ HistoryLimit \in Nat
  BY NewestAre, LenProperties, EditorAssumption
<1>2. /\ Len(Newest(q)) = IF Len(q) > HistoryLimit THEN HistoryLimit ELSE Len(q)
      /\ \A i \in 1 .. Len(Newest(q)) : Newest(q)[i] = q[i + Len(q) - Len(Newest(q))]
  BY NewestAre
<1>3. /\ a \in Seq(S) /\ Len(a) = Len(Newest(q)) + 1 /\ a[Len(Newest(q)) + 1] = x
      /\ \A i \in 1 .. Len(Newest(q)) : a[i] = Newest(q)[i]
  BY <1>1, AppendProperties
<1>4. /\ b \in Seq(S) /\ Len(b) = Len(q) + 1 /\ b[Len(q) + 1] = x
      /\ \A i \in 1 .. Len(q) : b[i] = q[i]
  BY <1>1, AppendProperties
<1> HIDE DEF a, b
<1>5. /\ Newest(a) \in Seq(S) /\ Len(Newest(a)) = IF Len(a) > HistoryLimit THEN HistoryLimit ELSE Len(a)
      /\ \A i \in 1 .. Len(Newest(a)) : Newest(a)[i] = a[i + Len(a) - Len(Newest(a))]
  BY <1>3, NewestAre
<1>6. /\ Newest(b) \in Seq(S) /\ Len(Newest(b)) = IF Len(b) > HistoryLimit THEN HistoryLimit ELSE Len(b)
      /\ \A i \in 1 .. Len(Newest(b)) : Newest(b)[i] = b[i + Len(b) - Len(Newest(b))]
  BY <1>4, NewestAre
<1>7. Len(Newest(a)) = Len(Newest(b))
  BY <1>1, <1>2, <1>3, <1>4, <1>5, <1>6
<1>8. ASSUME NEW i \in 1 .. Len(a) PROVE a[i] = b[i + Len(b) - Len(a)]
  <2>0. Len(a) = Len(Newest(q)) + 1 /\ Len(b) = Len(q) + 1
    BY <1>3, <1>4
  <2>1. CASE i = Len(Newest(q)) + 1
    <3>1. i + Len(b) - Len(a) = Len(q) + 1
      BY <1>1, <2>0, <2>1
    <3> QED
      BY <1>3, <1>4, <2>1, <3>1
  <2>2. CASE i # Len(Newest(q)) + 1
    <3>1. i \in 1 .. Len(Newest(q)) /\ i + Len(b) - Len(a) = i + Len(q) - Len(Newest(q))
      BY <1>1, <2>0, <2>2
    <3>2. i + Len(q) - Len(Newest(q)) \in 1 .. Len(q)
      BY <1>1, <1>2, <3>1
    <3> QED
      BY <1>2, <1>3, <1>4, <3>1, <3>2
  <2> QED
    BY <2>1, <2>2
<1>9. \A i \in 1 .. Len(Newest(a)) : Newest(a)[i] = Newest(b)[i]
  <2> SUFFICES ASSUME NEW i \in 1 .. Len(Newest(a)) PROVE Newest(a)[i] = Newest(b)[i]
    OBVIOUS
  <2>0. Len(a) \in Nat /\ Len(b) \in Nat /\ Len(Newest(a)) \in Nat /\ Len(Newest(a)) <= Len(a)
    BY <1>1, <1>3, <1>4, <1>5, LenProperties
  <2>1. i + Len(a) - Len(Newest(a)) \in 1 .. Len(a)
    BY <2>0
  <2>2. Newest(a)[i] = b[(i + Len(a) - Len(Newest(a))) + Len(b) - Len(a)]
    BY <1>5, <1>8, <2>1
  <2>3. (i + Len(a) - Len(Newest(a))) + Len(b) - Len(a) = i + Len(b) - Len(Newest(b))
    BY <2>0, <1>7
  <2> QED
    BY <1>6, <1>7, <2>2, <2>3
<1>10. Newest(a) = Newest(b)
  BY <1>5, <1>6, <1>7, <1>9, SeqEqual
<1> QED
  BY <1>10 DEF a, b

-----------------------------------------------------------------------------
(* What an edit makes of a history: a move of it.                              *)

\* What a step makes of the history h: it leaves it, puts the states it went
\* through behind it, retypes the text, goes back or forth, or opens a document.
Lengthens(h, g, s) ==
    \E mids \in Seq(Versions(h.project, s)) :
        /\ mids # <<>> /\ mids[1] = h.project
        /\ g = [past |-> Newest(h.past \o mids), project |-> g.project, future |-> <<>>]

Moves(h, g, s) ==
    /\ g.project \in Fit(s)
    /\ \/ g = h
       \/ /\ g.project.doc = h.project.doc
          /\ \/ Lengthens(h, g, s)
             \/ g = [past |-> h.past, project |-> g.project, future |-> h.future]
       \/ h.past # <<>> /\ g = Undone(h)
       \/ h.future # <<>> /\ g = Redone(h)
       \/ g = [past |-> <<>>, project |-> g.project, future |-> <<>>]

LEMMA HistoryLater ==
    ASSUME NEW s, NEW t, s => t, NEW h, History(h, s)
    PROVE  History(h, t) /\ h.project \in Versions(h.project, t)
<1>1. Versions(h.project, s) \subseteq Versions(h.project, t)
  BY LaterFits DEF Versions
<1>2. h.past \in Seq(Versions(h.project, t)) /\ h.future \in Seq(Versions(h.project, t))
  BY <1>1, SeqMonotonic DEF History
<1>3. h.project \in Fit(t)
  BY LaterFits DEF History
<1> QED
  BY <1>2, <1>3 DEF History, Versions

LEMMA EditedMoves ==
    ASSUME NEW s, NEW h, History(h, s), NEW p \in Fit(s), p.doc = h.project.doc
    PROVE  Moves(h, Edited(h, p), s)
<1> DEFINE g == Edited(h, p)
           mids == <<h.project>>
           V == Versions(h.project, s)
<1>1. h.past \in Seq(V) /\ h.project \in V
  BY HistoryLater DEF History
<1>2. Append(h.past, h.project) = h.past \o mids
  BY <1>1, AppendIsConcat
<1>3. mids \in Seq(V) /\ mids # <<>> /\ mids[1] = h.project
  <2> HIDE DEF V
  <2> QED
    BY <1>1
<1>4. g = [past |-> Newest(h.past \o mids), project |-> p, future |-> <<>>]
  BY <1>2 DEF Edited
<1> HIDE DEF g, mids
<1>5. g.project = p
  BY <1>4
<1>6. Lengthens(h, g, s)
  BY <1>3, <1>4, <1>5 DEF Lengthens
<1> QED
  BY <1>5, <1>6 DEF Moves, g

LEMMA EditedTwiceMoves ==
    ASSUME NEW s, NEW h, History(h, s), NEW p \in Fit(s), p.doc = h.project.doc,
           NEW q \in Fit(s), q.doc = h.project.doc
    PROVE  Moves(h, Edited(Edited(h, p), q), s)
<1> DEFINE g == Edited(Edited(h, p), q)
           V == Versions(h.project, s)
           one == <<h.project>>
           two == <<p>>
           mids == one \o two
<1>1. h.past \in Seq(V) /\ h.project \in V /\ p \in V
  BY HistoryLater DEF History, Versions
<1> HIDE DEF V
<1>2. one \in Seq(V) /\ one # <<>> /\ one[1] = h.project /\ Len(one) = 1 /\ two \in Seq(V) /\ Len(two) = 1
  BY <1>1
<1> HIDE DEF one, two
<1>3. mids \in Seq(V) /\ mids # <<>> /\ mids[1] = h.project
  BY <1>2, ConcatProperties
<1>4. Append(Append(h.past, h.project), p) = h.past \o mids
  <2>1. Append(h.past, h.project) = h.past \o one
    BY <1>1, AppendIsConcat DEF one
  <2>2. h.past \o one \in Seq(V)
    BY <1>1, <1>2, ConcatProperties
  <2>3. Append(h.past \o one, p) = (h.past \o one) \o two
    BY <1>1, <2>2, AppendIsConcat DEF two
  <2>4. h.past \in Seq(V) /\ one \in Seq(V) /\ two \in Seq(V)
    BY <1>1, <1>2
  <2> DEFINE x == h.past
  <2>5. x \in Seq(V)
    BY <2>4
  <2> HIDE DEF x
  <2>6. (x \o one) \o two = x \o (one \o two)
    BY <2>4, <2>5, ConcatAssociative
  <2> QED
    BY <2>1, <2>3, <2>6, Zenon DEF x
<1>5. Newest(Append(Newest(Append(h.past, h.project)), p)) = Newest(h.past \o mids)
  <2>1. Append(h.past, h.project) \in Seq(V)
    BY <1>1, AppendProperties
  <2> QED
    BY <1>1, <1>4, <2>1, NewestOfNewest
<1>6. g = [past |-> Newest(h.past \o mids), project |-> q, future |-> <<>>]
  BY <1>5 DEF Edited
<1> HIDE DEF g, mids
<1>7. g.project = q
  BY <1>6
<1>8. Lengthens(h, g, s)
  BY <1>3, <1>6, <1>7 DEF Lengthens, V
<1> QED
  BY <1>7, <1>8 DEF Moves, g

LEMMA OrderIsASequence ==
    ASSUME NEW S, IsFiniteSet(S), S # {}
    PROVE  SetToSeq(S) \in Seq(S) /\ Len(SetToSeq(S)) \in Nat \ {0}
<1>1. Cardinality(S) \in Nat /\ ExistsBijection(1 .. Cardinality(S), S) /\ Cardinality(S) # 0
  BY FS_CardinalityType, FS_EmptySet
<1>2. \E f \in [1 .. Cardinality(S) -> S] : IsInjective(f)
  BY <1>1 DEF ExistsBijection, Bijection, Injection
<1>3. SetToSeq(S) \in [1 .. Cardinality(S) -> S]
  BY <1>2 DEF SetToSeq
<1>4. SetToSeq(S) \in Seq(S)
  BY <1>1, <1>3, SeqDef
<1>5. Len(SetToSeq(S)) = Cardinality(S)
  BY <1>1, <1>3, <1>4, LenProperties
<1> QED
  BY <1>1, <1>4, <1>5

LEMMA UnpluggedMoves ==
    ASSUME NEW s, NEW h, History(h, s), NEW cut \in SUBSET h.project.wires, cut # {}
    PROVE  Moves(h, Unplugged(h, cut), s)
<1> DEFINE order == SetToSeq(cut)
           after(n) == [h.project EXCEPT !.wires = h.project.wires \ {order[i] : i \in 1 .. n}]
           mids == [n \in 1 .. Len(order) |-> after(n - 1)]
           V == Versions(h.project, s)
           g == Unplugged(h, cut)
<1>1. IsFiniteSet(cut)
  <2>1. h.project.wires \subseteq SUBSET Numbers
    BY DEF History, Fit, Documents
  <2>2. IsFiniteSet(Numbers)
    BY FS_Interval, EditorAssumption DEF Numbers
  <2>3. IsFiniteSet(SUBSET Numbers)
    BY <2>2, FS_SUBSET
  <2> QED
    BY <2>1, <2>3, FS_Subset
<1>2. Len(order) \in Nat \ {0}
  BY <1>1, OrderIsASequence
<1>3. g = [past |-> Newest(h.past \o mids), project |-> after(Len(order)), future |-> <<>>]
  BY DEF Unplugged
<1> HIDE DEF order, g
<1>4. ASSUME NEW n PROVE after(n) \in V
  <2>1. h.project.wires \ {order[i] : i \in 1 .. n} \in SUBSET h.project.wires
    OBVIOUS
  <2>2. after(n) \in Fit(s) /\ after(n).doc = h.project.doc
    <3> DEFINE ws == h.project.wires \ {order[i] : i \in 1 .. n}
    <3>1. ws \in SUBSET h.project.wires /\ h.project \in Fit(s)
      BY DEF History
    <3>2. after(n) = [h.project EXCEPT !.wires = ws]
      OBVIOUS
    <3>3. \A w \in SUBSET h.project.wires :
             [h.project EXCEPT !.wires = w] \in Fit(s) /\ [h.project EXCEPT !.wires = w].doc = h.project.doc
      BY <3>1, MutationsFit, Zenon
    <3> HIDE DEF ws, after
    <3> QED
      BY <3>1, <3>2, <3>3
  <2> HIDE DEF after
  <2> QED
    BY <2>2 DEF Versions
<1>5. after(0) = h.project
  <2>1. h.project.wires \ {order[i] : i \in 1 .. 0} = h.project.wires
    OBVIOUS
  <2>2. [h.project EXCEPT !.wires = h.project.wires] = h.project
    BY DEF History, Fit, Documents
  <2> QED
    BY <2>1, <2>2
<1>6. \A n \in 1 .. Len(order) : after(n - 1) \in V
  BY <1>4
<1>7. after(Len(order)) \in V
  BY <1>4
<1>8. mids[1] = after(0)
  <2>1. 1 \in 1 .. Len(order) /\ 1 - 1 = 0
    BY <1>2
  <2> QED
    BY <2>1
<1>9. mids \in [1 .. Len(order) -> V]
  <2> HIDE DEF after, V
  <2> QED
    BY <1>6
<1> HIDE DEF after, mids
<1>10. mids \in Seq(V) /\ mids # <<>>
  <2>1. mids \in Seq(V)
    BY <1>2, <1>9, SeqDef
  <2>2. DOMAIN mids = 1 .. Len(order) /\ 1 \in 1 .. Len(order)
    BY <1>2, <1>9
  <2> QED
    BY <2>1, <2>2
<1>11. g.project = after(Len(order))
  BY <1>3
<1>12. Lengthens(h, g, s)
  BY <1>3, <1>5, <1>8, <1>10, <1>11 DEF Lengthens
<1> QED
  BY <1>7, <1>11, <1>12 DEF Moves, Versions, g

\* Whatever a step makes of the history is a history.
LEMMA MovesKeepHistory ==
    ASSUME NEW s, NEW t, s => t, NEW h, History(h, s), NEW g, Moves(h, g, t)
    PROVE  History(g, t)
<1> DEFINE V == Versions(h.project, t)
<1>0. History(h, t) /\ h.project \in V
  BY HistoryLater
<1>1. h.past \in Seq(V) /\ h.future \in Seq(V) /\ HistoryLimit \in Nat \ {0}
  BY <1>0, EditorAssumption DEF History
<1>2. Len(h.past) \in Nat /\ Len(h.future) \in Nat
  BY <1>1, LenProperties
<1>3. ASSUME NEW p, p.doc = h.project.doc PROVE Versions(p, t) = V
  BY <1>3 DEF Versions
<1>4. CASE g = h
  BY <1>0, <1>4
<1>5. CASE g.project.doc = h.project.doc /\ Lengthens(h, g, t)
  <2>1. PICK mids \in Seq(V) :
           g = [past |-> Newest(h.past \o mids), project |-> g.project, future |-> <<>>]
    BY <1>5 DEF Lengthens
  <2> DEFINE q == h.past \o mids
  <2>2. q \in Seq(V)
    BY <1>1, ConcatProperties
  <2>3. Newest(q) \in Seq(V) /\ Len(Newest(q)) <= HistoryLimit
    <3>1. /\ Newest(q) \in Seq(V)
          /\ Len(Newest(q)) = IF Len(q) > HistoryLimit THEN HistoryLimit ELSE Len(q)
      BY <2>2, NewestAre
    <3>2. Len(q) \in Nat
      BY <2>2, LenProperties
    <3> HIDE DEF q, V
    <3> QED
      BY <1>1, <3>1, <3>2
  <2>4. g.past = Newest(q) /\ g.future = <<>> /\ g = [past |-> g.past, project |-> g.project, future |-> g.future]
    BY <2>1
  <2>5. <<>> \in Seq(V) /\ Len(<<>>) = 0
    BY EmptySeq
  <2>6. Len(Newest(q)) \in Nat
    BY <2>3, LenProperties
  <2> HIDE DEF q, V
  <2>7. Len(g.past) + Len(g.future) <= HistoryLimit
    BY <2>3, <2>4, <2>5, <2>6, <1>1
  <2> QED
    BY <1>3, <1>5, <2>3, <2>4, <2>5, <2>7 DEF History, Moves
<1>6. CASE g.project.doc = h.project.doc /\ g = [past |-> h.past, project |-> g.project, future |-> h.future]
  <2>1. g.past = h.past /\ g.future = h.future /\ g = [past |-> g.past, project |-> g.project, future |-> g.future]
    BY <1>6
  <2> HIDE DEF V
  <2> QED
    BY <1>0, <1>1, <1>3, <1>6, <2>1 DEF History, Moves
<1>7. CASE h.past # <<>> /\ g = Undone(h)
  <2>1. /\ Front(h.past) \in Seq(V) /\ Last(h.past) \in V /\ Len(Front(h.past)) = Len(h.past) - 1
    <3>1. Len(h.past) \in Nat \ {0}
      BY <1>1, <1>7, EmptySeq
    <3>2. /\ SubSeq(h.past, 1, Len(h.past) - 1) \in Seq(V)
          /\ Len(SubSeq(h.past, 1, Len(h.past) - 1)) = Len(h.past) - 1
      <4>1. \A i \in 1 .. Len(h.past) - 1 : h.past[i] \in V
        BY <1>1, <3>1, ElementOfSeq
      <4>2. 1 \in Int /\ Len(h.past) - 1 \in Int
        BY <3>1
      <4>3. /\ SubSeq(h.past, 1, Len(h.past) - 1) \in Seq(V)
            /\ Len(SubSeq(h.past, 1, Len(h.past) - 1))
                 = IF 1 <= Len(h.past) - 1 THEN (Len(h.past) - 1) - 1 + 1 ELSE 0
        BY <4>1, <4>2, SubSeqProperties
      <4> QED
        BY <3>1, <4>3
    <3>3. h.past[Len(h.past)] \in V
      BY <1>1, <3>1, ElementOfSeq
    <3> QED
      BY <3>2, <3>3 DEF Front, Last
  <2>2. g.past = Front(h.past) /\ g.project = Last(h.past) /\ g.future = <<h.project>> \o h.future
        /\ g = [past |-> g.past, project |-> g.project, future |-> g.future]
    BY <1>7 DEF Undone
  <2>3. <<h.project>> \in Seq(V) /\ Len(<<h.project>>) = 1
    <3> HIDE DEF V
    <3> QED
      BY <1>0
  <2>4. g.future \in Seq(V) /\ Len(g.future) = 1 + Len(h.future)
    BY <1>1, <2>2, <2>3, ConcatProperties
  <2>5. g.project.doc = h.project.doc
    BY <2>1, <2>2 DEF Versions
  <2>6. Len(g.past) + Len(g.future) <= HistoryLimit
    BY <1>0, <1>1, <1>2, <2>1, <2>2, <2>4 DEF History
  <2> HIDE DEF V
  <2> QED
    BY <1>3, <2>1, <2>2, <2>4, <2>5, <2>6 DEF History, Moves
<1>8. CASE h.future # <<>> /\ g = Redone(h)
  <2>1. Head(h.future) \in V /\ Tail(h.future) \in Seq(V) /\ Len(Tail(h.future)) = Len(h.future) - 1
    BY <1>1, <1>8, HeadTailProperties
  <2>2. Append(h.past, h.project) \in Seq(V) /\ Len(Append(h.past, h.project)) = Len(h.past) + 1
    BY <1>0, <1>1, AppendProperties
  <2>3. Newest(Append(h.past, h.project)) \in Seq(V) /\ Len(Newest(Append(h.past, h.project))) <= Len(h.past) + 1
    <3>1. /\ Newest(Append(h.past, h.project)) \in Seq(V)
          /\ Len(Newest(Append(h.past, h.project)))
               = IF Len(Append(h.past, h.project)) > HistoryLimit THEN HistoryLimit
                 ELSE Len(Append(h.past, h.project))
      BY <2>2, NewestAre
    <3> HIDE DEF V
    <3> QED
      BY <1>1, <1>2, <2>2, <3>1
  <2>4. g.past = Newest(Append(h.past, h.project)) /\ g.project = Head(h.future) /\ g.future = Tail(h.future)
        /\ g = [past |-> g.past, project |-> g.project, future |-> g.future]
    BY <1>8 DEF Redone
  <2>5. g.project.doc = h.project.doc
    BY <2>1, <2>4 DEF Versions
  <2>6. Len(g.past) \in Nat
    BY <2>3, <2>4, LenProperties
  <2>7. Len(g.past) + Len(g.future) <= HistoryLimit
    BY <1>0, <1>1, <1>2, <2>1, <2>3, <2>4, <2>6 DEF History
  <2> HIDE DEF V
  <2> QED
    BY <1>3, <2>1, <2>3, <2>4, <2>5, <2>7 DEF History, Moves
<1>9. CASE g = [past |-> <<>>, project |-> g.project, future |-> <<>>]
  <2>1. g.past = <<>> /\ g.future = <<>> /\ g = [past |-> g.past, project |-> g.project, future |-> g.future]
    BY <1>9
  <2>2. <<>> \in Seq(Versions(g.project, t)) /\ Len(<<>>) = 0
    BY EmptySeq
  <2>3. Len(g.past) + Len(g.future) <= HistoryLimit
    BY <2>1, <2>2, <1>1
  <2> QED
    BY <2>1, <2>2, <2>3 DEF History, Moves
<1> QED
  BY <1>4, <1>5, <1>6, <1>7, <1>8, <1>9 DEF Moves

-----------------------------------------------------------------------------
(* The moves of a history, as Timeline has them.                               *)

\* The states of a document in a line: those behind, the one on screen, and those
\* ahead.
LEMMA TapeIs ==
    ASSUME NEW S, NEW p \in Seq(S), NEW x \in S, NEW f \in Seq(S), NEW t, t = p \o <<x>> \o f
    PROVE  /\ t \in Seq(S) /\ Len(t) = Len(p) + 1 + Len(f)
           /\ Len(p) \in Nat /\ Len(f) \in Nat
           /\ \A i \in 1 .. Len(p) : t[i] = p[i]
           /\ t[Len(p) + 1] = x
           /\ \A j \in 1 .. Len(f) : t[Len(p) + 1 + j] = f[j]
<1> DEFINE one == <<x>>
           a == p \o one
<1>1. one \in Seq(S) /\ Len(one) = 1 /\ one[1] = x /\ t = a \o f
  OBVIOUS
<1> HIDE DEF one
<1>2. /\ a \in Seq(S) /\ Len(a) = Len(p) + Len(one)
      /\ \A i \in 1 .. Len(p) + Len(one) : a[i] = IF i <= Len(p) THEN p[i] ELSE one[i - Len(p)]
  BY <1>1, ConcatProperties
<1>3. Len(p) \in Nat /\ Len(f) \in Nat
  BY LenProperties
<1> HIDE DEF a
<1>a. a \in Seq(S)
  BY <1>2
<1>b. /\ a \o f \in Seq(S) /\ Len(a \o f) = Len(a) + Len(f)
      /\ \A i \in 1 .. Len(a) + Len(f) : (a \o f)[i] = IF i <= Len(a) THEN a[i] ELSE f[i - Len(a)]
  BY <1>a, ConcatProperties
<1>4. /\ t \in Seq(S) /\ Len(t) = Len(a) + Len(f)
      /\ \A i \in 1 .. Len(a) + Len(f) : t[i] = IF i <= Len(a) THEN a[i] ELSE f[i - Len(a)]
  BY <1>1, <1>b, Zenon
<1>5. Len(a) = Len(p) + 1
  BY <1>1, <1>2
<1>6. ASSUME NEW i \in 1 .. Len(p) PROVE t[i] = p[i]
  BY <1>1, <1>2, <1>3, <1>4, <1>5
<1>7. t[Len(p) + 1] = x
  BY <1>1, <1>2, <1>3, <1>4, <1>5
<1>8. ASSUME NEW j \in 1 .. Len(f) PROVE t[Len(p) + 1 + j] = f[j]
  BY <1>3, <1>4, <1>5
<1> QED
  BY <1>3, <1>4, <1>5, <1>6, <1>7, <1>8

\* What a step makes of the history, a timeline may do.
LEMMA MovesAreTimeline ==
    ASSUME NEW s, History(work, s), Moves(work, work', s), History(work', s)
    PROVE  [T!Next]_(T!vars)
<1> DEFINE V == Versions(work.project, s)
           p == work.past
           x == work.project
           f == work.future
           t == p \o <<x>> \o f
           pp == work'.past
           xx == work'.project
           ff == work'.future
           tt == pp \o <<xx>> \o ff
           W == Versions(work'.project, s)
<1>1. p \in Seq(V) /\ f \in Seq(V) /\ x \in V /\ Len(p) + Len(f) <= HistoryLimit /\ HistoryLimit \in Nat \ {0}
  BY HistoryLater, EditorAssumption DEF History
<1>2. pp \in Seq(W) /\ ff \in Seq(W) /\ xx \in W
  BY HistoryLater DEF History
<1>3. /\ T!Edit <=> /\ Len(pp) + 1 = Len(tt)
                    /\ \E lost \in 0 .. Len(p) + 1 :
                         /\ Len(tt) > Len(p) + 1 - lost
                         /\ lost > 0 => Len(tt) = HistoryLimit + 1
                         /\ \A i \in 1 .. Len(p) + 1 - lost : tt[i] = t[i + lost]
      /\ T!Retype <=> /\ Len(tt) = Len(t) /\ Len(pp) + 1 = Len(p) + 1
                      /\ \A i \in 1 .. Len(t) : i # Len(p) + 1 => tt[i] = t[i]
      /\ T!Back <=> Len(p) + 1 > 1 /\ Len(pp) + 1 = Len(p) + 1 - 1 /\ tt = t
      /\ T!Forth <=> Len(p) + 1 < Len(t) /\ Len(pp) + 1 = Len(p) + 1 + 1 /\ tt = t
      /\ T!Load <=> Len(tt) = 1 /\ Len(pp) + 1 = 1
      /\ UNCHANGED T!vars <=> tt = t /\ Len(pp) + 1 = Len(p) + 1
  BY DEF T!Edit, T!Retype, T!Back, T!Forth, T!Load, T!vars
<1>4. V = W \/ work' = [past |-> <<>>, project |-> xx, future |-> <<>>]
  <2>1. xx.doc = x.doc => V = W
    BY DEF Versions
  <2>2. CASE work.past # <<>> /\ work' = Undone(work)
    <3>1. xx = Last(p)
      BY <2>2 DEF Undone
    <3>2. Last(p) \in V
      BY <1>1, <2>2, EmptySeq, ElementOfSeq DEF Last
    <3> QED
      BY <2>1, <3>1, <3>2 DEF Versions
  <2>3. CASE work.future # <<>> /\ work' = Redone(work)
    <3>1. xx = Head(f)
      BY <2>3 DEF Redone
    <3>2. Head(f) \in V
      BY <1>1, <2>3, HeadTailProperties
    <3> QED
      BY <2>1, <3>1, <3>2 DEF Versions
  <2> QED
    BY <2>1, <2>2, <2>3 DEF Moves
<1>5. CASE work' = work
  BY <1>3, <1>5
<1>7. /\ t \in Seq(V) /\ Len(t) = Len(p) + 1 + Len(f)
      /\ Len(p) \in Nat /\ Len(f) \in Nat
      /\ \A i \in 1 .. Len(p) : t[i] = p[i]
      /\ t[Len(p) + 1] = x
      /\ \A j \in 1 .. Len(f) : t[Len(p) + 1 + j] = f[j]
  <2>1. p \in Seq(V) /\ x \in V /\ f \in Seq(V) /\ t = p \o <<x>> \o f
    BY <1>1
  <2> HIDE DEF p, x, f, t, V
  <2> QED
    BY <2>1, TapeIs
<1>8. /\ tt \in Seq(W) /\ Len(tt) = Len(pp) + 1 + Len(ff)
      /\ Len(pp) \in Nat /\ Len(ff) \in Nat
      /\ \A i \in 1 .. Len(pp) : tt[i] = pp[i]
      /\ tt[Len(pp) + 1] = xx
      /\ \A j \in 1 .. Len(ff) : tt[Len(pp) + 1 + j] = ff[j]
  <2>1. pp \in Seq(W) /\ xx \in W /\ ff \in Seq(W) /\ tt = pp \o <<xx>> \o ff
    BY <1>2
  <2> HIDE DEF pp, xx, ff, tt, W
  <2> QED
    BY <2>1, TapeIs
<1>L. /\ Len(p) \in Nat /\ Len(f) \in Nat /\ Len(pp) \in Nat /\ Len(ff) \in Nat
      /\ Len(t) = Len(p) + 1 + Len(f) /\ Len(tt) = Len(pp) + 1 + Len(ff)
  BY <1>7, <1>8
<1>6. CASE work' = [past |-> <<>>, project |-> xx, future |-> <<>>]
  <2>1. pp = <<>> /\ ff = <<>> /\ Len(pp) = 0 /\ Len(ff) = 0
    BY <1>6
  <2>2. Len(tt) = Len(pp) + 1 + Len(ff)
    BY <1>8
  <2> HIDE DEF tt, pp, ff
  <2> QED
    BY <1>3, <2>1, <2>2 DEF T!Next
<1>9. CASE Lengthens(work, work', s)
  <2>1. PICK mids \in Seq(V) :
          /\ mids # <<>> /\ mids[1] = x
          /\ work' = [past |-> Newest(p \o mids), project |-> xx, future |-> <<>>]
    BY <1>9 DEF Lengthens
  <2> DEFINE q == p \o mids
  <2>2. pp = Newest(q) /\ ff = <<>> /\ Len(ff) = 0
    BY <2>1
  <2> HIDE DEF p, x, f, t, pp, xx, ff, tt, V, W
  <2>3. Len(mids) \in Nat \ {0}
    BY <2>1, EmptySeq
  <2>4. /\ q \in Seq(V) /\ Len(q) = Len(p) + Len(mids)
        /\ \A i \in 1 .. Len(p) + Len(mids) : q[i] = IF i <= Len(p) THEN p[i] ELSE mids[i - Len(p)]
    BY <1>1, <2>1, ConcatProperties
  <2> HIDE DEF q
  <2>5. /\ Len(pp) = IF Len(q) > HistoryLimit THEN HistoryLimit ELSE Len(q)
        /\ \A i \in 1 .. Len(pp) : pp[i] = q[i + Len(q) - Len(pp)]
    BY <2>2, <2>4, NewestAre
  <2> DEFINE d == Len(q) - Len(pp)
             lost == IF d > Len(p) + 1 THEN Len(p) + 1 ELSE d
  <2>6. Len(q) \in Nat /\ Len(q) > Len(p)
    BY <1>7, <2>3, <2>4
  <2>7. d \in Nat /\ (d > 0 => Len(pp) = HistoryLimit) /\ Len(pp) + d = Len(q)
    BY <1>1, <1>8, <2>5, <2>6
  <2> HIDE DEF d
  <2>8. lost \in 0 .. Len(p) + 1 /\ (lost > 0 => d > 0) /\ (lost = d \/ lost = Len(p) + 1)
    BY <1>7, <2>7
  <2> HIDE DEF lost
  <2>9. Len(tt) = Len(pp) + 1
    BY <1>8, <2>2
  <2>10. Len(tt) > Len(p) + 1 - lost
    BY <1>7, <1>8, <2>6, <2>7, <2>8, <2>9
  <2>11. ASSUME NEW i \in 1 .. Len(p) + 1 - lost PROVE tt[i] = t[i + lost]
    <3>1. lost = d
      BY <1>7, <2>8
    <3>2. i \in 1 .. Len(pp) /\ i + d \in 1 .. Len(p) + 1 /\ i + Len(q) - Len(pp) = i + d
      <4>1. PICK a \in Nat, b \in Nat, e \in Nat : a = Len(p) /\ b = Len(pp) /\ e = d
        BY <1>L, <2>7
      <4>2. Len(q) = b + e /\ b + e > a /\ i \in 1 .. a + 1 - e
        BY <2>6, <2>7, <3>1, <4>1
      <4>3. i \in 1 .. b /\ i + e \in 1 .. a + 1 /\ i + (b + e) - b = i + e
        BY <4>2
      <4> QED
        BY <4>1, <4>2, <4>3
    <3>3. tt[i] = q[i + d]
      BY <1>8, <2>5, <3>2
    <3>4. q[i + d] = t[i + d]
      <4>1. CASE i + d = Len(p) + 1
        <5>1. i + d \in 1 .. Len(p) + Len(mids) /\ (i + d) - Len(p) = 1 /\ ~(i + d <= Len(p))
          BY <1>7, <2>3, <4>1
        <5>2. q[i + d] = mids[1]
          BY <2>4, <5>1
        <5> QED
          BY <1>7, <2>1, <4>1, <5>2 DEF x
      <4>2. CASE i + d # Len(p) + 1
        <5>1. i + d \in 1 .. Len(p) /\ i + d \in 1 .. Len(p) + Len(mids)
          BY <1>7, <2>3, <3>2, <4>2
        <5> QED
          BY <1>7, <2>4, <5>1
      <4> QED
        BY <4>1, <4>2
    <3> QED
      BY <3>1, <3>3, <3>4
  <2>12. lost > 0 => Len(tt) = HistoryLimit + 1
    BY <2>7, <2>8, <2>9
  <2>13. T!Edit
    BY <1>3, <2>8, <2>9, <2>10, <2>11, <2>12
  <2> QED
    BY <2>13 DEF T!Next
<1>10. CASE work' = [past |-> p, project |-> xx, future |-> f]
  <2>1. pp = p /\ ff = f
    BY <1>10
  <2> HIDE DEF p, x, f, t, pp, xx, ff, tt, V, W
  <2>2. ASSUME NEW i \in 1 .. Len(t), i # Len(p) + 1 PROVE tt[i] = t[i]
    <3>1. CASE i \in 1 .. Len(p)
      BY <1>7, <1>8, <2>1, <3>1
    <3>2. CASE i \notin 1 .. Len(p)
      <4> DEFINE j == i - (Len(p) + 1)
      <4>1. j \in 1 .. Len(f) /\ i = Len(p) + 1 + j
        BY <1>7, <2>2, <3>2
      <4> HIDE DEF j
      <4> QED
        BY <1>7, <1>8, <2>1, <4>1
    <3> QED
      BY <3>1, <3>2
  <2>3. T!Retype
    BY <1>3, <1>7, <1>8, <2>1, <2>2
  <2> QED
    BY <2>3 DEF T!Next
<1>11. CASE work.past # <<>> /\ work' = Undone(work)
  <2>0. p # <<>> /\ V = W
    <3>1. CASE work' = [past |-> <<>>, project |-> xx, future |-> <<>>]
      <4>1. ff = <<x>> \o f /\ ff = <<>>
        BY <1>11, <3>1 DEF Undone
      <4> DEFINE one == <<x>>
      <4>2. one \in Seq(V) /\ Len(one) = 1
        <5> HIDE DEF V
        <5> QED
          BY <1>1
      <4>3. Len(ff) = Len(one) + Len(f) /\ Len(ff) = 0
        <5>1. Len(one \o f) = Len(one) + Len(f)
          BY <1>1, <4>2, ConcatProperties
        <5> QED
          BY <4>1, <5>1
      <4>4. Len(f) \in Nat
        BY <1>L
      <4> HIDE DEF one, ff, f
      <4>5. FALSE
        <5>1. Len(one) = 1
          BY <4>2
        <5>2. 0 = 1 + Len(f)
          BY <4>3, <5>1, Zenon
        <5>3. \A k \in Nat : 0 # 1 + k
          OBVIOUS
        <5> QED
          BY <4>4, <5>2, <5>3, Zenon
      <4> QED
        BY <4>5
    <3> QED
      BY <1>4, <1>11, <3>1
  <2>1. pp = SubSeq(p, 1, Len(p) - 1) /\ xx = p[Len(p)] /\ ff = <<x>> \o f
    BY <1>11 DEF Undone, Front, Last
  <2> DEFINE one == <<x>>
  <2>2. one \in Seq(V) /\ Len(one) = 1 /\ one[1] = x
    <3> HIDE DEF V, x
    <3> QED
      BY <1>1
  <2>3. ff = one \o f
    BY <2>1
  <2> HIDE DEF p, x, f, t, pp, xx, ff, tt, V, W, one
  <2>4. /\ Len(ff) = 1 + Len(f)
        /\ \A i \in 1 .. Len(one) + Len(f) : ff[i] = IF i <= Len(one) THEN one[i] ELSE f[i - Len(one)]
    BY <1>1, <2>2, <2>3, ConcatProperties
  <2>5. Len(p) \in Nat \ {0}
    BY <1>1, <2>0, EmptySeq
  <2>6. Len(pp) = Len(p) - 1 /\ \A i \in 1 .. Len(pp) : pp[i] = p[i]
    <3>1. \A i \in 1 .. Len(p) - 1 : p[i] \in V
      BY <1>1, <2>5, ElementOfSeq
    <3>2. 1 \in Int /\ Len(p) - 1 \in Int
      BY <2>5
    <3>3. /\ Len(SubSeq(p, 1, Len(p) - 1)) = IF 1 <= Len(p) - 1 THEN (Len(p) - 1) - 1 + 1 ELSE 0
          /\ \A i \in 1 .. (Len(p) - 1) - 1 + 1 : SubSeq(p, 1, Len(p) - 1)[i] = p[1 + i - 1]
      BY <3>1, <3>2, SubSeqProperties
    <3>4. Len(pp) = Len(p) - 1
      <4>1. Len(pp) = IF 1 <= Len(p) - 1 THEN (Len(p) - 1) - 1 + 1 ELSE 0
        BY <2>1, <3>3
      <4>2. \A n \in Nat \ {0} : (IF 1 <= n - 1 THEN (n - 1) - 1 + 1 ELSE 0) = n - 1
        OBVIOUS
      <4> QED
        BY <2>5, <4>1, <4>2, Zenon
    <3>5. ASSUME NEW i \in 1 .. Len(p) - 1 PROVE pp[i] = p[i]
      <4>1. i \in 1 .. (Len(p) - 1) - 1 + 1 /\ 1 + i - 1 = i
        BY <2>5
      <4>2. SubSeq(p, 1, Len(p) - 1)[i] = p[1 + i - 1]
        BY <3>3, <4>1
      <4> QED
        BY <2>1, <4>1, <4>2
    <3> QED
      BY <3>4, <3>5
  <2>7. Len(tt) = Len(t)
    BY <1>7, <1>8, <2>4, <2>5, <2>6
  <2>8. ASSUME NEW i \in 1 .. Len(t) PROVE tt[i] = t[i]
    <3>1. CASE i < Len(p)
      <4>1. i \in 1 .. Len(pp) /\ i \in 1 .. Len(p)
        BY <1>L, <2>5, <2>6, <3>1
      <4> QED
        BY <1>7, <1>8, <2>6, <4>1
    <3>2. CASE i = Len(p)
      <4>1. i = Len(pp) + 1 /\ i \in 1 .. Len(p)
        BY <2>5, <2>6, <3>2
      <4> QED
        BY <1>7, <1>8, <2>1, <3>2, <4>1
    <3>3. CASE i > Len(p)
      <4> DEFINE j == i - Len(p)
      <4>1. j \in 1 .. Len(ff) /\ i = Len(pp) + 1 + j
        BY <1>7, <2>4, <2>5, <2>6, <3>3
      <4>2. tt[i] = ff[j]
        BY <1>8, <4>1
      <4>3. CASE j = 1
        <5>1. ff[1] = x
          BY <1>7, <2>2, <2>4
        <5>2. i = Len(p) + 1
          BY <2>5, <4>3
        <5> QED
          BY <1>7, <4>2, <4>3, <5>1, <5>2
      <4>4. CASE j # 1
        <5>1. j \in 1 .. Len(one) + Len(f) /\ ~(j <= Len(one)) /\ j - 1 \in 1 .. Len(f) /\ i = Len(p) + 1 + (j - 1)
          BY <1>7, <2>2, <2>4, <2>5, <4>1, <4>4
        <5>2. ff[j] = f[j - 1]
          BY <2>2, <2>4, <5>1
        <5>3. t[i] = f[j - 1]
          BY <1>7, <5>1
        <5> QED
          BY <4>2, <5>2, <5>3
      <4> QED
        BY <4>3, <4>4
    <3> QED
      BY <2>5, <3>1, <3>2, <3>3
  <2>9. tt = t
    BY <1>7, <1>8, <2>0, <2>7, <2>8, SeqEqual
  <2>10. T!Back
    BY <1>3, <2>5, <2>6, <2>9
  <2> QED
    BY <2>10 DEF T!Next
<1>12. CASE work.future # <<>> /\ work' = Redone(work)
  <2>1. pp = Newest(Append(p, x)) /\ xx = Head(f) /\ ff = Tail(f) /\ f # <<>>
    BY <1>12 DEF Redone
  <2> DEFINE a == Append(p, x)
  <2>2. /\ a \in Seq(V) /\ Len(a) = Len(p) + 1 /\ a[Len(p) + 1] = x
        /\ \A i \in 1 .. Len(p) : a[i] = p[i]
    BY <1>1, AppendProperties
  <2>3. Len(f) \in Nat \ {0} /\ Head(f) = f[1]
    BY <1>1, <2>1, EmptySeq
  <2>4. Len(a) <= HistoryLimit
    <3> HIDE DEF a, p, f
    <3> QED
      BY <1>1, <1>7, <2>2, <2>3
  <2>5. pp = a
    <3> HIDE DEF a
    <3>1. pp = Newest(a)
      BY <2>1 DEF a
    <3>2. Len(a) \in Nat /\ HistoryLimit \in Nat
      BY <1>1, <2>2, LenProperties
    <3>3. ~(Len(a) > HistoryLimit)
      BY <2>4, <3>2
    <3> QED
      BY <3>1, <3>3 DEF Newest
  <2>6. Len(ff) = Len(f) - 1 /\ \A i \in 1 .. Len(ff) : ff[i] = f[i + 1]
    <3>1. /\ Len(Tail(f)) = Len(f) - 1
          /\ \A i \in 1 .. Len(Tail(f)) : Tail(f)[i] = f[i+1]
      BY <1>1, <2>1, HeadTailProperties
    <3> HIDE DEF f, ff
    <3> QED
      BY <2>1, <3>1
  <2>7. V = W
    <3>1. CASE work' = [past |-> <<>>, project |-> xx, future |-> <<>>]
      <4>1. pp = <<>> /\ Len(pp) = 0
        BY <3>1
      <4> HIDE DEF pp, p, a
      <4> QED
        BY <1>7, <2>2, <2>5, <4>1
    <3> QED
      BY <1>4, <3>1
  <2> HIDE DEF p, x, f, t, pp, xx, ff, tt, V, W, a
  <2>8. Len(tt) = Len(t) /\ Len(pp) = Len(p) + 1
    <3>1. Len(pp) = Len(p) + 1 /\ Len(ff) = Len(f) - 1
      BY <2>2, <2>5, <2>6
    <3> QED
      BY <1>L, <2>3, <3>1
  <2>9. ASSUME NEW i \in 1 .. Len(t) PROVE tt[i] = t[i]
    <3>1. CASE i <= Len(p)
      <4>1. i \in 1 .. Len(p) /\ i \in 1 .. Len(pp)
        BY <1>7, <2>8, <3>1
      <4> QED
        BY <1>7, <1>8, <2>2, <2>5, <4>1
    <3>2. CASE i = Len(p) + 1
      <4>1. i \in 1 .. Len(pp)
        BY <1>7, <2>8, <3>2
      <4> QED
        BY <1>7, <1>8, <2>2, <2>5, <3>2, <4>1
    <3>3. CASE i = Len(p) + 2
      <4>1. tt[i] = xx
        BY <1>8, <2>8, <3>3, <1>7
      <4>2. 1 \in 1 .. Len(f) /\ i = Len(p) + 1 + 1
        BY <1>7, <2>3, <3>3
      <4>3. t[i] = f[1]
        BY <1>7, <4>2
      <4> QED
        BY <2>1, <2>3, <4>1, <4>3
    <3>4. CASE i > Len(p) + 2
      <4> DEFINE j == i - (Len(p) + 2)
      <4>1. j \in 1 .. Len(ff) /\ i = Len(pp) + 1 + j /\ j + 1 \in 1 .. Len(f) /\ i = Len(p) + 1 + (j + 1)
        BY <1>7, <2>3, <2>6, <2>8, <3>4
      <4> HIDE DEF j
      <4>2. tt[i] = ff[j] /\ t[i] = f[j + 1] /\ ff[j] = f[j + 1]
        BY <1>7, <1>8, <2>6, <4>1
      <4> QED
        BY <4>2
    <3> QED
      BY <1>7, <3>1, <3>2, <3>3, <3>4
  <2>10. tt = t
    BY <1>7, <1>8, <2>7, <2>8, <2>9, SeqEqual
  <2>11. T!Forth
    BY <1>3, <1>7, <2>3, <2>8, <2>10
  <2> QED
    BY <2>11 DEF T!Next
<1> QED
  BY <1>5, <1>6, <1>9, <1>10, <1>11, <1>12 DEF Moves

-----------------------------------------------------------------------------
(* The steps of a plan. Those it runs were checked one after another, so that  *)
(* each finds the parts it was checked for, as long as the document is the one *)
(* it was checked against.                                                     *)

\* Every step of a plan that is still to come does what it was checked for, on
\* the parts there will be when its turn comes.
Vetted(todo, actions, parts) ==
    /\ todo \subseteq DOMAIN actions
    /\ \A i \in todo :
         LET there == PartsAfter(actions, {j \in todo : j < i}, parts)
         IN  /\ actions[i].kind = "addPart" => actions[i].id \notin there
             /\ actions[i].kind = "addWire" => actions[i].wire \subseteq there

LEMMA ActionShapes ==
    ASSUME NEW a \in Actions
    PROVE  /\ a.kind \in {"addPart", "removePart", "setProp", "addWire", "removeWire", "setSketch"}
           /\ a.kind \in {"addPart", "removePart", "setProp", "addWire"} => a.id \in Ids
           /\ a.kind \in {"addWire", "removeWire"} => a.wire \in SUBSET Ids
BY DEF Actions

LEMMA AppliedFits ==
    ASSUME NEW s, NEW p \in Fit(s), NEW a \in Actions,
           s \/ /\ a.kind = "addPart" => a.id \notin p.parts
                /\ a.kind = "addWire" => a.wire \subseteq p.parts
    PROVE  /\ Applied(p, a) \in Fit(s) /\ Applied(p, a).doc = p.doc
           /\ Applied(p, a).parts = IF a.kind = "addPart" THEN p.parts \cup {a.id}
                                    ELSE IF a.kind = "removePart" THEN p.parts \ {a.id} ELSE p.parts
<1>0. p \in Documents /\ Ids \subseteq Numbers
  BY EditorAssumption DEF Fit, Ids, Numbers
<1>1. CASE a.kind = "addPart"
  <2>1. Applied(p, a) = WithPart(p, a.id) /\ a.id \in Ids
    BY <1>1, ActionShapes DEF Applied
  <2>2. WithPart(p, a.id).parts = p.parts \cup {a.id}
    BY <1>0 DEF WithPart, Documents
  <2>3. s \/ a.id \notin p.parts
    BY <1>1
  <2>4. WithPart(p, a.id) \in Fit(s) /\ WithPart(p, a.id).doc = p.doc
    BY <2>1, <2>3, MutationsFit
  <2> QED
    BY <1>1, <2>1, <2>2, <2>4
<1>2. CASE a.kind = "removePart"
  <2> DEFINE gone == {a.id}
  <2>1. Applied(p, a) = WithoutParts(p, gone)
    BY <1>2 DEF Applied
  <2> HIDE DEF gone
  <2>2. WithoutParts(p, gone).parts = p.parts \ gone
    BY <1>0 DEF WithoutParts, Documents
  <2>3. WithoutParts(p, gone) \in Fit(s) /\ WithoutParts(p, gone).doc = p.doc
    BY MutationsFit
  <2> QED
    BY <1>2, <2>1, <2>2, <2>3 DEF gone
<1>3. CASE a.kind = "addWire"
  <2>1. Applied(p, a) = WithWire(p, a.wire) /\ a.wire \in SUBSET Numbers
    BY <1>0, <1>3, ActionShapes DEF Applied
  <2>2. WithWire(p, a.wire).parts = p.parts
    BY <1>0 DEF WithWire, Documents
  <2>3. s \/ a.wire \subseteq p.parts
    BY <1>3
  <2>4. WithWire(p, a.wire) \in Fit(s) /\ WithWire(p, a.wire).doc = p.doc
    BY <2>1, <2>3, MutationsFit
  <2> QED
    BY <1>3, <2>1, <2>2, <2>4
<1>4. CASE a.kind = "removeWire"
  <2> DEFINE ws == p.wires \ {a.wire}
  <2>1. Applied(p, a) = [p EXCEPT !.wires = ws] /\ ws \in SUBSET p.wires
    BY <1>4 DEF Applied, WithoutWire
  <2> HIDE DEF ws
  <2>2. [p EXCEPT !.wires = ws].parts = p.parts
    BY <1>0 DEF Documents
  <2>3. [p EXCEPT !.wires = ws] \in Fit(s) /\ [p EXCEPT !.wires = ws].doc = p.doc
    BY <2>1, MutationsFit
  <2> QED
    BY <1>4, <2>1, <2>2, <2>3
<1>5. CASE a.kind = "setProp"
  <2>1. Applied(p, a) = Rearranged(p) /\ Rearranged(p).parts = p.parts
    BY <1>0, <1>5 DEF Applied, Rearranged, Documents
  <2> QED
    BY <1>5, <2>1, MutationsFit
<1>6. CASE a.kind = "setSketch"
  <2>1. Applied(p, a) = Typed(p) /\ Typed(p).parts = p.parts
    BY <1>0, <1>6 DEF Applied, Typed, Documents
  <2> QED
    BY <1>6, <2>1, MutationsFit
<1> QED
  BY <1>1, <1>2, <1>3, <1>4, <1>5, <1>6, ActionShapes

\* The first of the steps still to come finds the parts it was checked for, and
\* leaves the others those they were.
LEMMA VettedStep ==
    ASSUME NEW p \in Documents, NEW actions \in Seq(Actions), NEW todo,
           Vetted(todo, actions, p.parts), NEW i \in todo, \A j \in todo : i <= j
    PROVE  /\ Vetted(todo \ {i}, actions, Applied(p, actions[i]).parts)
           /\ actions[i].kind = "addPart" => actions[i].id \notin p.parts
           /\ actions[i].kind = "addWire" => actions[i].wire \subseteq p.parts
           /\ actions[i] \in Actions /\ Applied(p, actions[i]) \in Documents
<1> DEFINE a == actions[i]
           q == Applied(p, a)
<1>1. todo \subseteq Nat /\ a \in Actions /\ todo \subseteq DOMAIN actions
  BY ElementOfSeq, LenProperties DEF Vetted
<1>2. p.parts \subseteq Numbers /\ Ids \subseteq Numbers
  BY EditorAssumption DEF Documents, Ids, Numbers
<1>3. {j \in todo : j < i} = {}
  <2>1. \A j \in todo : i <= j /\ j \in Nat /\ i \in Nat
    BY <1>1
  <2>2. \A m, n \in Nat : m <= n => ~(n < m)
    OBVIOUS
  <2>3. \A j \in todo : ~(j < i)
    BY <2>1, <2>2, Zenon
  <2> QED
    BY <2>3, Zenon
<1>4. PartsAfter(actions, {}, p.parts) = p.parts
  BY <1>2 DEF PartsAfter
<1>5. (a.kind = "addPart" => a.id \notin p.parts) /\ (a.kind = "addWire" => a.wire \subseteq p.parts)
  BY <1>3, <1>4 DEF Vetted
<1>6. p \in Fit(TRUE)
  BY DEF Fit
<1>7. /\ q \in Documents
      /\ q.parts = IF a.kind = "addPart" THEN p.parts \cup {a.id}
                   ELSE IF a.kind = "removePart" THEN p.parts \ {a.id} ELSE p.parts
  <2> HIDE DEF a
  <2> QED
    BY <1>1, <1>6, AppliedFits DEF Fit
<1>8. ASSUME NEW k \in todo \ {i}
      PROVE  PartsAfter(actions, {j \in todo : j < k}, p.parts)
               = PartsAfter(actions, {j \in todo \ {i} : j < k}, q.parts)
  <2> DEFINE r == {j \in todo \ {i} : j < k}
             R == {j \in todo : j < k}
             adds(j, n) == actions[j].kind = "addPart" /\ actions[j].id = n
             removes(j, n) == actions[j].kind = "removePart" /\ actions[j].id = n
  <2>1. R = r \cup {i} /\ \A j \in r : j > i /\ ~(i > j)
    <3>1. \A j \in todo : i <= j /\ j \in Nat /\ i \in Nat
      BY <1>1
    <3>2. \A m, n \in Nat : m <= n /\ n # m => m < n /\ n > m /\ ~(m > n)
      OBVIOUS
    <3>3. i < k /\ \A j \in r : j > i /\ ~(i > j)
      BY <3>1, <3>2, Zenon
    <3> QED
      BY <3>3, Zenon
  <2>2. i \in Nat /\ ~(i > i) /\ r \subseteq Nat
    <3>1. \A m \in Nat : ~(m > m)
      OBVIOUS
    <3> QED
      BY <1>1, <3>1, Zenon
  <2>3. ASSUME NEW n \in Numbers
        PROVE  \/ n \in p.parts /\ \A j \in R : ~removes(j, n)
               \/ \E j \in R : adds(j, n) /\ \A m \in R : m > j => ~removes(m, n)
               <=>
               \/ n \in q.parts /\ \A j \in r : ~removes(j, n)
               \/ \E j \in r : adds(j, n) /\ \A m \in r : m > j => ~removes(m, n)
    <3>1. n \in q.parts <=> (n \in p.parts /\ ~removes(i, n)) \/ adds(i, n)
      <4>1. a.kind = "addPart" => a.kind # "removePart"
        OBVIOUS
      <4> QED
        BY <1>7, <4>1
    <3>2. (\A j \in R : ~removes(j, n)) <=> ~removes(i, n) /\ \A j \in r : ~removes(j, n)
      BY <2>1
    <3>3. ASSUME NEW j \in r
          PROVE  (\A m \in R : m > j => ~removes(m, n)) <=> (\A m \in r : m > j => ~removes(m, n))
      BY <2>1
    <3>4. (\A m \in R : m > i => ~removes(m, n)) <=> (\A m \in r : ~removes(m, n))
      BY <2>1, <2>2
    <3> HIDE DEF adds, removes, r, R, q
    <3>5. (\E j \in R : adds(j, n) /\ \A m \in R : m > j => ~removes(m, n))
            <=> \/ adds(i, n) /\ \A m \in r : ~removes(m, n)
                \/ \E j \in r : adds(j, n) /\ \A m \in r : m > j => ~removes(m, n)
      BY <2>1, <3>3, <3>4
    <3> QED
      BY <3>1, <3>2, <3>5
  <2>4. PartsAfter(actions, R, p.parts) = PartsAfter(actions, r, q.parts)
    <3> HIDE DEF r, R, q
    <3> QED
      BY <2>3 DEF PartsAfter
  <2> QED
    BY <2>4
<1>9. Vetted(todo \ {i}, actions, q.parts)
  <2> SUFFICES ASSUME NEW k \in todo \ {i}
               PROVE  LET there == PartsAfter(actions, {j \in todo \ {i} : j < k}, q.parts)
                      IN  /\ actions[k].kind = "addPart" => actions[k].id \notin there
                          /\ actions[k].kind = "addWire" => actions[k].wire \subseteq there
    BY <1>1 DEF Vetted
  <2>1. LET there == PartsAfter(actions, {j \in todo : j < k}, p.parts)
        IN  /\ actions[k].kind = "addPart" => actions[k].id \notin there
            /\ actions[k].kind = "addWire" => actions[k].wire \subseteq there
    BY DEF Vetted
  <2> HIDE DEF q
  <2> QED
    BY <1>8, <2>1, Zenon
<1> QED
  BY <1>1, <1>5, <1>7, <1>9

LEMMA RunnableIsVetted ==
    ASSUME NEW actions, NEW p, NEW run \in SUBSET DOMAIN actions, Runnable(run, actions, p)
    PROVE  Vetted(run, actions, p.parts)
<1> SUFFICES ASSUME NEW i \in run
             PROVE  LET there == PartsAfter(actions, {j \in run : j < i}, p.parts)
                    IN  /\ actions[i].kind = "addPart" => actions[i].id \notin there
                        /\ actions[i].kind = "addWire" => actions[i].wire \subseteq there
  BY DEF Vetted
<1> DEFINE r == {j \in run : j < i}
<1>1. Passes(actions[i], PartsAfter(actions, r, p.parts), WiresAfter(actions, r, p.wires))
  BY DEF Runnable
<1> HIDE DEF r
<1>2. /\ actions[i].kind = "addPart" => actions[i].id \notin PartsAfter(actions, r, p.parts)
      /\ actions[i].kind = "addWire" => actions[i].wire \subseteq PartsAfter(actions, r, p.parts)
  BY <1>1 DEF Passes
<1> QED
  BY <1>2 DEF r

-----------------------------------------------------------------------------
(* The type invariant, and what the canvas keeps of it.                        *)

\* A plan is one of the shapes its phases have; while it runs, the steps still to
\* come are those that were checked, on the parts the check foresees.
AskedPlan(p) == p = [phase |-> "asked", base |-> p.base] /\ p.base \in Documents

ProposedPlan(p) ==
    /\ p = [phase |-> "proposed", base |-> p.base, actions |-> p.actions, run |-> p.run]
    /\ p.base \in Documents /\ p.actions \in Seq(Actions)
    /\ Vetted(p.run, p.actions, p.base.parts)

StartedPlan(p, s) ==
    /\ p = [phase |-> p.phase, base |-> p.base, before |-> p.before, expect |-> p.expect,
            todo |-> p.todo, actions |-> p.actions, run |-> p.run]
    /\ p.phase \in {"running", "unattended", "applied"}
    /\ p.base \in Documents /\ p.before \in Fit(s) /\ p.expect \in Documents
    /\ p.actions \in Seq(Actions)
    /\ Vetted(p.run, p.actions, p.base.parts) /\ Vetted(p.todo, p.actions, p.expect.parts)

PlanIs(p, s) == p = NoPlan \/ AskedPlan(p) \/ ProposedPlan(p) \/ StartedPlan(p, s)

Modes == {Idle, [kind |-> "place"]} \cup [kind : {"wire"}, from : Numbers]

CallIs(c, n, s) ==
    /\ c = [id |-> c.id, kind |-> c.kind, row |-> c.row, project |-> c.project,
            state |-> c.state, heard |-> c.heard]
    /\ c.kind \in {"create", "update", "open", "remove"}
    /\ c.state \in {"sent", "ok", "failed"} /\ c.heard \in BOOLEAN
    /\ c.project \in Fit(s) /\ c.row \in 0 .. n
    /\ c.kind # "create" \/ c.state = "ok" => c.row # 0

WorkspaceTypeOK ==
    /\ strayed \in BOOLEAN /\ timer \in BOOLEAN /\ mounted \in BOOLEAN /\ docs \in Nat
    /\ History(work, strayed)
    /\ mode \in Modes
    /\ PlanIs(plan, strayed)
    /\ stored \in Fit(strayed)
    /\ rows \in Seq(Fit(strayed) \cup {Gone}) /\ link \in 0 .. Len(rows)
    /\ \A c \in calls : CallIs(c, Len(rows), strayed)

\* What a step makes of the document: a move of its history, which keeps the
\* document unless it opens one.
Keeps ==
    /\ strayed' \in BOOLEAN /\ (strayed => strayed')
    /\ Moves(work, work', strayed')
    /\ work'.project.doc = work.project.doc \/ link' = 0

LEMMA StayingKeeps ==
    ASSUME WorkspaceTypeOK, work' = work, strayed' = strayed
    PROVE  Keeps
<1>1. strayed \in BOOLEAN /\ work.project \in Fit(strayed)
  BY DEF WorkspaceTypeOK, History
<1>2. Moves(work, work', strayed')
  BY <1>1 DEF Moves
<1> QED
  BY <1>1, <1>2 DEF Keeps

LEMMA EditingKeeps ==
    ASSUME WorkspaceTypeOK, strayed' \in BOOLEAN, strayed => strayed',
           NEW q, q \in Fit(strayed'), q.doc = work.project.doc, work' = Edited(work, q)
    PROVE  Keeps
<1>1. PICK s \in BOOLEAN : s = strayed'
  OBVIOUS
<1>2. PICK r \in BOOLEAN : r = strayed
  BY DEF WorkspaceTypeOK
<1>3. History(work, s)
  <2>1. r => s
    BY <1>1, <1>2
  <2>2. History(work, r)
    BY <1>2 DEF WorkspaceTypeOK
  <2> QED
    BY <2>1, <2>2, HistoryLater
<1>4. Moves(work, Edited(work, q), s)
  BY <1>1, <1>3, EditedMoves
<1>5. Edited(work, q).project = q
  BY DEF Edited
<1> QED
  BY <1>1, <1>4, <1>5 DEF Keeps

LEMMA MutatingKeeps ==
    ASSUME WorkspaceTypeOK, strayed' = strayed,
           NEW q, q \in Fit(strayed), q.doc = work.project.doc, work' = Edited(work, q)
    PROVE  Keeps
<1>1. strayed' \in BOOLEAN /\ (strayed => strayed') /\ q \in Fit(strayed')
  BY DEF WorkspaceTypeOK
<1> QED
  BY <1>1, EditingKeeps

LEMMA ProjectIsFit ==
    ASSUME WorkspaceTypeOK
    PROVE  /\ project \in Fit(strayed) /\ project \in Documents
           /\ project.parts \subseteq Numbers /\ project.wires \subseteq SUBSET Numbers
BY DEF WorkspaceTypeOK, History, project, Fit, Documents

LEMMA GestureKeeps == ASSUME WorkspaceTypeOK, Gesture PROVE Keeps
<1>0. project \in Fit(strayed) /\ project \in Documents /\ project.parts \subseteq Numbers
      /\ project = work.project
  BY ProjectIsFit DEF project
<1>1. CASE PickUp \/ ClearCanvas \/ Select \/ \E i \in project.parts : StartWire(i)
  BY <1>1, StayingKeeps DEF PickUp, ClearCanvas, Select, StartWire
<1>2. CASE Place
  <2>1. PICK i \in NextIds(1) : Change(WithPart(project, i))
    BY <1>2 DEF Place
  <2>2. i \in Ids /\ i \notin project.parts
    BY DEF NextIds, project
  <2>3. WithPart(project, i) \in Fit(strayed) /\ WithPart(project, i).doc = project.doc
    <3>1. PICK s \in BOOLEAN : s = strayed
      BY DEF WorkspaceTypeOK
    <3>2. WithPart(project, i) \in Fit(s) /\ WithPart(project, i).doc = project.doc
      <4>1. project \in Fit(s)
        BY <1>0, <3>1
      <4>2. \A j \in Ids : s \/ j \notin project.parts =>
              WithPart(project, j) \in Fit(s) /\ WithPart(project, j).doc = project.doc
        BY <4>1, MutationsFit, Zenon
      <4> QED
        BY <2>2, <4>2, Zenon
    <3> QED
      BY <3>1, <3>2
  <2>4. work' = Edited(work, WithPart(project, i)) /\ strayed' = strayed
    BY <1>2, <2>1 DEF Place, Change, Commit
  <2> QED
    BY <1>0, <2>3, <2>4, MutatingKeeps
<1>3. CASE Rearrange
  <2>1. work' = Edited(work, Rearranged(project)) /\ strayed' = strayed
    BY <1>3 DEF Rearrange, Change, Commit
  <2> QED
    BY <1>0, <2>1, MutationsFit, MutatingKeeps
<1>4. ASSUME NEW i \in project.parts, EndWire(i) PROVE Keeps
  <2> DEFINE w == {mode.from, i}
  <2>1. work' = Edited(work, WithWire(project, w)) /\ mode.kind = "wire"
        /\ strayed' = (strayed \/ mode.from \notin project.parts)
    BY <1>4 DEF EndWire, Change, Commit
  <2>2. mode.from \in Numbers
    BY <2>1 DEF WorkspaceTypeOK, Modes, Idle
  <2>3. strayed' \in BOOLEAN /\ (strayed => strayed') /\ (strayed' \/ w \subseteq project.parts)
    BY <1>4, <2>1 DEF WorkspaceTypeOK
  <2>4. w \in SUBSET Numbers
    BY <1>0, <1>4, <2>2
  <2> HIDE DEF w
  <2>5. WithWire(project, w) \in Fit(strayed') /\ WithWire(project, w).doc = project.doc
    <3>1. PICK s \in BOOLEAN : s = strayed'
      BY <2>3
    <3>2. project \in Fit(s)
      BY <1>0, <2>3, <3>1, LaterFits
    <3>3. s \/ w \subseteq project.parts
      BY <2>3, <3>1
    <3> QED
      <4>1. WithWire(project, w) \in Fit(s) /\ WithWire(project, w).doc = project.doc
        BY <2>4, <3>2, <3>3, MutationsFit, Zenon
      <4> QED
        BY <3>1, <4>1
  <2> QED
    BY <1>0, <2>1, <2>3, <2>5, EditingKeeps
<1>5. ASSUME NEW gone, RemoveParts(gone) PROVE Keeps
  <2>1. work' = Edited(work, WithoutParts(project, gone)) /\ strayed' = strayed
    BY <1>5 DEF RemoveParts, Change, Commit
  <2> QED
    BY <1>0, <2>1, MutationsFit, MutatingKeeps
<1>6. ASSUME NEW cut \in SUBSET project.wires, Unplug(cut) PROVE Keeps
  <2>1. work' = Unplugged(work, cut) /\ strayed' = strayed /\ cut # {} /\ cut \in SUBSET work.project.wires
    BY <1>0, <1>6 DEF Unplug, Commit
  <2>2. PICK s \in BOOLEAN : s = strayed
    BY DEF WorkspaceTypeOK
  <2>3. History(work, s)
    BY <2>2 DEF WorkspaceTypeOK
  <2>4. Moves(work, Unplugged(work, cut), s)
    BY <2>1, <2>3, UnpluggedMoves
  <2>5. Unplugged(work, cut).project.doc = work.project.doc
    BY <1>0 DEF Unplugged, Documents
  <2> QED
    BY <2>1, <2>2, <2>4, <2>5 DEF Keeps
<1>7. ASSUME NEW i \in project.parts, NEW hole \in project.parts, Drop(i, hole) PROVE Keeps
  <2> DEFINE p == Rearranged(project)
             w == {i, hole}
             q == WithWire(p, w)
  <2>1. strayed' = strayed /\ \/ work' = Edited(work, p)
                              \/ work' = Edited(Edited(work, p), WithWire(Edited(work, p).project, w))
    BY <1>7 DEF Drop, Commit
  <2>2. Edited(work, p).project = p
    BY DEF Edited
  <2>3. p \in Fit(strayed) /\ p.doc = project.doc
    BY <1>0, MutationsFit
  <2>4. p.parts = project.parts
    BY <1>0 DEF Rearranged, Documents
  <2>5. w \in SUBSET Numbers /\ w \subseteq p.parts
    BY <1>0, <2>4
  <2> HIDE DEF p, w
  <2>6. q \in Fit(strayed) /\ q.doc = project.doc
    BY <2>3, <2>5, MutationsFit
  <2>7. CASE work' = Edited(work, p)
    BY <1>0, <2>1, <2>3, <2>7, MutatingKeeps
  <2> HIDE DEF q
  <2>8. CASE work' = Edited(Edited(work, p), q)
    <3>1. PICK s \in BOOLEAN : s = strayed
      BY DEF WorkspaceTypeOK
    <3>2. History(work, s)
      BY <3>1 DEF WorkspaceTypeOK
    <3>3. Moves(work, Edited(Edited(work, p), q), s)
      BY <1>0, <2>3, <2>6, <3>1, <3>2, EditedTwiceMoves
    <3>4. Edited(Edited(work, p), q).project = q
      BY DEF Edited
    <3> QED
      BY <1>0, <2>1, <2>6, <2>8, <3>1, <3>3, <3>4 DEF Keeps
  <2> QED
    BY <2>1, <2>2, <2>7, <2>8 DEF q
<1>8. ASSUME NEW chosen, Duplicate(chosen) PROVE Keeps
  <2> DEFINE originals == chosen \cap project.parts
             new == NextIds(Cardinality(originals) + Cardinality(originals \cap project.twins))
  <2>1. PICK copy \in {f \in [originals -> new] : IsInjective(f)} :
          Change([project EXCEPT
              !.parts = @ \cup new,
              !.twins = @ \cup (new \cap project.parts),
              !.wires = @ \cup UNION {CopiedWire(w, copy) : w \in project.wires}])
    BY <1>8 DEF Duplicate
  <2> DEFINE ws == UNION {CopiedWire(w, copy) : w \in project.wires}
             q == [project EXCEPT !.parts = @ \cup new, !.twins = @ \cup (new \cap project.parts),
                                  !.wires = @ \cup ws]
  <2>2. new \in SUBSET Ids /\ new \cap project.parts = {}
    BY DEF NextIds, project
  <2>3. \A w \in ws : w \subseteq new
    <3> HIDE DEF new, originals
    <3>1. copy \in [originals -> new]
      BY <2>1
    <3>2. \A w : \A v \in CopiedWire(w, copy) : v \subseteq new
      BY <3>1 DEF CopiedWire
    <3> QED
      BY <3>2
  <2>4. work' = Edited(work, q) /\ strayed' = strayed
    BY <1>8, <2>1 DEF Duplicate, Change, Commit
  <2> HIDE DEF new, ws
  <2>a. q = WithCopies(project, new, ws)
    BY DEF WithCopies
  <2> HIDE DEF q
  <2>5. q \in Fit(strayed) /\ q.doc = project.doc
    <3>1. PICK s \in BOOLEAN : s = strayed
      BY DEF WorkspaceTypeOK
    <3>2. project \in Fit(s)
      BY <1>0, <3>1
    <3>3. q \in Fit(s) /\ q.doc = project.doc
      BY <2>2, <2>3, <2>a, <3>2, CopiesFit, Zenon
    <3> QED
      BY <3>1, <3>3
  <2> QED
    BY <1>0, <2>4, <2>5, MutatingKeeps
<1>9. CASE Type
  <2>1. work' = [work EXCEPT !.project = Typed(@)] /\ strayed' = strayed
    BY <1>9 DEF Type, Commit
  <2>2. Typed(project) \in Fit(strayed) /\ Typed(project).doc = project.doc
    BY <1>0, MutationsFit
  <2>3. work = [past |-> work.past, project |-> work.project, future |-> work.future]
    BY DEF WorkspaceTypeOK, History
  <2>4. work' = [past |-> work.past, project |-> Typed(project), future |-> work.future]
    BY <1>0, <2>1, <2>3
  <2> QED
    BY <1>0, <2>1, <2>2, <2>4 DEF Keeps, Moves, WorkspaceTypeOK
<1>10. CASE Undo
  <2>1. work' = Undone(work) /\ strayed' = strayed /\ work.past # <<>>
    BY <1>10 DEF Undo, Commit
  <2>2. work.past \in Seq(Versions(work.project, strayed))
    BY DEF WorkspaceTypeOK, History
  <2>3. Last(work.past) \in Versions(work.project, strayed)
    BY <2>1, <2>2, EmptySeq, ElementOfSeq DEF Last
  <2>4. work'.project = Last(work.past)
    BY <2>1 DEF Undone
  <2> QED
    BY <2>1, <2>3, <2>4 DEF Keeps, Moves, Versions, WorkspaceTypeOK
<1>11. CASE Redo
  <2>1. work' = Redone(work) /\ strayed' = strayed /\ work.future # <<>>
    BY <1>11 DEF Redo, Commit
  <2>2. work.future \in Seq(Versions(work.project, strayed))
    BY DEF WorkspaceTypeOK, History
  <2>3. Head(work.future) \in Versions(work.project, strayed)
    BY <2>1, <2>2, HeadTailProperties
  <2>4. work'.project = Head(work.future)
    BY <2>1 DEF Redone
  <2> QED
    BY <2>1, <2>3, <2>4 DEF Keeps, Moves, Versions, WorkspaceTypeOK
<1>12. CASE Open
  <2>1. PICK p \in {EmptyProject(docs + 1), LibraryProject(docs + 1)} : LoadProject(p, 0)
    BY <1>12 DEF Open
  <2>2. docs + 1 \in Nat
    BY DEF WorkspaceTypeOK
  <2>3. p \in Fit(strayed)
    BY <2>1, <2>2, EmptyIsFit, LibraryIsFit
  <2>4. work' = [past |-> <<>>, project |-> p, future |-> <<>>] /\ link' = 0 /\ strayed' = strayed
    BY <1>12, <2>1 DEF Open, LoadProject
  <2> QED
    BY <2>3, <2>4 DEF Keeps, Moves, WorkspaceTypeOK
<1>13. \A i : Touching(i) \in SUBSET project.wires
  BY DEF Touching
<1>14. Leaving(selected) \in SUBSET project.wires
  BY DEF Leaving
<1> QED
  BY <1>1, <1>2, <1>3, <1>4, <1>5, <1>6, <1>7, <1>8, <1>9, <1>10, <1>11, <1>12, <1>13, <1>14 DEF Gesture

-----------------------------------------------------------------------------
(* The assistant's plans.                                                      *)

LEMMA PlanPhases ==
    ASSUME NEW s, NEW p, PlanIs(p, s)
    PROVE  /\ p.phase = "asked" => AskedPlan(p)
           /\ p.phase = "proposed" => ProposedPlan(p)
           /\ p.phase \in {"running", "unattended", "applied"} => StartedPlan(p, s)
<1>1. NoPlan.phase = "none"
  BY DEF NoPlan
<1>2. AskedPlan(p) => p.phase = "asked"
  BY DEF AskedPlan
<1>3. ProposedPlan(p) => p.phase = "proposed"
  BY DEF ProposedPlan
<1>4. StartedPlan(p, s) => p.phase \in {"running", "unattended", "applied"}
  BY DEF StartedPlan
<1> QED
  BY <1>1, <1>2, <1>3, <1>4 DEF PlanIs

LEMMA PlanLater ==
    ASSUME NEW s \in BOOLEAN, NEW t \in BOOLEAN, s => t, NEW p, PlanIs(p, s)
    PROVE  PlanIs(p, t)
<1>1. Fit(s) \subseteq Fit(t)
  BY LaterFits
<1>2. StartedPlan(p, s) => StartedPlan(p, t)
  BY <1>1 DEF StartedPlan
<1> QED
  BY <1>2 DEF PlanIs

\* A plan that is dropped is gone, or goes on unattended.
LEMMA DroppedIs ==
    ASSUME NEW s, PlanIs(plan, s)
    PROVE  PlanIs(Dropped, s)
<1>1. CASE plan.phase \in Running
  <2>1. StartedPlan(plan, s)
    BY <1>1, PlanPhases DEF Running
  <2> DEFINE q == [plan EXCEPT !.phase = "unattended"]
  <2>2. q = [phase |-> "unattended", base |-> plan.base, before |-> plan.before, expect |-> plan.expect,
             todo |-> plan.todo, actions |-> plan.actions, run |-> plan.run]
    BY <2>1 DEF StartedPlan
  <2> HIDE DEF q
  <2>3. /\ q.phase = "unattended" /\ q.base = plan.base /\ q.before = plan.before
        /\ q.expect = plan.expect /\ q.todo = plan.todo /\ q.actions = plan.actions
        /\ q.run = plan.run
    BY <2>2
  <2>4. StartedPlan(q, s)
    BY <2>1, <2>2, <2>3 DEF StartedPlan
  <2>5. Dropped = q
    BY <1>1 DEF Dropped, q
  <2> QED
    BY <2>4, <2>5 DEF PlanIs
<1>2. CASE plan.phase \notin Running
  BY <1>2 DEF Dropped, PlanIs
<1> QED
  BY <1>1, <1>2

\* What is asked for, proposed, begun and undone around the steps of a plan.
LEMMA PlanningKeeps ==
    ASSUME WorkspaceTypeOK, Planning
    PROVE  Keeps /\ PlanIs(plan', strayed') /\ strayed' = strayed
<1>0. project \in Fit(strayed) /\ project \in Documents /\ PlanIs(plan, strayed)
  BY ProjectIsFit DEF WorkspaceTypeOK
<1>1. CASE Ask
  <2>1. Keeps /\ strayed' = strayed
    BY <1>1, StayingKeeps DEF Ask, PlanOnly
  <2>2. plan' = [phase |-> "asked", base |-> project]
    BY <1>1 DEF Ask
  <2>3. AskedPlan(plan')
    BY <1>0, <2>2 DEF AskedPlan
  <2> QED
    BY <2>1, <2>3 DEF PlanIs
<1>2. ASSUME NEW actions \in Plans, Propose(actions)
      PROVE  Keeps /\ PlanIs(plan', strayed') /\ strayed' = strayed
  <2>1. Keeps /\ strayed' = strayed
    BY <1>2, StayingKeeps DEF Propose, PlanOnly
  <2>2. PICK run \in SUBSET DOMAIN actions :
          /\ Runnable(run, actions, plan.base)
          /\ plan' = [phase |-> "proposed", base |-> plan.base, actions |-> actions, run |-> run]
    BY <1>2 DEF Propose
  <2>3. plan.base \in Documents
    BY <1>0, <1>2, PlanPhases DEF Propose, AskedPlan
  <2>4. Vetted(run, actions, plan.base.parts)
    BY <2>2, RunnableIsVetted
  <2>5. actions \in Seq(Actions)
    BY EditorAssumption
  <2>6. plan'.base = plan.base /\ plan'.actions = actions /\ plan'.run = run
    BY <2>2
  <2>7. ProposedPlan(plan')
    BY <2>2, <2>3, <2>4, <2>5, <2>6 DEF ProposedPlan
  <2> QED
    BY <2>1, <2>7 DEF PlanIs
<1>3. CASE StartPlan
  <2>1. Keeps /\ strayed' = strayed
    BY <1>3, StayingKeeps DEF StartPlan, PlanOnly
  <2>2. ProposedPlan(plan)
    BY <1>0, <1>3, PlanPhases DEF StartPlan
  <2>3. plan' = [phase |-> "running", base |-> plan.base, before |-> project,
                 expect |-> plan.base, todo |-> plan.run,
                 actions |-> plan.actions, run |-> plan.run]
    BY <1>3 DEF StartPlan
  <2>4. /\ plan'.phase = "running" /\ plan'.base = plan.base /\ plan'.before = project
        /\ plan'.expect = plan.base /\ plan'.todo = plan.run /\ plan'.actions = plan.actions
        /\ plan'.run = plan.run
    BY <2>3
  <2>5. StartedPlan(plan', strayed')
    BY <1>0, <2>1, <2>2, <2>3, <2>4 DEF StartedPlan, ProposedPlan
  <2> QED
    BY <2>1, <2>5 DEF PlanIs
<1>4. CASE UndoPlan
  <2>1. StartedPlan(plan, strayed)
    BY <1>0, <1>4, PlanPhases DEF UndoPlan
  <2>2. /\ work' = [past |-> <<>>, project |-> plan.before, future |-> <<>>]
        /\ link' = 0 /\ strayed' = strayed
    BY <1>4 DEF UndoPlan, LoadProject
  <2>3. Keeps
    BY <2>1, <2>2 DEF Keeps, Moves, StartedPlan, WorkspaceTypeOK
  <2>4. plan' = [phase |-> "proposed", base |-> plan.base, actions |-> plan.actions, run |-> plan.run]
    BY <1>4 DEF UndoPlan
  <2>5. plan'.base = plan.base /\ plan'.actions = plan.actions /\ plan'.run = plan.run
    BY <2>4
  <2>6. ProposedPlan(plan')
    BY <2>1, <2>4, <2>5 DEF ProposedPlan, StartedPlan
  <2> QED
    BY <2>2, <2>3, <2>6 DEF PlanIs
<1>5. CASE DropPlan
  <2>1. Keeps /\ strayed' = strayed /\ plan' = Dropped
    BY <1>5, StayingKeeps DEF DropPlan, PlanOnly
  <2> QED
    BY <1>0, <2>1, DroppedIs
<1> QED
  BY <1>1, <1>2, <1>3, <1>4, <1>5 DEF Planning

\* The steps of a plan, on whatever the document is by now.
LEMMA CarryingKeeps ==
    ASSUME WorkspaceTypeOK, Carrying
    PROVE  Keeps /\ PlanIs(plan', strayed')
<1>0. project \in Fit(strayed) /\ project \in Documents /\ PlanIs(plan, strayed) /\ project = work.project
  BY ProjectIsFit DEF WorkspaceTypeOK, project
<1>1. StartedPlan(plan, strayed)
  BY <1>0, PlanPhases DEF Carrying, PlanStep, PlanDone, Running
<1>2. CASE PlanDone
  <2>1. Keeps /\ strayed' = strayed
    BY <1>2, StayingKeeps DEF PlanDone, PlanOnly
  <2>2. CASE plan.phase = "running"
    <3>1. plan' = [plan EXCEPT !.phase = "applied"]
      BY <1>2, <2>2 DEF PlanDone
    <3>2. plan' = [phase |-> "applied", base |-> plan.base, before |-> plan.before, expect |-> plan.expect,
                   todo |-> plan.todo, actions |-> plan.actions, run |-> plan.run]
      BY <1>1, <3>1 DEF StartedPlan
    <3>3. /\ plan'.phase = "applied" /\ plan'.base = plan.base /\ plan'.before = plan.before
          /\ plan'.expect = plan.expect /\ plan'.todo = plan.todo /\ plan'.actions = plan.actions
          /\ plan'.run = plan.run
      BY <3>2
    <3>4. StartedPlan(plan', strayed')
      BY <1>1, <2>1, <3>2, <3>3 DEF StartedPlan
    <3> QED
      BY <2>1, <3>4 DEF PlanIs
  <2>3. CASE plan.phase # "running"
    <3>1. plan' = NoPlan
      BY <1>2, <2>3 DEF PlanDone
    <3> QED
      BY <2>1, <3>1 DEF PlanIs
  <2> QED
    BY <2>2, <2>3
<1>3. CASE PlanStep
  <2>1. PICK i \in plan.todo :
          /\ \A j \in plan.todo : i <= j
          /\ IF plan.actions[i].kind = "setSketch"
             THEN Commit([work EXCEPT !.project = Applied(@, plan.actions[i])])
             ELSE Change(Applied(project, plan.actions[i]))
          /\ plan' = [plan EXCEPT !.todo = @ \ {i}, !.expect = Applied(@, plan.actions[i])]
    BY <1>3 DEF PlanStep
  <2> DEFINE a == plan.actions[i]
             td == plan.todo \ {i}
             ex == Applied(plan.expect, a)
             q == Applied(project, a)
  <2>2. /\ Vetted(td, plan.actions, ex.parts)
        /\ a.kind = "addPart" => a.id \notin plan.expect.parts
        /\ a.kind = "addWire" => a.wire \subseteq plan.expect.parts
        /\ a \in Actions /\ ex \in Documents
    <3>1. /\ plan.expect \in Documents /\ plan.actions \in Seq(Actions)
          /\ Vetted(plan.todo, plan.actions, plan.expect.parts)
      BY <1>1 DEF StartedPlan
    <3> QED
      BY <2>1, <3>1, VettedStep
  <2>3. plan' = [plan EXCEPT !.todo = td, !.expect = ex]
    BY <2>1
  <2>4. IF a.kind = "setSketch" THEN Commit([work EXCEPT !.project = q]) ELSE Change(q)
    BY <1>0, <2>1
  <2> HIDE DEF a, td, ex, q
  <2>5. PlanIs(plan', strayed')
    <3>1. plan' = [phase |-> plan.phase, base |-> plan.base, before |-> plan.before, expect |-> ex,
                   todo |-> td, actions |-> plan.actions, run |-> plan.run]
      BY <1>1, <2>3 DEF StartedPlan
    <3>2. /\ plan'.phase = plan.phase /\ plan'.base = plan.base /\ plan'.before = plan.before
          /\ plan'.expect = ex /\ plan'.todo = td /\ plan'.actions = plan.actions
          /\ plan'.run = plan.run
      BY <3>1
    <3>3. PICK s \in BOOLEAN : s = strayed'
      BY <1>3 DEF PlanStep
    <3>4. plan.before \in Fit(s)
      BY <1>1, <1>3, <3>3, LaterFits DEF StartedPlan, PlanStep
    <3>5. StartedPlan(plan', s)
      BY <1>1, <2>2, <3>1, <3>2, <3>4 DEF StartedPlan
    <3> QED
      BY <3>3, <3>5 DEF PlanIs
  <2>6. strayed' \in BOOLEAN /\ (strayed => strayed') /\ (~strayed' => project.parts = plan.expect.parts)
    BY <1>3 DEF PlanStep, SameCircuit
  <2>7. q \in Fit(strayed') /\ q.doc = project.doc
    <3>1. PICK s \in BOOLEAN : s = strayed'
      BY <2>6
    <3>2. project \in Fit(s)
      BY <1>0, <2>6, <3>1, LaterFits
    <3>3. s \/ /\ a.kind = "addPart" => a.id \notin project.parts
               /\ a.kind = "addWire" => a.wire \subseteq project.parts
      BY <2>2, <2>6, <3>1
    <3>4. q \in Fit(s) /\ q.doc = project.doc
      BY <2>2, <3>2, <3>3, AppliedFits DEF q
    <3> QED
      BY <3>1, <3>4
  <2>8. CASE a.kind = "setSketch"
    <3>1. work' = [work EXCEPT !.project = q]
      BY <2>4, <2>8 DEF Commit
    <3>2. work = [past |-> work.past, project |-> work.project, future |-> work.future]
      BY DEF WorkspaceTypeOK, History
    <3>3. work' = [past |-> work.past, project |-> q, future |-> work.future]
      BY <3>1, <3>2
    <3> QED
      BY <1>0, <2>5, <2>6, <2>7, <3>3 DEF Keeps, Moves
  <2>9. CASE a.kind # "setSketch"
    <3>1. work' = Edited(work, q)
      BY <2>4, <2>9 DEF Change, Commit
    <3> QED
      BY <1>0, <2>5, <2>6, <2>7, <3>1, EditingKeeps
  <2> QED
    BY <2>8, <2>9
<1> QED
  BY <1>2, <1>3 DEF Carrying

-----------------------------------------------------------------------------
(* What a step of the editor, and one of the storage, leaves.                  *)

\* What the editor keeps whatever it does.
LEMMA EditingPreserves ==
    ASSUME WorkspaceTypeOK, Gesture \/ Planning \/ Carrying
    PROVE  /\ Keeps /\ PlanIs(plan', strayed') /\ mode' \in Modes /\ docs' \in Nat
           /\ link' \in {link, 0}
<1>0. /\ mode \in Modes /\ docs \in Nat /\ docs + 1 \in Nat /\ PlanIs(plan, strayed)
      /\ Idle \in Modes /\ project.parts \subseteq Numbers
  BY ProjectIsFit DEF WorkspaceTypeOK, Modes
<1>1. CASE Gesture
  <2>1. Keeps
    BY <1>1, GestureKeeps
  <2>2. plan' = plan /\ link' \in {link, 0} /\ docs' \in {docs, docs + 1}
    BY <1>1 DEF Gesture, PickUp, ClearCanvas, Place, Rearrange, Select, StartWire, EndWire,
                RemoveParts, Unplug, Drop, Duplicate, Type, Undo, Redo, Open, LoadProject
  <2>3. mode' \in Modes
    <3>1. \A i \in project.parts : [kind |-> "wire", from |-> i] \in Modes
      BY <1>0 DEF Modes
    <3>2. [kind |-> "place"] \in Modes
      BY DEF Modes
    <3>3. mode' \in {mode, Idle, [kind |-> "place"]} \/ \E i \in project.parts : StartWire(i)
      BY <1>1 DEF Gesture, PickUp, ClearCanvas, Place, Rearrange, Select, EndWire,
                  RemoveParts, Unplug, Drop, Duplicate, Type, Undo, Redo, Open
    <3> QED
      BY <1>0, <3>1, <3>2, <3>3 DEF StartWire
  <2>4. PlanIs(plan', strayed')
    <3>1. PICK s \in BOOLEAN : s = strayed
      BY DEF WorkspaceTypeOK
    <3>2. PICK t \in BOOLEAN : t = strayed'
      BY <2>1 DEF Keeps
    <3>3. PlanIs(plan, t)
      BY <1>0, <2>1, <3>1, <3>2, PlanLater DEF Keeps
    <3> QED
      BY <2>2, <3>2, <3>3
  <2> QED
    BY <1>0, <2>1, <2>2, <2>3, <2>4
<1>2. CASE Planning
  <2>1. mode' = mode /\ link' \in {link, 0} /\ docs' = docs
    BY <1>2 DEF Planning, Ask, Propose, StartPlan, UndoPlan, DropPlan, PlanOnly, LoadProject
  <2> QED
    BY <1>0, <1>2, <2>1, PlanningKeeps
<1>3. CASE Carrying
  <2>1. mode' = mode /\ link' = link /\ docs' = docs
    BY <1>3 DEF Carrying, PlanStep, PlanDone, PlanOnly
  <2> QED
    BY <1>0, <1>3, <2>1, CarryingKeeps
<1> QED
  BY <1>1, <1>2, <1>3

LEMMA TypeAfter ==
    ASSUME WorkspaceTypeOK, strayed' \in BOOLEAN, strayed => strayed',
           Moves(work, work', strayed'), PlanIs(plan', strayed'), mode' \in Modes, docs' \in Nat,
           timer' \in BOOLEAN, mounted' \in BOOLEAN, stored' \in Fit(strayed'),
           rows' \in Seq(Fit(strayed') \cup {Gone}), link' \in 0 .. Len(rows'),
           \A c \in calls' : CallIs(c, Len(rows'), strayed')
    PROVE  WorkspaceTypeOK'
<1>1. PICK s \in BOOLEAN : s = strayed
  BY DEF WorkspaceTypeOK
<1>2. PICK t \in BOOLEAN : t = strayed'
  OBVIOUS
<1>3. History(work', t)
  <2>1. History(work, s) /\ (s => t) /\ Moves(work, work', t)
    BY <1>1, <1>2 DEF WorkspaceTypeOK
  <2> QED
    BY <2>1, MovesKeepHistory
<1>4. History(work', strayed')
  BY <1>2, <1>3
<1> QED
  BY <1>4 DEF WorkspaceTypeOK

LEMMA CallLater ==
    ASSUME NEW s \in BOOLEAN, NEW t \in BOOLEAN, s => t, NEW n \in Nat, NEW m \in Nat, n <= m,
           NEW c, CallIs(c, n, s)
    PROVE  CallIs(c, m, t)
BY LaterFits DEF CallIs

\* What nobody wrote stays what it was.
LEMMA AccountLater ==
    ASSUME WorkspaceTypeOK, strayed' \in BOOLEAN, strayed => strayed'
    PROVE  /\ stored \in Fit(strayed') /\ rows \in Seq(Fit(strayed') \cup {Gone}) /\ Len(rows) \in Nat
           /\ \A c \in calls : CallIs(c, Len(rows), strayed')
<1>1. PICK s \in BOOLEAN : s = strayed
  BY DEF WorkspaceTypeOK
<1>2. PICK t \in BOOLEAN : t = strayed'
  OBVIOUS
<1>3. Fit(s) \subseteq Fit(t)
  BY <1>1, <1>2, LaterFits
<1>4. stored \in Fit(s) /\ rows \in Seq(Fit(s) \cup {Gone}) /\ \A c \in calls : CallIs(c, Len(rows), s)
  BY <1>1 DEF WorkspaceTypeOK
<1>5. Len(rows) \in Nat
  BY <1>4, LenProperties
<1>6. \A n \in Nat : n <= n
  OBVIOUS
<1>7. \A c \in calls : CallIs(c, Len(rows), t)
  BY <1>1, <1>2, <1>4, <1>5, <1>6, CallLater
<1>8. rows \in Seq(Fit(t) \cup {Gone})
  <2> DEFINE S == Fit(s) \cup {Gone}
             R == Fit(t) \cup {Gone}
  <2>1. S \subseteq R /\ rows \in Seq(S)
    BY <1>3, <1>4
  <2> HIDE DEF S, R
  <2>2. rows \in Seq(R)
    BY <2>1, SeqDef
  <2> QED
    BY <2>2 DEF R
<1> QED
  BY <1>2, <1>3, <1>4, <1>5, <1>7, <1>8

LEMMA EditingType == ASSUME WorkspaceTypeOK, Editing PROVE WorkspaceTypeOK'
<1>1. /\ Keeps /\ PlanIs(plan', strayed') /\ mode' \in Modes /\ docs' \in Nat
      /\ link' \in {link, 0}
  BY EditingPreserves DEF Editing
<1>2. strayed' \in BOOLEAN /\ (strayed => strayed') /\ Moves(work, work', strayed')
  BY <1>1 DEF Keeps
<1>3. /\ stored \in Fit(strayed') /\ rows \in Seq(Fit(strayed') \cup {Gone}) /\ Len(rows) \in Nat
      /\ \A c \in calls : CallIs(c, Len(rows), strayed')
  BY <1>2, AccountLater
<1>4. /\ stored' = stored /\ rows' = rows /\ calls' = calls /\ mounted' = mounted
      /\ timer' \in BOOLEAN /\ mounted' \in BOOLEAN
  BY DEF Editing, Noticed, accountVars, WorkspaceTypeOK
<1>5. link' \in 0 .. Len(rows)
  BY <1>1, <1>3 DEF WorkspaceTypeOK
<1> QED
  BY <1>1, <1>2, <1>3, <1>4, <1>5, TypeAfter

LEMMA SameWork ==
    ASSUME WorkspaceTypeOK, strayed' = strayed, work' = work
    PROVE  strayed' \in BOOLEAN /\ Moves(work, work', strayed')
BY StayingKeeps DEF Keeps

LEMMA SavingType == ASSUME WorkspaceTypeOK, Saving PROVE WorkspaceTypeOK'
<1>0. /\ project \in Fit(strayed) /\ stored \in Fit(strayed) /\ PlanIs(plan, strayed)
      /\ strayed' = strayed /\ strayed' \in BOOLEAN /\ docs' = docs /\ docs' \in Nat /\ mode \in Modes
  BY ProjectIsFit
     DEF WorkspaceTypeOK, Saving, Autosave, OtherTab, Unmount, Mount, Reload, editorVars
<1>1. /\ rows \in Seq(Fit(strayed) \cup {Gone}) /\ Len(rows) \in Nat /\ link \in 0 .. Len(rows)
      /\ \A c \in calls : CallIs(c, Len(rows), strayed)
  BY LenProperties DEF WorkspaceTypeOK
<1>2. rows' = rows
  BY DEF Saving, Autosave, OtherTab, Unmount, Mount, Reload, accountVars
<1>3. CASE Autosave \/ OtherTab \/ Mount
  <2>1. UNCHANGED editorVars /\ calls' = calls
    BY <1>3 DEF Autosave, OtherTab, Mount, accountVars
  <2>2. timer' \in BOOLEAN /\ mounted' \in BOOLEAN
    BY <1>3 DEF Autosave, OtherTab, Mount, WorkspaceTypeOK
  <2>3. stored' \in Fit(strayed)
    BY <1>0, <1>3, EmptyIsFit DEF Autosave, OtherTab, Mount, SaveWorkspace
  <2> QED
    BY <1>0, <1>1, <1>2, <2>1, <2>2, <2>3, SameWork, TypeAfter DEF editorVars
<1>4. CASE Unmount
  <2>1. work' = work /\ mode' = mode /\ calls' = calls /\ plan' = Dropped /\ link' \in {link, 0}
        /\ timer' = FALSE /\ mounted' = FALSE
    BY <1>4 DEF Unmount, accountVars
  <2>2. stored' \in Fit(strayed)
    BY <1>0, <1>4 DEF Unmount, SaveWorkspace
  <2>3. PlanIs(plan', strayed)
    BY <1>0, <2>1, DroppedIs
  <2>4. link' \in 0 .. Len(rows)
    BY <1>1, <2>1
  <2> QED
    BY <1>0, <1>1, <1>2, <2>1, <2>2, <2>3, <2>4, SameWork, TypeAfter
<1>5. CASE Reload
  <2>1. stored' \in Fit(strayed)
    BY <1>0, <1>5 DEF Reload, SaveWorkspace
  <2>2. work' = [past |-> <<>>, project |-> UniqueIds(stored'), future |-> <<>>]
        /\ mode' = Idle /\ plan' = NoPlan /\ link' = 0 /\ timer' = FALSE /\ mounted' = TRUE
        /\ calls' = {[c EXCEPT !.heard = FALSE] : c \in calls}
    BY <1>5 DEF Reload
  <2>3. UniqueIds(stored') \in Fit(strayed)
    BY <2>1, ReadIsFit
  <2>4. Moves(work, work', strayed')
    BY <1>0, <2>2, <2>3 DEF Moves
  <2>5. ASSUME NEW c \in calls PROVE CallIs([c EXCEPT !.heard = FALSE], Len(rows), strayed)
    <3> DEFINE q == [c EXCEPT !.heard = FALSE]
    <3>1. CallIs(c, Len(rows), strayed)
      BY <1>1
    <3>2. q = [id |-> c.id, kind |-> c.kind, row |-> c.row, project |-> c.project,
               state |-> c.state, heard |-> FALSE]
      <4> DEFINE h == c.heard
                 no == FALSE
      <4>1. c = [id |-> c.id, kind |-> c.kind, row |-> c.row, project |-> c.project,
                 state |-> c.state, heard |-> h]
        BY <3>1 DEF CallIs
      <4>2. q = [c EXCEPT !.heard = no]
        OBVIOUS
      <4> HIDE DEF h, no, q
      <4>3. q = [id |-> c.id, kind |-> c.kind, row |-> c.row, project |-> c.project,
                 state |-> c.state, heard |-> no]
        BY <4>1, <4>2
      <4> QED
        BY <4>3 DEF no
    <3> HIDE DEF q
    <3>3. q.id = c.id /\ q.kind = c.kind /\ q.row = c.row /\ q.project = c.project /\ q.state = c.state
          /\ q.heard = FALSE
      BY <3>2
    <3>4. CallIs(q, Len(rows), strayed)
      BY <3>1, <3>2, <3>3 DEF CallIs
    <3> QED
      BY <3>4 DEF q
  <2>6. mode' \in Modes /\ PlanIs(plan', strayed') /\ link' \in 0 .. Len(rows)
    BY <1>1, <2>2 DEF Modes, PlanIs
  <2> QED
    BY <1>0, <1>1, <1>2, <2>1, <2>2, <2>4, <2>5, <2>6, TypeAfter
<1> QED
  BY <1>3, <1>4, <1>5 DEF Saving

-----------------------------------------------------------------------------
(* What the account answers.                                                   *)

Answer(c, r, d) == [c EXCEPT !.state = "ok", !.row = r, !.project = d]

LEMMA AnswerReads ==
    ASSUME NEW s, NEW n, NEW c, CallIs(c, n, s), NEW r, NEW d
    PROVE  /\ Answer(c, r, d) = [id |-> c.id, kind |-> c.kind, row |-> r, project |-> d,
                                 state |-> "ok", heard |-> c.heard]
           /\ Answer(c, r, d).id = c.id /\ Answer(c, r, d).kind = c.kind /\ Answer(c, r, d).row = r
           /\ Answer(c, r, d).project = d /\ Answer(c, r, d).state = "ok"
           /\ Answer(c, r, d).heard = c.heard
<1> DEFINE q == Answer(c, r, d)
           h == c.heard
<1>1. PICK id, kind, was, old, before :
        c = [id |-> id, kind |-> kind, row |-> was, project |-> old, state |-> before, heard |-> h]
  BY DEF CallIs
<1>2. c.id = id /\ c.kind = kind
  BY <1>1
<1>3. q = [c EXCEPT !.state = "ok", !.row = r, !.project = d]
  BY DEF Answer
<1> HIDE DEF h, q
<1>4. q = [id |-> id, kind |-> kind, row |-> r, project |-> d, state |-> "ok", heard |-> h]
  BY <1>1, <1>3
<1>5. q.id = id /\ q.kind = kind /\ q.row = r /\ q.project = d /\ q.state = "ok" /\ q.heard = h
  BY <1>4
<1> QED
  BY <1>2, <1>4, <1>5 DEF h, q

\* The answer to a call is one again.
LEMMA SucceededIs ==
    ASSUME NEW s, NEW n \in Nat, NEW c, CallIs(c, n, s), NEW m \in Nat, NEW r \in 1 .. m, NEW d \in Fit(s)
    PROVE  CallIs(Answer(c, r, d), m, s)
<1>1. PICK x : x = r
  OBVIOUS
<1>2. x \in 0 .. m /\ x # 0
  BY <1>1
<1> DEFINE q == Answer(c, x, d)
<1>3. \A e, y, a, b : CallIs(e, b, a) =>
        /\ Answer(e, y, d) = [id |-> e.id, kind |-> e.kind, row |-> y, project |-> d,
                              state |-> "ok", heard |-> e.heard]
        /\ Answer(e, y, d).id = e.id /\ Answer(e, y, d).kind = e.kind /\ Answer(e, y, d).row = y
        /\ Answer(e, y, d).project = d /\ Answer(e, y, d).state = "ok"
        /\ Answer(e, y, d).heard = e.heard
  BY AnswerReads
<1>4. /\ q = [id |-> c.id, kind |-> c.kind, row |-> x, project |-> d, state |-> "ok", heard |-> c.heard]
      /\ q.id = c.id /\ q.kind = c.kind /\ q.row = x /\ q.project = d /\ q.state = "ok"
      /\ q.heard = c.heard
  BY <1>3, Zenon
<1> HIDE DEF q
<1>5. q = [id |-> q.id, kind |-> q.kind, row |-> q.row, project |-> q.project,
           state |-> q.state, heard |-> q.heard]
  BY <1>4, Zenon
<1>6. CallIs(q, m, s)
  BY <1>2, <1>4, <1>5 DEF CallIs
<1> QED
  BY <1>1, <1>6 DEF q

LEMMA FailedIs ==
    ASSUME NEW s, NEW n \in Nat, NEW c, CallIs(c, n, s),
           NEW q, q = [c EXCEPT !.state = "failed"]
    PROVE  /\ CallIs(q, n, s) /\ q.kind = c.kind /\ q.state = "failed" /\ q.row = c.row
           /\ q.project = c.project
<1> DEFINE h == c.heard
<1>0. c = [id |-> c.id, kind |-> c.kind, row |-> c.row, project |-> c.project,
           state |-> c.state, heard |-> h] /\ h \in BOOLEAN
  BY DEF CallIs
<1> HIDE DEF h
<1>1. q = [id |-> c.id, kind |-> c.kind, row |-> c.row, project |-> c.project,
           state |-> "failed", heard |-> h]
  BY <1>0
<1>2. q.id = c.id /\ q.kind = c.kind /\ q.row = c.row /\ q.project = c.project /\ q.state = "failed"
      /\ q.heard = h
  BY <1>1
<1>3. q = [id |-> q.id, kind |-> q.kind, row |-> q.row, project |-> q.project,
           state |-> q.state, heard |-> q.heard]
  BY <1>1, <1>2
<1>4. CallIs(q, n, s)
  BY <1>0, <1>2, <1>3 DEF CallIs
<1> QED
  BY <1>2, <1>4

\* Nobody serves a call but as its kind has it: one of the rows is written, one is
\* added, or none is touched.
LEMMA ServedRows ==
    ASSUME WorkspaceTypeOK, NEW c \in calls, Serve(c)
    PROVE  \E q : /\ calls' = (calls \ {c}) \cup {q}
                  /\ CallIs(q, Len(rows'), strayed) /\ q.kind = c.kind
                  /\ rows' \in Seq(Fit(strayed) \cup {Gone})
                  /\ \/ /\ c.kind = "create" /\ rows' = Append(rows, c.project)
                        /\ q.state = "ok" /\ q.row = Len(rows) + 1 /\ q.project = c.project
                     \/ /\ c.kind = "open" /\ rows' = rows /\ c.row \in 1 .. Len(rows)
                        /\ q.state = "ok" /\ q.row = c.row /\ q.project = rows[c.row]
                     \/ /\ c.kind = "update" /\ rows' = [rows EXCEPT ![c.row] = c.project]
                        /\ c.row \in 1 .. Len(rows) /\ rows[c.row] # Gone
                        /\ q.state = "ok" /\ q.row = c.row /\ q.project = c.project
                     \/ /\ c.kind = "remove" /\ rows' = [rows EXCEPT ![c.row] = Gone]
                        /\ c.row \in 1 .. Len(rows)
                        /\ q.state = "ok" /\ q.row = c.row /\ q.project = c.project
                     \/ /\ q.state = "failed" /\ rows' = rows /\ q.row = c.row
                        /\ q.project = c.project
<1> DEFINE S == Fit(strayed) \cup {Gone}
<1>1. CallIs(c, Len(rows), strayed) /\ rows \in Seq(S) /\ Len(rows) \in Nat
      /\ DOMAIN rows = 1 .. Len(rows)
  BY LenProperties DEF WorkspaceTypeOK
<1>2. c.project \in Fit(strayed) /\ c.project \in S /\ Gone \in S
      /\ c.kind \in {"create", "update", "open", "remove"}
      /\ (c.kind # "create" => c.row \in 1 .. Len(rows))
  BY <1>1 DEF CallIs
<1>3. \A i \in 1 .. Len(rows) : rows[i] \in S
  BY <1>1, ElementOfSeq
<1>9. \A i \in 1 .. Len(rows) : rows[i] # Gone => rows[i] \in Fit(strayed)
  BY <1>3
<1> HIDE DEF S
<1>4. CASE CreateProject(c)
  <2> DEFINE n == Len(rows) + 1
             q == Answer(c, n, c.project)
  <2>1. c.kind = "create" /\ rows' = Append(rows, c.project) /\ calls' = (calls \ {c}) \cup {q}
    BY <1>4 DEF CreateProject, Succeeds, Answering, Answer
  <2>2. rows' \in Seq(S) /\ Len(rows') = n
    BY <1>1, <1>2, <2>1, AppendProperties
  <2>3. n \in Nat /\ n \in 1 .. n
    BY <1>1
  <2>4. CallIs(q, n, strayed) /\ q.kind = c.kind /\ q.state = "ok" /\ q.row = n /\ q.project = c.project
    <3> HIDE DEF n
    <3> QED
      <4>1. CallIs(q, n, strayed)
        BY <1>1, <1>2, <2>3, SucceededIs, Zenon
      <4>2. q.kind = c.kind /\ q.state = "ok" /\ q.row = n /\ q.project = c.project
        BY <1>1, AnswerReads
      <4> QED
        BY <4>1, <4>2
  <2> HIDE DEF q
  <2> QED
    BY <2>1, <2>2, <2>4 DEF S
<1>5. ASSUME NEW d \in Fit(strayed), c.kind # "create", Succeeds(c, c.row, d), rows' \in Seq(S),
             Len(rows') = Len(rows)
      PROVE  \E q : /\ calls' = (calls \ {c}) \cup {q}
                    /\ CallIs(q, Len(rows'), strayed) /\ q.kind = c.kind
                    /\ q.state = "ok" /\ q.row = c.row /\ q.project = d
  <2> DEFINE q == Answer(c, c.row, d)
  <2>1. calls' = (calls \ {c}) \cup {q}
    BY <1>5 DEF Succeeds, Answering, Answer
  <2>2. c.row \in 1 .. Len(rows)
    BY <1>2, <1>5
  <2>3. /\ CallIs(q, Len(rows), strayed) /\ q.kind = c.kind /\ q.state = "ok" /\ q.row = c.row
        /\ q.project = d
    <3>1. CallIs(q, Len(rows), strayed)
      BY <1>1, <2>2, SucceededIs, Zenon
    <3>2. q.kind = c.kind /\ q.state = "ok" /\ q.row = c.row /\ q.project = d
      BY <1>1, AnswerReads
    <3> QED
      BY <3>1, <3>2
  <2> HIDE DEF q
  <2> QED
    BY <1>5, <2>1, <2>3
<1>6. CASE GetProject(c)
  <2>1. c.kind = "open" /\ rows' = rows /\ rows[c.row] # Gone /\ Succeeds(c, c.row, rows[c.row])
    BY <1>6 DEF GetProject, Stored
  <2>2. c.row \in 1 .. Len(rows) /\ rows[c.row] \in Fit(strayed)
    BY <1>2, <1>9, <2>1
  <2>3. \E q : /\ calls' = (calls \ {c}) \cup {q}
               /\ CallIs(q, Len(rows'), strayed) /\ q.kind = c.kind
               /\ q.state = "ok" /\ q.row = c.row /\ q.project = rows[c.row]
    BY <1>1, <1>5, <2>1, <2>2
  <2> QED
    BY <1>1, <2>1, <2>2, <2>3 DEF S
<1>7. CASE UpdateProject(c) \/ DeleteProject(c)
  <2>0. \/ c.kind = "update" /\ rows' = [rows EXCEPT ![c.row] = c.project]
        \/ c.kind = "remove" /\ rows' = [rows EXCEPT ![c.row] = Gone]
    BY <1>7 DEF UpdateProject, DeleteProject
  <2>1. c.kind # "create" /\ rows[c.row] # Gone /\ Succeeds(c, c.row, c.project)
    BY <1>7, <2>0 DEF UpdateProject, DeleteProject, Stored
  <2>2. c.row \in 1 .. Len(rows)
    BY <1>2, <2>1
  <2>3. rows' \in Seq(S) /\ Len(rows') = Len(rows)
    BY <1>1, <1>2, <2>0, <2>2, ExceptSeq
  <2>4. \E q : /\ calls' = (calls \ {c}) \cup {q}
               /\ CallIs(q, Len(rows'), strayed) /\ q.kind = c.kind
               /\ q.state = "ok" /\ q.row = c.row /\ q.project = c.project
    BY <1>2, <1>5, <2>1, <2>3
  <2> QED
    BY <2>0, <2>1, <2>2, <2>3, <2>4 DEF S
<1>8. CASE NoSuchProject(c)
  <2> DEFINE q == [c EXCEPT !.state = "failed"]
  <2>1. rows' = rows /\ calls' = (calls \ {c}) \cup {q}
    BY <1>8 DEF NoSuchProject, Fails, Answering
  <2>2. /\ CallIs(q, Len(rows), strayed) /\ q.kind = c.kind /\ q.state = "failed" /\ q.row = c.row
        /\ q.project = c.project
    BY <1>1, FailedIs
  <2> HIDE DEF q
  <2> QED
    BY <1>1, <2>1, <2>2 DEF S
<1> QED
  BY <1>4, <1>6, <1>7, <1>8 DEF Serve

-----------------------------------------------------------------------------
(* The link: whose row is whose.                                               *)

\* Row r is the document d's, unless it is gone or a late answer linked it.
Holds(r, d) == r \in late \/ rows[r] = Gone \/ rows[r].doc = d

\* The calls whose row is the one their document is linked to, or will be.
Claims(c) == c.kind = "update" \/ (c.kind \in {"open", "create"} /\ c.state = "ok")

LinkInv ==
    /\ link # 0 => Holds(link, project.doc)
    /\ \A c \in calls : Claims(c) => Holds(c.row, c.project.doc)

\* A row is one document's for as long as there is one, or a late answer linked it.
RowsKept ==
    /\ late \subseteq late' /\ Len(rows) <= Len(rows')
    /\ \A r \in 1 .. Len(rows) :
         r \in late' \/ rows'[r] = Gone \/ (rows[r] # Gone /\ rows'[r].doc = rows[r].doc)

LEMMA HoldsOn ==
    ASSUME RowsKept, NEW r \in 1 .. Len(rows), NEW d, Holds(r, d)
    PROVE  r \in late' \/ rows'[r] = Gone \/ rows'[r].doc = d
BY DEF RowsKept, Holds

LEMMA ClaimsHoldOn ==
    ASSUME WorkspaceTypeOK, LinkInv, RowsKept
    PROVE  /\ link # 0 => (link \in late' \/ rows'[link] = Gone \/ rows'[link].doc = project.doc)
           /\ \A c \in calls : Claims(c) =>
                (c.row \in late' \/ rows'[c.row] = Gone \/ rows'[c.row].doc = c.project.doc)
<1>1. link # 0 => link \in 1 .. Len(rows)
  BY LenProperties DEF WorkspaceTypeOK
<1>2. ASSUME NEW c \in calls, Claims(c)
      PROVE  c.row \in 1 .. Len(rows)
  <2>1. CallIs(c, Len(rows), strayed) /\ Len(rows) \in Nat
    BY LenProperties DEF WorkspaceTypeOK
  <2> QED
    BY <1>2, <2>1 DEF CallIs, Claims
<1> QED
  BY <1>1, <1>2, HoldsOn DEF LinkInv

LEMMA SameRowsKept == ASSUME WorkspaceTypeOK, rows' = rows, late \subseteq late' PROVE RowsKept
<1>1. Len(rows) \in Nat
  BY LenProperties DEF WorkspaceTypeOK
<1> QED
  BY <1>1 DEF RowsKept

\* The editor, the autosave and the seat leave the account as it is, and the link
\* to its document or cut it.
LEMMA LinkFollows ==
    ASSUME WorkspaceTypeOK, LinkInv, RowsKept, link' \in {link, 0},
           link' = 0 \/ work'.project.doc = work.project.doc,
           \A c \in calls' : Claims(c) => \E b \in calls : /\ Claims(b) /\ b.row = c.row
                                                           /\ b.project = c.project
    PROVE  LinkInv'
<1>1. /\ link # 0 => (link \in late' \/ rows'[link] = Gone \/ rows'[link].doc = project.doc)
      /\ \A c \in calls : Claims(c) =>
           (c.row \in late' \/ rows'[c.row] = Gone \/ rows'[c.row].doc = c.project.doc)
  BY ClaimsHoldOn
<1>2. link' # 0 => Holds(link, project.doc)'
  BY <1>1 DEF Holds, project
<1>3. \A c \in calls' : Claims(c) =>
        (c.row \in late' \/ rows'[c.row] = Gone \/ rows'[c.row].doc = c.project.doc)
  BY <1>1
<1> QED
  BY <1>1, <1>3 DEF LinkInv, Holds, Claims, project

LEMMA EditingLink == ASSUME WorkspaceTypeOK, LinkInv, Editing PROVE LinkInv'
<1>1. Keeps /\ link' \in {link, 0}
  BY EditingPreserves DEF Editing
<1>2. rows' = rows /\ calls' = calls /\ late' = late
  BY DEF Editing, accountVars
<1>3. RowsKept
  BY <1>2, SameRowsKept
<1> QED
  BY <1>1, <1>2, <1>3, LinkFollows DEF Keeps

LEMMA SavingLink == ASSUME WorkspaceTypeOK, LinkInv, Saving PROVE LinkInv'
<1>1. rows' = rows /\ late' = late
  BY DEF Saving, Autosave, OtherTab, Unmount, Mount, Reload, accountVars
<1>2. RowsKept
  BY <1>1, SameRowsKept
<1>3. CASE ~Reload
  <2>1. calls' = calls /\ link' \in {link, 0} /\ work' = work
    BY <1>3 DEF Saving, Autosave, OtherTab, Unmount, Mount, accountVars, editorVars
  <2> QED
    BY <1>2, <2>1, LinkFollows
<1>4. CASE Reload
  <2>1. link' = 0 /\ calls' = {[c EXCEPT !.heard = FALSE] : c \in calls}
    BY <1>4 DEF Reload
  <2>2. ASSUME NEW c \in calls
        PROVE  LET q == [c EXCEPT !.heard = FALSE]
               IN  q.kind = c.kind /\ q.state = c.state /\ q.row = c.row /\ q.project = c.project
    <3> DEFINE h == c.heard
               no == FALSE
               q == [c EXCEPT !.heard = no]
    <3>1. CallIs(c, Len(rows), strayed)
      BY DEF WorkspaceTypeOK
    <3>2. PICK id, kind, row, d, state :
            c = [id |-> id, kind |-> kind, row |-> row, project |-> d, state |-> state, heard |-> h]
      BY <3>1 DEF CallIs
    <3> HIDE DEF h, no
    <3>3. q.kind = c.kind /\ q.state = c.state /\ q.row = c.row /\ q.project = c.project
      BY <3>2
    <3> QED
      BY <3>3 DEF no
  <2>3. ASSUME NEW c \in calls', Claims(c)
        PROVE  \E b \in calls : Claims(b) /\ b.row = c.row /\ b.project = c.project
    <3>1. PICK b \in calls : c = [b EXCEPT !.heard = FALSE]
      BY <2>1
    <3>2. c.kind = b.kind /\ c.state = b.state /\ c.row = b.row /\ c.project = b.project
      BY <2>2, <3>1, Zenon
    <3> QED
      BY <2>3, <3>2 DEF Claims
  <2> QED
    BY <1>2, <2>1, <2>3, LinkFollows
<1> QED
  BY <1>3, <1>4

-----------------------------------------------------------------------------
(* What the account keeps.                                                     *)

\* The account leaves the document alone, but for the one it opens.
LEMMA AccountLeaves ==
    ASSUME WorkspaceTypeOK, Account
    PROVE  /\ strayed' = strayed /\ plan' = plan /\ mode' = mode /\ docs' = docs
           /\ stored' = stored /\ mounted' = mounted /\ timer' \in BOOLEAN
           /\ \/ work' = work
              \/ \E c \in calls : OpenAnswered(c)
BY DEF Account, SaveToAccount, SaveCurrentAsNew, OpenRow, RemoveRow, Call, Serve, Fail, Answered,
       CreateAnswered, OpenAnswered, RemoveAnswered, OtherwiseAnswered, Noticed, editorVars, saveVars,
       WorkspaceTypeOK

LEMMA AccountTypeFrom ==
    ASSUME WorkspaceTypeOK, Account, Moves(work, work', strayed'),
           rows' \in Seq(Fit(strayed) \cup {Gone}), link' \in 0 .. Len(rows'),
           \A c \in calls' : CallIs(c, Len(rows'), strayed)
    PROVE  WorkspaceTypeOK'
<1>1. /\ strayed' = strayed /\ plan' = plan /\ mode' = mode /\ docs' = docs
      /\ stored' = stored /\ mounted' = mounted /\ timer' \in BOOLEAN
  BY AccountLeaves
<1>2. /\ strayed \in BOOLEAN /\ PlanIs(plan, strayed) /\ mode \in Modes /\ docs \in Nat
      /\ stored \in Fit(strayed) /\ mounted \in BOOLEAN
  BY DEF WorkspaceTypeOK
<1> QED
  BY <1>1, <1>2, TypeAfter

\* Every call that is made is about the document on screen, and its row is the
\* one that document is linked to, if it is to be written.
LEMMA CallStep ==
    ASSUME WorkspaceTypeOK, LinkInv, Account, NEW kind, NEW row, Call(kind, row),
           \/ kind = "create" /\ row = 0
           \/ kind = "update" /\ row = link /\ link # 0
           \/ kind \in {"open", "remove"} /\ row \in DOMAIN rows
    PROVE  WorkspaceTypeOK' /\ LinkInv'
<1>0. /\ project \in Fit(strayed) /\ rows \in Seq(Fit(strayed) \cup {Gone}) /\ Len(rows) \in Nat
      /\ link \in 0 .. Len(rows) /\ (\A c \in calls : CallIs(c, Len(rows), strayed))
      /\ DOMAIN rows = 1 .. Len(rows)
  BY ProjectIsFit, LenProperties DEF WorkspaceTypeOK
<1> DEFINE q == [id |-> asked, kind |-> kind, row |-> row, project |-> project,
                 state |-> "sent", heard |-> TRUE]
<1>1. /\ rows' = rows /\ late' = late /\ link' = link /\ work' = work /\ strayed' = strayed
      /\ calls' = calls \cup {q}
  BY DEF Call, editorVars
<1>2. q.id = asked /\ q.kind = kind /\ q.row = row /\ q.project = project /\ q.state = "sent" /\ q.heard = TRUE
  OBVIOUS
<1>a. q = [id |-> q.id, kind |-> q.kind, row |-> q.row, project |-> q.project,
           state |-> q.state, heard |-> q.heard]
  OBVIOUS
<1> HIDE DEF q
<1>3. row \in 0 .. Len(rows) /\ (kind # "create" => row # 0)
      /\ kind \in {"create", "update", "open", "remove"}
  BY <1>0
<1>4. CallIs(q, Len(rows), strayed)
  BY <1>0, <1>2, <1>3, <1>a DEF CallIs
<1>5. WorkspaceTypeOK'
  BY <1>0, <1>1, <1>4, SameWork, AccountTypeFrom
<1>6. RowsKept
  BY <1>1, SameRowsKept
<1>7. /\ link # 0 => (link \in late' \/ rows'[link] = Gone \/ rows'[link].doc = project.doc)
      /\ \A c \in calls : Claims(c) =>
           (c.row \in late' \/ rows'[c.row] = Gone \/ rows'[c.row].doc = c.project.doc)
  BY <1>6, ClaimsHoldOn
<1>8. Claims(q) => (q.row \in late' \/ rows'[q.row] = Gone \/ rows'[q.row].doc = q.project.doc)
  BY <1>2, <1>7 DEF Claims
<1>9. LinkInv'
  BY <1>1, <1>7, <1>8 DEF LinkInv, Holds, Claims, project
<1> QED
  BY <1>5, <1>9

LEMMA ServeStep ==
    ASSUME WorkspaceTypeOK, LinkInv, Account, NEW c \in calls, Serve(c)
    PROVE  WorkspaceTypeOK' /\ LinkInv'
<1>0. /\ rows \in Seq(Fit(strayed) \cup {Gone}) /\ Len(rows) \in Nat
      /\ link \in 0 .. Len(rows) /\ (\A b \in calls : CallIs(b, Len(rows), strayed))
  BY LenProperties DEF WorkspaceTypeOK
<1>1. late' = late /\ link' = link /\ work' = work /\ strayed' = strayed
  BY DEF Serve, editorVars
<1>2. PICK q : /\ calls' = (calls \ {c}) \cup {q}
               /\ CallIs(q, Len(rows'), strayed) /\ q.kind = c.kind
               /\ rows' \in Seq(Fit(strayed) \cup {Gone})
               /\ \/ /\ c.kind = "create" /\ rows' = Append(rows, c.project)
                     /\ q.state = "ok" /\ q.row = Len(rows) + 1 /\ q.project = c.project
                  \/ /\ c.kind = "open" /\ rows' = rows /\ c.row \in 1 .. Len(rows)
                     /\ q.state = "ok" /\ q.row = c.row /\ q.project = rows[c.row]
                  \/ /\ c.kind = "update" /\ rows' = [rows EXCEPT ![c.row] = c.project]
                     /\ c.row \in 1 .. Len(rows) /\ rows[c.row] # Gone
                     /\ q.state = "ok" /\ q.row = c.row /\ q.project = c.project
                  \/ /\ c.kind = "remove" /\ rows' = [rows EXCEPT ![c.row] = Gone]
                     /\ c.row \in 1 .. Len(rows)
                     /\ q.state = "ok" /\ q.row = c.row /\ q.project = c.project
                  \/ /\ q.state = "failed" /\ rows' = rows /\ q.row = c.row
                     /\ q.project = c.project
  BY ServedRows
<1>3. Len(rows') \in Nat /\ Len(rows) <= Len(rows')
  <2>1. CASE rows' = Append(rows, c.project)
    BY <1>0, <2>1, AppendProperties
  <2>2. CASE rows' = rows
    BY <1>0, <2>2
  <2>3. ASSUME NEW d, rows' = [rows EXCEPT ![c.row] = d] PROVE Len(rows') = Len(rows)
    BY <1>0, <1>2, <2>3, LenProperties
  <2> QED
    BY <1>0, <1>2, <2>1, <2>2, <2>3
<1>4. WorkspaceTypeOK'
  <2>1. \A b \in calls' : CallIs(b, Len(rows'), strayed)
    <3>1. PICK s \in BOOLEAN : s = strayed
      BY DEF WorkspaceTypeOK
    <3>2. \A b \in calls : CallIs(b, Len(rows'), s)
      BY <1>0, <1>3, <3>1, CallLater
    <3> QED
      BY <1>2, <3>1, <3>2
  <2>2. link' \in 0 .. Len(rows')
    BY <1>0, <1>1, <1>3
  <2> QED
    BY <1>1, <1>2, <2>1, <2>2, SameWork, AccountTypeFrom
<1>5. RowsKept
  <2>1. CASE c.kind = "create" /\ rows' = Append(rows, c.project)
    <3>1. \A r \in 1 .. Len(rows) : rows'[r] = rows[r]
      BY <1>0, <2>1, AppendProperties
    <3> QED
      BY <1>1, <1>3, <3>1 DEF RowsKept
  <2>2. CASE rows' = rows
    BY <1>1, <2>2, SameRowsKept
  <2>3. CASE c.kind = "update" /\ rows' = [rows EXCEPT ![c.row] = c.project] /\ rows[c.row] # Gone
    <3>1. c.row \in late \/ rows[c.row].doc = c.project.doc
      BY <2>3 DEF LinkInv, Claims, Holds
    <3>2. \A r \in 1 .. Len(rows) : rows'[r] = IF r = c.row THEN c.project ELSE rows[r]
      BY <1>0, <2>3
    <3>3. ASSUME NEW r \in 1 .. Len(rows)
          PROVE  r \in late' \/ rows'[r] = Gone \/ (rows[r] # Gone /\ rows'[r].doc = rows[r].doc)
      BY <1>1, <2>3, <3>1, <3>2
    <3> QED
      BY <1>1, <1>3, <3>3 DEF RowsKept
  <2>4. CASE c.kind = "remove" /\ rows' = [rows EXCEPT ![c.row] = Gone]
    <3>1. \A r \in 1 .. Len(rows) : rows'[r] = IF r = c.row THEN Gone ELSE rows[r]
      BY <1>0, <2>4
    <3> QED
      BY <1>1, <1>3, <3>1 DEF RowsKept
  <2> QED
    BY <1>2, <2>1, <2>2, <2>3, <2>4
<1>6. /\ link # 0 => (link \in late' \/ rows'[link] = Gone \/ rows'[link].doc = project.doc)
      /\ \A b \in calls : Claims(b) =>
           (b.row \in late' \/ rows'[b.row] = Gone \/ rows'[b.row].doc = b.project.doc)
  BY <1>5, ClaimsHoldOn
<1>7. Claims(q) => (q.row \in late' \/ rows'[q.row] = Gone \/ rows'[q.row].doc = q.project.doc)
  <2>1. CASE c.kind = "create" /\ rows' = Append(rows, c.project) /\ q.row = Len(rows) + 1 /\ q.project = c.project
    <3>1. rows'[q.row] = c.project
      <4> DEFINE S == Fit(strayed) \cup {Gone}
      <4>1. rows \in Seq(S) /\ c.project \in S
        BY <1>0 DEF CallIs
      <4> HIDE DEF S
      <4> QED
        BY <2>1, <4>1, AppendProperties
    <3> QED
      BY <2>1, <3>1
  <2>2. CASE c.kind = "open" /\ rows' = rows /\ q.row = c.row /\ q.project = rows[c.row]
    BY <2>2
  <2>3. CASE c.kind = "update" /\ rows' = [rows EXCEPT ![c.row] = c.project] /\ q.row = c.row
             /\ c.row \in 1 .. Len(rows) /\ q.project = c.project
    <3>1. rows'[c.row] = c.project
      BY <1>0, <2>3
    <3> QED
      BY <2>3, <3>1
  <2>4. CASE c.kind = "remove"
    BY <1>2, <2>4 DEF Claims
  <2>5. CASE q.state = "failed" /\ rows' = rows /\ q.row = c.row /\ q.project = c.project
    BY <1>2, <1>6, <2>5 DEF Claims
  <2> QED
    BY <1>2, <2>1, <2>2, <2>3, <2>4, <2>5
<1>8. LinkInv'
  BY <1>1, <1>2, <1>6, <1>7 DEF LinkInv, Holds, Claims, project
<1> QED
  BY <1>4, <1>8

\* An answer that gets through, or does not.
LEMMA AnswerStep ==
    ASSUME WorkspaceTypeOK, LinkInv, Account, NEW c \in calls,
           \/ Fail(c) \/ CreateAnswered(c) \/ OpenAnswered(c) \/ RemoveAnswered(c)
           \/ OtherwiseAnswered(c)
    PROVE  WorkspaceTypeOK' /\ LinkInv'
<1>0. /\ rows \in Seq(Fit(strayed) \cup {Gone}) /\ Len(rows) \in Nat
      /\ link \in 0 .. Len(rows) /\ (\A b \in calls : CallIs(b, Len(rows), strayed))
      /\ CallIs(c, Len(rows), strayed)
  BY LenProperties DEF WorkspaceTypeOK
<1>1. rows' = rows /\ strayed' = strayed /\ late \subseteq late'
  BY DEF Fail, CreateAnswered, OpenAnswered, RemoveAnswered, OtherwiseAnswered, Answered, editorVars
<1>2. RowsKept
  BY <1>1, SameRowsKept
<1>3. /\ link # 0 => (link \in late' \/ rows'[link] = Gone \/ rows'[link].doc = project.doc)
      /\ \A b \in calls : Claims(b) =>
           (b.row \in late' \/ rows'[b.row] = Gone \/ rows'[b.row].doc = b.project.doc)
  BY <1>2, ClaimsHoldOn
<1>4. CASE Fail(c)
  <2> DEFINE q == [c EXCEPT !.state = "failed"]
  <2>1. calls' = (calls \ {c}) \cup {q} /\ work' = work /\ link' = link /\ late' = late
    BY <1>4 DEF Fail, Fails, Answering, editorVars
  <2>2. CallIs(q, Len(rows), strayed) /\ q.kind = c.kind /\ q.state = "failed" /\ q.row = c.row
        /\ q.project = c.project
    BY <1>0, FailedIs
  <2> HIDE DEF q
  <2>3. \A b \in calls' : CallIs(b, Len(rows'), strayed)
    BY <1>0, <1>1, <2>1, <2>2
  <2>4. WorkspaceTypeOK'
    BY <1>0, <1>1, <2>1, <2>3, SameWork, AccountTypeFrom
  <2>5. Claims(q) => Claims(c)
    BY <2>2 DEF Claims
  <2>6. LinkInv'
    BY <1>2, <2>1, <2>2, <2>5, LinkFollows
  <2> QED
    BY <2>4, <2>6
<1>5. CASE ~Fail(c)
  <2>1. calls' = calls \ {c}
    BY <1>5 DEF CreateAnswered, OpenAnswered, RemoveAnswered, OtherwiseAnswered, Answered
  <2>2. \A b \in calls' : CallIs(b, Len(rows'), strayed)
    BY <1>0, <1>1, <2>1
  <2>3. CASE RemoveAnswered(c) \/ OtherwiseAnswered(c)
    <3>1. work' = work /\ link' \in {link, 0}
      BY <2>3 DEF RemoveAnswered, OtherwiseAnswered, editorVars
    <3>2. link' \in 0 .. Len(rows')
      BY <1>0, <1>1, <3>1
    <3>3. WorkspaceTypeOK'
      BY <1>0, <1>1, <2>2, <3>1, <3>2, SameWork, AccountTypeFrom
    <3>4. LinkInv'
      BY <1>2, <2>1, <3>1, LinkFollows
    <3> QED
      BY <3>3, <3>4
  <2>4. CASE CreateAnswered(c)
    <3>1. work' = work /\ link' = c.row /\ Claims(c)
          /\ late' = late \cup {r \in {c.row} : c.project.doc # project.doc}
      BY <2>4 DEF CreateAnswered, Claims
    <3>2. link' \in 0 .. Len(rows')
      BY <1>0, <1>1, <3>1 DEF CallIs
    <3>3. WorkspaceTypeOK'
      BY <1>0, <1>1, <2>2, <3>1, <3>2, SameWork, AccountTypeFrom
    <3>4. c.row \in late' \/ rows'[c.row] = Gone \/ rows'[c.row].doc = project.doc
      BY <1>3, <3>1
    <3>5. LinkInv'
      BY <1>3, <2>1, <3>1, <3>4 DEF LinkInv, Holds, Claims, project
    <3> QED
      BY <3>3, <3>5
  <2>5. CASE OpenAnswered(c)
    <3> DEFINE p == UniqueIds(c.project)
    <3>1. work' = [past |-> <<>>, project |-> p, future |-> <<>>] /\ link' = c.row /\ Claims(c)
      BY <2>5 DEF OpenAnswered, LoadProject, Claims
    <3>2. p \in Fit(strayed) /\ p.doc = c.project.doc
      BY <1>0, ReadIsFit DEF CallIs
    <3> HIDE DEF p
    <3>3. Moves(work, work', strayed')
      BY <1>1, <3>1, <3>2 DEF Moves
    <3>4. link' \in 0 .. Len(rows')
      BY <1>0, <1>1, <3>1 DEF CallIs
    <3>5. WorkspaceTypeOK'
      BY <1>0, <1>1, <2>2, <3>3, <3>4, AccountTypeFrom
    <3>6. c.row \in late' \/ rows'[c.row] = Gone \/ rows'[c.row].doc = p.doc
      BY <1>3, <3>1, <3>2
    <3>7. work'.project = p
      BY <3>1
    <3>8. LinkInv'
      BY <1>3, <2>1, <3>1, <3>6, <3>7 DEF LinkInv, Holds, Claims, project
    <3> QED
      BY <3>5, <3>8
  <2> QED
    BY <1>5, <2>3, <2>4, <2>5
<1> QED
  BY <1>4, <1>5

LEMMA AccountStep == ASSUME WorkspaceTypeOK, LinkInv, Account PROVE WorkspaceTypeOK' /\ LinkInv'
<1>1. CASE SaveToAccount \/ SaveCurrentAsNew
  <2>1. Call("create", 0) \/ (link # 0 /\ Call("update", link))
    BY <1>1 DEF SaveToAccount, SaveCurrentAsNew
  <2> QED
    BY <2>1, CallStep
<1>2. ASSUME NEW r \in DOMAIN rows, OpenRow(r) \/ RemoveRow(r)
      PROVE  WorkspaceTypeOK' /\ LinkInv'
  <2>1. Call("open", r) \/ Call("remove", r)
    BY <1>2 DEF OpenRow, RemoveRow
  <2> QED
    BY <2>1, CallStep
<1> QED
  BY <1>1, <1>2, ServeStep, AnswerStep DEF Account

-----------------------------------------------------------------------------
(* The whole.                                                                  *)

Ours == WorkspaceTypeOK /\ LinkInv

LEMMA WorkspaceInit == Init => Ours /\ WorkIsOnItsWay /\ T!Init
<1> SUFFICES ASSUME Init PROVE Ours /\ WorkIsOnItsWay /\ T!Init
  OBVIOUS
<1> USE DEF Init, EditorInit
<1>0. EmptyProject(1) \in Fit(strayed)
  BY EmptyIsFit
<1>1. work.past = <<>> /\ work.future = <<>> /\ work.project = EmptyProject(1)
      /\ work = [past |-> work.past, project |-> work.project, future |-> work.future]
  OBVIOUS
<1>2. Len(work.past) + Len(work.future) <= HistoryLimit /\ Len(work.past) = 0
  BY <1>1, EditorAssumption
<1>3. History(work, strayed)
  BY <1>0, <1>1, <1>2 DEF History
<1>4. WorkspaceTypeOK
  <2>1. rows \in Seq(Fit(strayed) \cup {Gone}) /\ link \in 0 .. Len(rows)
    OBVIOUS
  <2>2. mode \in Modes /\ PlanIs(plan, strayed) /\ docs \in Nat
    BY DEF Modes, PlanIs
  <2>3. stored \in Fit(strayed)
    BY <1>0 DEF project
  <2>4. strayed \in BOOLEAN /\ timer \in BOOLEAN /\ mounted \in BOOLEAN /\ calls = {}
    OBVIOUS
  <2> QED
    BY <1>3, <2>1, <2>2, <2>3, <2>4, Zenon DEF WorkspaceTypeOK
<1>5. LinkInv
  BY DEF LinkInv
<1>6. WorkIsOnItsWay
  BY DEF WorkIsOnItsWay, project
<1>7. T!Init
  <2>1. Len(work.past \o <<work.project>> \o work.future) = 1
    BY <1>1
  <2> QED
    BY <1>2, <2>1 DEF T!Init
<1> QED
  BY <1>4, <1>5, <1>6, <1>7 DEF Ours

LEMMA WorkspaceStuttering ==
    ASSUME Ours, UNCHANGED vars
    PROVE  WorkspaceTypeOK' /\ LinkInv'
BY DEF Ours, vars, editorVars, saveVars, accountVars, WorkspaceTypeOK, History, PlanIs, AskedPlan,
       ProposedPlan, StartedPlan, LinkInv, Holds, Claims, project

LEMMA OursStep == ASSUME Ours, [Next]_vars PROVE Ours'
<1>1. CASE Editing
  BY <1>1, EditingType, EditingLink DEF Ours
<1>2. CASE Saving
  BY <1>2, SavingType, SavingLink DEF Ours
<1>3. CASE Account
  BY <1>3, AccountStep DEF Ours
<1>4. CASE UNCHANGED vars
  BY <1>4, WorkspaceStuttering DEF Ours
<1> QED
  BY <1>1, <1>2, <1>3, <1>4 DEF Next

LEMMA OnItsWayStep == ASSUME Ours, WorkIsOnItsWay, [Next]_vars PROVE WorkIsOnItsWay'
<1>0. stored \in Fit(strayed) /\ project \in Fit(strayed)
  BY ProjectIsFit DEF Ours, WorkspaceTypeOK
<1>1. ASSUME Noticed, stored' = stored PROVE WorkIsOnItsWay'
  BY <1>1 DEF Noticed, WorkIsOnItsWay, project
<1>2. CASE Editing
  BY <1>1, <1>2 DEF Editing
<1>3. CASE Autosave \/ Unmount
  BY <1>3 DEF Autosave, Unmount, SaveWorkspace, WorkIsOnItsWay, project, editorVars
<1>4. CASE OtherTab
  BY <1>4 DEF OtherTab, WorkIsOnItsWay
<1>5. CASE Mount
  BY <1>5 DEF Mount, WorkIsOnItsWay, project, editorVars
<1>6. CASE Reload
  <2>1. stored' \in Fit(strayed) /\ work'.project = UniqueIds(stored')
    BY <1>0, <1>6 DEF Reload, SaveWorkspace
  <2>2. UniqueIds(UniqueIds(stored')) = UniqueIds(stored')
    BY <2>1, ReadIsFit
  <2> QED
    BY <2>1, <2>2 DEF WorkIsOnItsWay, project
<1>7. CASE Account
  <2>1. stored' = stored
    BY <1>7, AccountLeaves DEF Ours
  <2>2. CASE \E c \in calls : OpenAnswered(c)
    BY <1>1, <2>1, <2>2 DEF OpenAnswered
  <2>3. CASE ~\E c \in calls : OpenAnswered(c)
    <3>1. work' = work /\ timer' = timer /\ adrift' = adrift
      BY <1>7, <2>3 DEF Account, SaveToAccount, SaveCurrentAsNew, OpenRow, RemoveRow, Call, Serve, Fail,
                        CreateAnswered, RemoveAnswered, OtherwiseAnswered, editorVars, saveVars
    <3> QED
      BY <2>1, <3>1 DEF WorkIsOnItsWay, project
  <2> QED
    BY <2>2, <2>3
<1>8. CASE UNCHANGED vars
  BY <1>8 DEF vars, editorVars, saveVars, WorkIsOnItsWay, project
<1> QED
  BY <1>2, <1>3, <1>4, <1>5, <1>6, <1>7, <1>8 DEF Next, Saving

\* Every step is a move of the document's history.
LEMMA EveryStepMoves ==
    ASSUME Ours, [Next]_vars
    PROVE  Moves(work, work', strayed') /\ strayed' \in BOOLEAN /\ (strayed => strayed')
<1> USE DEF Ours
<1>1. CASE Editing
  BY <1>1, EditingPreserves DEF Editing, Keeps
<1>2. CASE Saving /\ ~Reload
  <2>1. work' = work /\ strayed' = strayed
    BY <1>2 DEF Saving, Autosave, OtherTab, Unmount, Mount, editorVars
  <2> QED
    BY <2>1, SameWork
<1>3. CASE Reload
  <2>1. /\ work' = [past |-> <<>>, project |-> UniqueIds(stored'), future |-> <<>>]
        /\ strayed' = strayed /\ strayed \in BOOLEAN /\ stored' \in Fit(strayed)
    BY <1>3, ProjectIsFit DEF Reload, SaveWorkspace, WorkspaceTypeOK
  <2>2. UniqueIds(stored') \in Fit(strayed)
    BY <2>1, ReadIsFit
  <2> QED
    BY <2>1, <2>2 DEF Moves
<1>4. CASE Account
  <2>1. strayed' = strayed /\ strayed \in BOOLEAN
    BY <1>4, AccountLeaves DEF WorkspaceTypeOK
  <2>2. CASE work' = work
    BY <2>1, <2>2, SameWork
  <2>3. ASSUME NEW c \in calls, OpenAnswered(c) PROVE Moves(work, work', strayed')
    <3>1. work' = [past |-> <<>>, project |-> UniqueIds(c.project), future |-> <<>>]
      BY <2>3 DEF OpenAnswered, LoadProject
    <3>2. UniqueIds(c.project) \in Fit(strayed)
      BY ReadIsFit DEF WorkspaceTypeOK, CallIs
    <3> QED
      BY <2>1, <3>1, <3>2 DEF Moves
  <2> QED
    BY <1>4, <2>1, <2>2, <2>3, AccountLeaves
<1>5. CASE UNCHANGED vars
  BY <1>5, SameWork DEF vars, editorVars, WorkspaceTypeOK
<1> QED
  BY <1>1, <1>2, <1>3, <1>4, <1>5 DEF Next, Saving

LEMMA TimelineStep == ASSUME Ours, [Next]_vars PROVE [T!Next]_(T!vars)
<1>1. Moves(work, work', strayed') /\ strayed' \in BOOLEAN /\ (strayed => strayed')
  BY EveryStepMoves
<1>2. PICK s \in BOOLEAN : s = strayed
  BY DEF Ours, WorkspaceTypeOK
<1>3. PICK t \in BOOLEAN : t = strayed'
  BY <1>1
<1>4. (s => t) /\ History(work, s) /\ Moves(work, work', t)
  BY <1>1, <1>2, <1>3 DEF Ours, WorkspaceTypeOK
<1>5. History(work, t) /\ History(work', t)
  BY <1>4, HistoryLater, MovesKeepHistory
<1> QED
  BY <1>4, <1>5, MovesAreTimeline

LEMMA HistoryIsSound == ASSUME WorkspaceTypeOK PROVE SoundUnlessStrayed
<1> SUFFICES ASSUME ~strayed
             PROVE  \A p \in Range(work.past \o <<work.project>> \o work.future) : Sound(p)
  BY DEF SoundUnlessStrayed
<1> DEFINE V == Versions(work.project, strayed)
           p == work.past
           x == work.project
           f == work.future
           t == p \o <<x>> \o f
<1>1. p \in Seq(V) /\ x \in V /\ f \in Seq(V)
  BY DEF WorkspaceTypeOK, History, Versions
<1>2. \A q \in V : Sound(q)
  BY DEF Versions, Fit
<1> HIDE DEF V, p, x, f
<1>3. t \in Seq(V)
  BY <1>1, TapeIs
<1> HIDE DEF t
<1>4. \A q \in Range(t) : q \in V
  BY <1>3, ElementOfSeq, LenProperties DEF Range
<1> QED
  BY <1>2, <1>4 DEF t, p, x, f

(* The invariant holds in every state the store, the browser's storage and the *)
(* account can reach together (store.ts, MenuBar.tsx).                         *)
THEOREM OursAlways == Spec => []Ours
<1>1. Init => Ours
  BY WorkspaceInit
<1>2. Ours /\ [Next]_vars => Ours'
  BY OursStep
<1> QED
  BY <1>1, <1>2, PTL DEF Spec

\* Every document, and every state of it that undo can bring back, has ids of its
\* own for its parts and wires that end on parts, unless a half-drawn wire outlived
\* its part or a plan ran on another document (store.ts, agent/run.ts).
THEOREM DocumentsAreSound == Spec => []SoundUnlessStrayed
<1>1. Ours => SoundUnlessStrayed
  BY HistoryIsSound DEF Ours
<1> QED
  BY <1>1, OursAlways, PTL

\* What is on screen is stored, on its way to the storage, or behind for one of
\* the reasons the code knows (persistence.ts, Studio.tsx).
THEOREM WorkIsSaved == Spec => []WorkIsOnItsWay
<1>1. Init => WorkIsOnItsWay
  BY WorkspaceInit
<1>2. Ours /\ WorkIsOnItsWay /\ [Next]_vars => WorkIsOnItsWay'
  BY OnItsWayStep
<1> QED
  BY <1>1, <1>2, OursAlways, PTL DEF Spec

\* The account's project a document is linked to holds that document, unless a late
\* answer linked it (MenuBar.tsx, CloudProjectsDialog.tsx).
THEOREM LinksAreOwn == Spec => []LinkIsItsOwn
<1>1. Ours => LinkIsItsOwn
  BY DEF Ours, LinkInv, Holds, LinkIsItsOwn
<1> QED
  BY <1>1, OursAlways, PTL

\* The undo stack of store.ts implements a line of states with a cursor, whatever
\* edits, plans, documents that are opened and answers do to it.
THEOREM UndoIsATimeline == Spec => ImplementsTimeline
<1>1. Init => T!Init
  BY WorkspaceInit
<1>2. Ours /\ [Next]_vars => [T!Next]_(T!vars)
  BY TimelineStep
<1> QED
  BY <1>1, <1>2, OursAlways, PTL DEF Spec, ImplementsTimeline, T!Spec
==============================================================================
