--------------------------- MODULE BlueprintProofs ---------------------------
(***************************************************************************)
(* Every blueprint is well formed, for any sets of IDs and group names.    *)
(* The conjunction BlueprintInv is inductive; the cover of the cast groups *)
(* needs only the types, the two facts about trigger groups hold together. *)
(***************************************************************************)
EXTENDS Blueprint, TLAPS

BlueprintInv == TypeOK /\ EndsExist /\ TriggersAntichain /\ TriggersCover /\ CastsCover

\* The types hold initially and every operation of the blueprint keeps them.
LEMMA TypeInit == Init => TypeOK
  <1> SUFFICES ASSUME Init PROVE TypeOK
    OBVIOUS
  <1>1. [n \in AllNeurons |-> {}] \in [AllNeurons -> SUBSET SUBSET LinkIDs]
    OBVIOUS
  <1>2. panicked \in BOOLEAN
    BY Zenon DEF Init
  <1>3. castGroups \in [AllNeurons -> [GroupNames -> SUBSET LinkIDs]]
    BY DEF Init
  <1> QED
    BY <1>1, <1>2, <1>3 DEF Init, TypeOK

\* Every operation on a blueprint keeps the types.
LEMMA TypeStep == TypeOK /\ [Next]_vars => TypeOK'
  <1> SUFFICES ASSUME TypeOK, [Next]_vars PROVE TypeOK'
    OBVIOUS
  <1> USE NamesAssumption DEF TypeOK, AllNeurons
  <1>1. ASSUME NEW n \in NeuronIDs, AddNeuron(n) PROVE TypeOK'
    BY <1>1 DEF AddNeuron
  <1>2. ASSUME NEW l \in LinkIDs, NEW from \in AllNeurons, NEW to \in AllNeurons,
               AddLink(l, from, to) PROVE TypeOK'
    BY <1>2 DEF AddLink, NewLink, addInLink, addOutLink
  <1>3. ASSUME NEW l \in LinkIDs, NEW to \in AllNeurons, AddEntryLinkTo(l, to) PROVE TypeOK'
    BY <1>3 DEF AddEntryLinkTo, NewLink, addInLink
  <1>4. ASSUME NEW l \in LinkIDs, NEW from \in AllNeurons, AddEndLinkFrom(l, from)
        PROVE TypeOK'
    BY <1>4 DEF AddEndLinkFrom, ensureEndNeuron, NewLink, addInLink, addOutLink
  <1>5. ASSUME NEW from \in AllNeurons, AddLinkFromNil(from) PROVE TypeOK'
    BY <1>5 DEF AddLinkFromNil
  <1>6. ASSUME NEW n \in AllNeurons, NEW g \in SUBSET LinkIDs, AddTriggerGroup(n, g)
        PROVE TypeOK'
    BY <1>6 DEF AddTriggerGroup
  <1>7. ASSUME NEW n \in AllNeurons, NEW name \in GroupNames, NEW ls \in SUBSET LinkIDs,
               AddCastGroup(n, name, ls) PROVE TypeOK'
    BY <1>7 DEF AddCastGroup
  <1>8. CASE Clone
    BY <1>8 DEF Clone, deepCopy
  <1>9. CASE UNCHANGED vars
    BY <1>9 DEF vars
  <1> QED
    BY <1>1, <1>2, <1>3, <1>4, <1>5, <1>6, <1>7, <1>8, <1>9 DEF Next

\* A fresh link has no ends in the blueprint's lists, and NewLink adds it to
\* the lists of its two ends and to no other.
LEMMA NewLinkLists ==
  ASSUME TypeOK, NEW l \in LinkIDs, NEW from, NEW to, NewLink(l, from, to), NEW n
  PROVE  /\ ListInLinks(n)' = ListInLinks(n) \cup (IF n = to THEN {l} ELSE {})
         /\ ListOutLinks(n)' = ListOutLinks(n) \cup (IF n = from THEN {l} ELSE {})
         /\ l \notin ListInLinks(n)
  BY DEF TypeOK, NewLink, ListInLinks, ListOutLinks

\* A new in-link makes a trigger group of its own, comparable with no other.
LEMMA AddInLinkStep ==
  ASSUME TypeOK, TriggersAntichain, TriggersCover,
         NEW l \in LinkIDs, NEW from, NEW to \in AllNeurons,
         NewLink(l, from, to), addInLink(to, l)
  PROVE  TriggersAntichain' /\ TriggersCover'
  <1>1. \A n \in AllNeurons :
           triggerGroups'[n] = triggerGroups[n] \cup (IF n = to THEN {{l}} ELSE {})
    BY DEF TypeOK, addInLink
  <1>2. \A n \in AllNeurons : l \notin UNION triggerGroups[n]
    BY NewLinkLists DEF TriggersCover, InLinkIDs
  <1>3. TriggersCover'
    <2> SUFFICES ASSUME NEW n \in AllNeurons PROVE InLinkIDs(n)' = ListInLinks(n)'
      BY DEF TriggersCover
    <2>1. InLinkIDs(n)' = InLinkIDs(n) \cup (IF n = to THEN {l} ELSE {})
      <3>1. CASE n = to
        <4>1. triggerGroups'[n] = triggerGroups[n] \cup {{l}}
          BY <1>1, <3>1
        <4> QED
          BY <3>1, <4>1 DEF InLinkIDs
      <3>2. CASE n # to
        BY <1>1, <3>2 DEF InLinkIDs
      <3> QED
        BY <3>1, <3>2
    <2> QED
      BY <2>1, NewLinkLists DEF TriggersCover
  <1>4. TriggersAntichain'
    <2>0. \A n \in AllNeurons : {} \notin triggerGroups'[n]
      BY <1>1 DEF TriggersAntichain
    <2> SUFFICES ASSUME NEW n \in AllNeurons, NEW g \in triggerGroups'[n],
                        NEW h \in triggerGroups'[n], g \subseteq h
                 PROVE  g = h
      BY <2>0 DEF TriggersAntichain
    <2>1. CASE g \in triggerGroups[n] /\ h \in triggerGroups[n]
      BY <2>1 DEF TriggersAntichain
    <2>2. CASE g = {l} /\ h \in triggerGroups[n]
      BY <1>2, <2>2
    <2>3. CASE g \in triggerGroups[n] /\ h = {l}
      <3>1. g = {} \/ g = {l}
        BY <2>3
      <3> QED
        BY <1>2, <2>3, <3>1 DEF TriggersAntichain
    <2> QED
      BY <1>1, <2>1, <2>2, <2>3
  <1> QED
    BY <1>3, <1>4

\* A new out-link joins the default cast group of its source.
LEMMA AddOutLinkStep ==
  ASSUME TypeOK, CastsCover,
         NEW l \in LinkIDs, NEW from \in AllNeurons, NEW to,
         NewLink(l, from, to), addOutLink(from, l)
  PROVE  CastsCover'
  <1> SUFFICES ASSUME NEW n \in AllNeurons PROVE OutLinkIDs(n)' = ListOutLinks(n)'
    BY DEF CastsCover
  <1>1. OutLinkIDs(n)' = OutLinkIDs(n) \cup (IF n = from THEN {l} ELSE {})
    <2>1. CASE n = from
      <3>1. /\ castGroups'[n][Default] = castGroups[n][Default] \cup {l}
            /\ \A g \in GroupNames \ {Default} : castGroups'[n][g] = castGroups[n][g]
        BY <2>1, NamesAssumption DEF TypeOK, addOutLink
      <3> QED
        BY <2>1, <3>1, NamesAssumption DEF OutLinkIDs
    <2>2. CASE n # from
      BY <2>2 DEF TypeOK, addOutLink, OutLinkIDs
    <2> QED
      BY <2>1, <2>2
  <1> QED
    BY <1>1, NewLinkLists DEF CastsCover

\* AddTriggerGroup keeps the antichain and the cover. A deletion followed by
\* the early return would need a group strictly inside another.
LEMMA AddTriggerGroupStep ==
  ASSUME TypeOK, TriggersAntichain, TriggersCover,
         NEW m \in AllNeurons, NEW g \in SUBSET LinkIDs, AddTriggerGroup(m, g)
  PROVE  TriggersAntichain' /\ TriggersCover'
  <1> DEFINE Contained == {h \in triggerGroups[m] : h \subseteq g}
             Containing == {h \in triggerGroups[m] : g \subseteq h}
  <1>0. \A n \in AllNeurons : ListInLinks(n)' = ListInLinks(n)
    BY DEF AddTriggerGroup, ListInLinks
  <1>1. CASE Containing = {}
    <2>1. /\ triggerGroups'[m] = (triggerGroups[m] \ Contained) \cup {g}
          /\ \A n \in AllNeurons \ {m} : triggerGroups'[n] = triggerGroups[n]
      BY <1>1 DEF TypeOK, AddTriggerGroup, SlicesContains
    <2>2. {} \notin triggerGroups'[m]
      BY <2>1 DEF AddTriggerGroup, SlicesContains, TriggersAntichain
    <2>3. ASSUME NEW h \in triggerGroups'[m], NEW k \in triggerGroups'[m], h \subseteq k
          PROVE  h = k
      <3>1. CASE h \in triggerGroups[m] /\ k \in triggerGroups[m]
        BY <2>3, <3>1 DEF TriggersAntichain
      <3>2. CASE h = g /\ k # g
        BY <1>1, <2>1, <2>3, <3>2
      <3>3. CASE h # g /\ k = g
        BY <1>1, <2>1, <2>3, <3>3
      <3> QED
        BY <2>1, <3>1, <3>2, <3>3
    <2>4. UNION triggerGroups'[m] = UNION triggerGroups[m]
      <3>1. g \subseteq UNION triggerGroups[m]
        BY DEF AddTriggerGroup, hasInLink, InLinkIDs
      <3>2. UNION Contained \subseteq g
        OBVIOUS
      <3> QED
        BY <2>1, <3>1, <3>2
    <2>5. TriggersAntichain'
      BY <2>1, <2>2, <2>3 DEF TriggersAntichain
    <2>6. TriggersCover'
      BY <1>0, <2>1, <2>4 DEF TriggersCover, InLinkIDs
    <2> QED
      BY <2>5, <2>6
  <1>2. CASE Containing # {}
    <2>1. Contained \ Containing = {}
      BY <1>2 DEF TriggersAntichain
    <2>2. triggerGroups' = triggerGroups
      <3>1. PICK deleted \in SUBSET (Contained \ Containing) :
               triggerGroups' = [triggerGroups EXCEPT ![m] = @ \ deleted]
        BY <1>2 DEF AddTriggerGroup, SlicesContains
      <3> QED
        BY <2>1, <3>1 DEF TypeOK
    <2> QED
      BY <1>0, <2>2 DEF TriggersAntichain, TriggersCover, InLinkIDs
  <1> QED
    BY <1>1, <1>2

\* AddCastGroup regroups out-links it found in the neuron's groups.
LEMMA AddCastGroupStep ==
  ASSUME TypeOK, CastsCover, NEW m \in AllNeurons, NEW name \in GroupNames,
         NEW ls \in SUBSET LinkIDs, AddCastGroup(m, name, ls)
  PROVE  CastsCover'
  <1>1. \A g \in GroupNames : castGroups'[m][g] =
           IF g = name THEN castGroups[m][g] \cup ls
           ELSE IF g = Default THEN castGroups[m][g] \ ls ELSE castGroups[m][g]
    BY DEF TypeOK, AddCastGroup
  <1>2. OutLinkIDs(m)' = OutLinkIDs(m)
    <2>1. ls \subseteq OutLinkIDs(m)
      BY DEF AddCastGroup, hasOutLink, OutLinkIDs
    <2>2. ASSUME NEW x \in OutLinkIDs(m)' PROVE x \in OutLinkIDs(m)
      <3>1. PICK g \in GroupNames : x \in castGroups'[m][g]
        BY <2>2 DEF OutLinkIDs
      <3>2. x \in ls \/ x \in castGroups[m][g]
        BY <1>1, <3>1
      <3>3. x \in castGroups[m][g] => x \in OutLinkIDs(m)
        BY DEF OutLinkIDs
      <3> QED
        BY <2>1, <3>2, <3>3
    <2>3. ASSUME NEW x \in OutLinkIDs(m) PROVE x \in OutLinkIDs(m)'
      <3>1. PICK g \in GroupNames : x \in castGroups[m][g]
        BY <2>3 DEF OutLinkIDs
      <3>2. x \in castGroups'[m][g] \/ x \in castGroups'[m][name]
        BY <1>1, <3>1
      <3> QED
        BY <3>2 DEF OutLinkIDs
    <2> QED
      BY <2>2, <2>3
  <1>3. \A n \in AllNeurons \ {m} : OutLinkIDs(n)' = OutLinkIDs(n)
    BY DEF TypeOK, AddCastGroup, OutLinkIDs
  <1>4. \A n \in AllNeurons : ListOutLinks(n)' = ListOutLinks(n)
    BY DEF AddCastGroup, ListOutLinks
  <1> QED
    BY <1>2, <1>3, <1>4 DEF CastsCover

\* The inductive step, operation by operation.
LEMMA BlueprintStep == BlueprintInv /\ [Next]_vars => BlueprintInv'
  <1> SUFFICES ASSUME BlueprintInv, [Next]_vars PROVE BlueprintInv'
    OBVIOUS
  <1> USE DEF BlueprintInv
  <1>0. TypeOK'
    BY TypeStep
  <1>1. ASSUME NEW n \in NeuronIDs, AddNeuron(n) PROVE BlueprintInv'
    BY <1>0, <1>1 DEF AddNeuron, EndsExist, TriggersAntichain, TriggersCover, CastsCover,
      InLinkIDs, OutLinkIDs, ListInLinks, ListOutLinks
  <1>2. ASSUME NEW l \in LinkIDs, NEW from \in AllNeurons, NEW to \in AllNeurons,
               AddLink(l, from, to) PROVE BlueprintInv'
    <2>1. EndsExist'
      BY <1>2 DEF AddLink, NewLink, EndsExist, TypeOK
    <2> QED
      BY <1>0, <1>2, <2>1, AddInLinkStep, AddOutLinkStep DEF AddLink
  <1>3. ASSUME NEW l \in LinkIDs, NEW to \in AllNeurons, AddEntryLinkTo(l, to)
        PROVE BlueprintInv'
    <2>1. EndsExist'
      BY <1>3 DEF AddEntryLinkTo, NewLink, EndsExist, TypeOK
    <2>2. CastsCover'
      <3>1. \A n \in AllNeurons : ListOutLinks(n)' = ListOutLinks(n)
        <4>1. NewLink(l, EntryLinkFrom, to)
          BY <1>3 DEF AddEntryLinkTo
        <4>2. EntryLinkFrom \notin AllNeurons
          BY NamesAssumption DEF AllNeurons
        <4> QED
          BY <4>1, <4>2 DEF NewLink, ListOutLinks, TypeOK
      <3> QED
        BY <1>3, <3>1 DEF AddEntryLinkTo, CastsCover, OutLinkIDs
    <2> QED
      BY <1>0, <1>3, <2>1, <2>2, AddInLinkStep DEF AddEntryLinkTo
  <1>4. ASSUME NEW l \in LinkIDs, NEW from \in AllNeurons, AddEndLinkFrom(l, from)
        PROVE BlueprintInv'
    <2>1. EndsExist'
      BY <1>4 DEF AddEndLinkFrom, ensureEndNeuron, NewLink, EndsExist, TypeOK
    <2>2. EndNeuronID \in AllNeurons
      BY DEF AllNeurons
    <2> QED
      BY <1>0, <1>4, <2>1, <2>2, AddInLinkStep, AddOutLinkStep DEF AddEndLinkFrom, ensureEndNeuron
  <1>5. ASSUME NEW from \in AllNeurons, AddLinkFromNil(from) PROVE BlueprintInv'
    BY <1>0, <1>5 DEF AddLinkFromNil, EndsExist, TriggersAntichain, TriggersCover, CastsCover,
      InLinkIDs, OutLinkIDs, ListInLinks, ListOutLinks
  <1>6. ASSUME NEW n \in AllNeurons, NEW g \in SUBSET LinkIDs, AddTriggerGroup(n, g)
        PROVE BlueprintInv'
    <2>1. TriggersAntichain' /\ TriggersCover'
      BY <1>6, AddTriggerGroupStep
    <2> QED
      BY <1>0, <1>6, <2>1 DEF AddTriggerGroup, EndsExist, CastsCover, OutLinkIDs, ListOutLinks
  <1>7. ASSUME NEW n \in AllNeurons, NEW name \in GroupNames, NEW ls \in SUBSET LinkIDs,
               AddCastGroup(n, name, ls) PROVE BlueprintInv'
    <2>1. CastsCover'
      BY <1>7, AddCastGroupStep
    <2> QED
      BY <1>0, <1>7, <2>1 DEF AddCastGroup, EndsExist, TriggersAntichain, TriggersCover,
        InLinkIDs, ListInLinks
  <1>8. CASE Clone
    BY <1>0, <1>8 DEF Clone, deepCopy, EndsExist, TriggersAntichain, TriggersCover, CastsCover, InLinkIDs,
      OutLinkIDs, ListInLinks, ListOutLinks
  <1>9. CASE UNCHANGED vars
    BY <1>0, <1>9 DEF vars, EndsExist, TriggersAntichain, TriggersCover, CastsCover, InLinkIDs,
      OutLinkIDs, ListInLinks, ListOutLinks
  <1> QED
    BY <1>1, <1>2, <1>3, <1>4, <1>5, <1>6, <1>7, <1>8, <1>9 DEF Next

\* Every blueprint the operations can build is well formed.
THEOREM BlueprintInvariant == Spec => []BlueprintInv
  <1>1. Init => BlueprintInv
    <2> SUFFICES ASSUME Init PROVE BlueprintInv
      OBVIOUS
    <2>1. \A n \in AllNeurons : InLinkIDs(n) = {} /\ OutLinkIDs(n) = {}
      BY DEF Init, InLinkIDs, OutLinkIDs
    <2>2. \A n \in AllNeurons : ListInLinks(n) = {} /\ ListOutLinks(n) = {}
      BY DEF Init, ListInLinks, ListOutLinks
    <2>3. EndsExist /\ TriggersAntichain
      BY DEF Init, EndsExist, TriggersAntichain
    <2> QED
      BY <2>1, <2>2, <2>3, TypeInit DEF BlueprintInv, TriggersCover, CastsCover
  <1> QED
    BY <1>1, BlueprintStep, PTL DEF Spec

\* Whatever the order AddTriggerGroup meets the groups in, no trigger group is
\* empty or contains another.
THEOREM TriggerGroupsAntichain == Spec => []TriggersAntichain
  <1>1. BlueprintInv => TriggersAntichain
    BY DEF BlueprintInv
  <1> QED
    BY <1>1, BlueprintInvariant, PTL

\* Regrouping with AddTriggerGroup loses no in-link of a neuron and adopts no
\* foreign one.
THEOREM TriggerGroupsCover == Spec => []TriggersCover
  <1>1. BlueprintInv => TriggersCover
    BY DEF BlueprintInv
  <1> QED
    BY <1>1, BlueprintInvariant, PTL

\* Regrouping with AddCastGroup loses no out-link of a neuron and adopts no
\* foreign one.
THEOREM CastGroupsCover == Spec => []CastsCover
  <1>1. BlueprintInv => CastsCover
    BY DEF BlueprintInv
  <1> QED
    BY <1>1, BlueprintInvariant, PTL

\* The types; only the END neuron is without a castGroups map.
THEOREM BlueprintTypes == Spec => []TypeOK
  <1>1. BlueprintInv => TypeOK
    BY DEF BlueprintInv
  <1> QED
    BY <1>1, BlueprintInvariant, PTL

\* Both ends of every link are neurons of the blueprint, or its source is the
\* external signal.
THEOREM LinkEndsExist == Spec => []EndsExist
  <1>1. BlueprintInv => EndsExist
    BY DEF BlueprintInv
  <1> QED
    BY <1>1, BlueprintInvariant, PTL

=============================================================================
