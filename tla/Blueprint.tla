------------------------------ MODULE Blueprint ------------------------------
(***************************************************************************)
(* A blueprint under construction (src/brainprint.go, src/neuron.go,       *)
(* src/link.go): neurons and links are added, in-links are arranged in     *)
(* trigger groups and out-links in cast groups.  BuildBrain reads the      *)
(* result; the assumptions BrainLocal makes on its topology are what is    *)
(* shown of every blueprint here.                                          *)
(*                                                                         *)
(* A group is the set of its links; a cast group that does not exist and   *)
(* one that is empty are the same, no code tells them apart.  The IDs that *)
(* GenIDShort makes are taken to be fresh.                                 *)
(***************************************************************************)
EXTENDS Integers, FiniteSets

CONSTANTS
    NeuronIDs,     \* the IDs GenIDShort can give to neurons
    LinkIDs,       \* the IDs GenIDShort can give to links
    GroupNames,    \* names of cast groups
    Default,       \* processor.DefaultCastGroupName
    EndNeuronID,   \* core.EndNeuronID
    EntryLinkFrom, \* core.EntryLinkFrom
    NoID           \* src and dest of a link that does not exist yet

ASSUME NamesAssumption ==
    /\ Default \in GroupNames
    /\ EndNeuronID \notin NeuronIDs
    /\ EntryLinkFrom \notin NeuronIDs \cup {EndNeuronID}
    /\ NoID \notin NeuronIDs \cup {EndNeuronID, EntryLinkFrom}

VARIABLES
    neurons,       \* keys of brainprint.neurons
    links,         \* keys of brainprint.links
    src, dest,     \* link.src and link.dest
    triggerGroups, \* neuron.triggerGroups
    castGroups,    \* neuron.castGroups
    nilCasts,      \* neurons whose castGroups map is nil
    panicked       \* the program wrote to a nil map

vars == << neurons, links, src, dest, triggerGroups, castGroups, nilCasts, panicked >>

AllNeurons == NeuronIDs \cup {EndNeuronID}

\* ListInLinkIDs and ListOutLinkIDs: as the groups of the neuron have them.
InLinkIDs(n)  == UNION triggerGroups[n]
OutLinkIDs(n) == UNION {castGroups[n][name] : name \in GroupNames}
hasInLink(n, l)  == \E g \in triggerGroups[n] : l \in g
hasOutLink(n, l) == \E name \in GroupNames : l \in castGroups[n][name]
SlicesContains(s, sub) == sub \subseteq s

\* ListInLinks and ListOutLinks: as the blueprint's links have them.
ListInLinks(n)  == {l \in links : dest[l] = n}
ListOutLinks(n) == {l \in links : src[l] = n}

-----------------------------------------------------------------------------

\* NewBlueprint
Init ==
    /\ neurons = {} /\ links = {}
    /\ src = [l \in LinkIDs |-> NoID] /\ dest = [l \in LinkIDs |-> NoID]
    /\ triggerGroups = [n \in AllNeurons |-> {}]
    /\ castGroups = [n \in AllNeurons |-> [name \in GroupNames |-> {}]]
    /\ nilCasts = {} /\ panicked = FALSE

\* Mutant: newNeuron makes no castGroups map.
AddNeuronNil(n) ==
    /\ n \notin neurons
    /\ neurons' = neurons \cup {n} /\ nilCasts' = nilCasts \cup {n}
    /\ UNCHANGED << links, src, dest, triggerGroups, castGroups, panicked >>

AddNeuron(n) ==
    /\ n \notin neurons
    /\ neurons' = neurons \cup {n}
    /\ UNCHANGED << links, src, dest, triggerGroups, castGroups, nilCasts, panicked >>

\* newLink, newEntryLink, newEndLink and the entry in brainprint.links.
NewLink(l, from, to) ==
    /\ l \in LinkIDs \ links
    /\ links' = links \cup {l}
    /\ src' = [src EXCEPT ![l] = from]
    /\ dest' = [dest EXCEPT ![l] = to]

\* A new in-link is a trigger group of its own; a new out-link joins the
\* default cast group.
addInLink(n, l)  == triggerGroups' = [triggerGroups EXCEPT ![n] = @ \cup {{l}}]
addOutLink(n, l) == castGroups' = [castGroups EXCEPT ![n][Default] = @ \cup {l}]

AddLink(l, from, to) ==
    /\ from \in neurons /\ to \in neurons
    /\ from \notin nilCasts
    /\ NewLink(l, from, to)
    /\ addOutLink(from, l)
    /\ addInLink(to, l)
    /\ UNCHANGED << neurons, nilCasts, panicked >>

AddEntryLinkTo(l, to) ==
    /\ to \in neurons
    /\ NewLink(l, EntryLinkFrom, to)
    /\ addInLink(to, l)
    /\ UNCHANGED << neurons, castGroups, nilCasts, panicked >>

\* newEndNeuron makes no castGroups map.
ensureEndNeuron ==
    /\ neurons' = neurons \cup {EndNeuronID}
    /\ nilCasts' = IF EndNeuronID \in neurons THEN nilCasts ELSE nilCasts \cup {EndNeuronID}

\* Mutant: ensureEndNeuron is not called.
AddEndLinkFromOnly(l, from) ==
    /\ from \in neurons
    /\ from \notin nilCasts
    /\ NewLink(l, from, EndNeuronID)
    /\ addOutLink(from, l)
    /\ addInLink(EndNeuronID, l)
    /\ UNCHANGED << neurons, nilCasts, panicked >>

AddEndLinkFrom(l, from) ==
    /\ from \in neurons
    /\ from \notin nilCasts
    /\ ensureEndNeuron
    /\ NewLink(l, from, EndNeuronID)
    /\ addOutLink(from, l)
    /\ addInLink(EndNeuronID, l)
    /\ UNCHANGED panicked

\* addOutLink of AddLink and AddEndLinkFrom on a neuron without a map.
AddLinkFromNil(from) ==
    /\ from \in neurons \cap nilCasts
    /\ panicked' = TRUE
    /\ UNCHANGED << neurons, links, src, dest, triggerGroups, castGroups, nilCasts >>

\* Mutant: the groups the new one contains are kept.
AddTriggerGroupKeep(n, g) ==
    /\ n \in neurons
    /\ g # {} /\ \A l \in g : hasInLink(n, l)
    /\ triggerGroups' = [triggerGroups EXCEPT ![n] = @ \cup {g}]
    /\ UNCHANGED << neurons, links, src, dest, castGroups, nilCasts, panicked >>

\* Mutant: the groups that share a link with the new one are deleted.
AddTriggerGroupOverlap(n, g) ==
    /\ n \in neurons
    /\ g # {} /\ \A l \in g : hasInLink(n, l)
    /\ triggerGroups' = [triggerGroups EXCEPT ![n] = {h \in @ : h \cap g = {}} \cup {g}]
    /\ UNCHANGED << neurons, links, src, dest, castGroups, nilCasts, panicked >>

\* The loop of AddTriggerGroup meets the groups of the map in any order. It
\* deletes the groups the new one contains, and returns at the first group
\* that contains the new one: the groups deleted by then stay deleted.
AddTriggerGroup(n, g) ==
    /\ n \in neurons
    /\ g # {} /\ \A l \in g : hasInLink(n, l)
    /\ LET Contained == {h \in triggerGroups[n] : SlicesContains(g, h)}
           Containing == {h \in triggerGroups[n] : SlicesContains(h, g)}
       IN \/ /\ Containing = {}
             /\ triggerGroups' = [triggerGroups EXCEPT ![n] = (@ \ Contained) \cup {g}]
          \/ /\ Containing # {}
             /\ \E deleted \in SUBSET (Contained \ Containing) :
                   triggerGroups' = [triggerGroups EXCEPT ![n] = @ \ deleted]
    /\ UNCHANGED << neurons, links, src, dest, castGroups, nilCasts, panicked >>

\* Mutant: a group of that name is overwritten.
AddCastGroupOverwrite(n, name, ls) ==
    /\ n \in neurons
    /\ \A l \in ls : hasOutLink(n, l)
    /\ castGroups' = [castGroups EXCEPT ![n] = [g \in GroupNames |->
          IF g = name THEN ls ELSE IF g = Default THEN @[g] \ ls ELSE @[g]]]
    /\ nilCasts' = nilCasts \ {n}
    /\ UNCHANGED << neurons, links, src, dest, triggerGroups, panicked >>

\* AddCastGroup moves the links out of the default group into the named one.
AddCastGroup(n, name, ls) ==
    /\ n \in neurons
    /\ \A l \in ls : hasOutLink(n, l)
    /\ castGroups' = [castGroups EXCEPT ![n] = [g \in GroupNames |->
          IF g = name THEN @[g] \cup ls ELSE IF g = Default THEN @[g] \ ls ELSE @[g]]]
    /\ nilCasts' = nilCasts \ {n}
    /\ UNCHANGED << neurons, links, src, dest, triggerGroups, panicked >>

\* The copies of the neurons have the same groups, and all a castGroups map.
deepCopy == nilCasts' = {} /\ UNCHANGED << triggerGroups, castGroups >>

\* Clone, and the program goes on with the copy.
Clone ==
    /\ deepCopy
    /\ UNCHANGED << neurons, links, src, dest, panicked >>

Next ==
    /\ ~panicked
    /\ \/ \E n \in NeuronIDs : AddNeuron(n)
       \/ \E l \in LinkIDs, from, to \in AllNeurons : AddLink(l, from, to)
       \/ \E l \in LinkIDs, to \in AllNeurons : AddEntryLinkTo(l, to)
       \/ \E l \in LinkIDs, from \in AllNeurons : AddEndLinkFrom(l, from)
       \/ \E from \in AllNeurons : AddLinkFromNil(from)
       \/ \E n \in AllNeurons, g \in SUBSET LinkIDs : AddTriggerGroup(n, g)
       \/ \E n \in AllNeurons, name \in GroupNames, ls \in SUBSET LinkIDs :
             AddCastGroup(n, name, ls)
       \/ Clone

Spec == Init /\ [][Next]_vars

-----------------------------------------------------------------------------

\* The types; only END can be without a castGroups map.
TypeOK ==
    /\ neurons \subseteq AllNeurons /\ links \subseteq LinkIDs
    /\ src \in [LinkIDs -> AllNeurons \cup {EntryLinkFrom, NoID}]
    /\ dest \in [LinkIDs -> AllNeurons \cup {NoID}]
    /\ triggerGroups \in [AllNeurons -> SUBSET SUBSET LinkIDs]
    /\ castGroups \in [AllNeurons -> [GroupNames -> SUBSET LinkIDs]]
    /\ nilCasts \subseteq {EndNeuronID} /\ panicked \in BOOLEAN

\* No trigger group of a neuron is empty or contains another one, whatever order
\* AddTriggerGroup met them in ("only the largest trigger condition needs to be
\* defined", comment of AddTriggerGroup): the early return of its loop never
\* comes after a deletion.
TriggersAntichain ==
    \A n \in AllNeurons :
        /\ {} \notin triggerGroups[n]
        /\ \A g, h \in triggerGroups[n] : g \subseteq h => g = h

\* Regrouping never loses an in-link and never adopts a foreign one: the links
\* in a neuron's trigger groups are the blueprint's links into the neuron.
TriggersCover == \A n \in AllNeurons : InLinkIDs(n) = ListInLinks(n)

\* The same of cast groups and out-links, with AddCastGroup taking links out of
\* the default group.
CastsCover == \A n \in AllNeurons : OutLinkIDs(n) = ListOutLinks(n)

\* Both ends of every link exist: BuildBrain finds the neurons it looks up.
EndsExist == \A l \in links : dest[l] \in neurons /\ src[l] \in neurons \cup {EntryLinkFrom}

=============================================================================
