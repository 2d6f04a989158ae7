-------------------------- MODULE ProjectHooksProofs --------------------------
(***************************************************************************)
(* Proofs about the project hook installer, for any installers, requests   *)
(* and files.                                                              *)
(***************************************************************************)
EXTENDS ProjectHooks, OrderLemmas, FiniteSetTheorems, SequenceTheorems,
        FunctionTheorems

-----------------------------------------------------------------------------
(* The places of a finite set of naturals.                                 *)

LEMMA FiniteWithin ==
  ASSUME NEW N \in Nat, NEW S \in SUBSET (1 .. N)
  PROVE  IsFiniteSet(S)
<1>1. 1 \in Int /\ N \in Int
  OBVIOUS
<1>2. IsFiniteSet(1 .. N)
  BY <1>1, FS_Interval
<1> QED  BY <1>2, FS_Subset

\* Later members have later places, all of them up to the cardinality.
LEMMA PlacesGrow ==
  ASSUME NEW N \in Nat, NEW S \in SUBSET (1 .. N), NEW k \in S
  PROVE  /\ IsFiniteSet(S)
         /\ Place(k, S) \in 1 .. Cardinality(S)
         /\ \A j \in S : j < k => Place(j, S) < Place(k, S)
<1> DEFINE Upto(j) == {i \in S : i <= j}
<1>1. IsFiniteSet(S)
  BY FiniteWithin
<1>2. \A j \in S : /\ IsFiniteSet(Upto(j))
                   /\ Cardinality(Upto(j)) \in Nat
                   /\ Cardinality(Upto(j)) <= Cardinality(S)
  BY <1>1, FS_Subset, FS_CardinalityType
<1>3. Cardinality(Upto(k)) # 0
  <2>1. Upto(k) # {}
    OBVIOUS
  <2> QED  BY <1>2, <2>1, FS_EmptySet
<1>4. ASSUME NEW j \in S, j < k  PROVE Cardinality(Upto(j)) < Cardinality(Upto(k))
  <2>1. j \in Int /\ k \in Int /\ \A i \in S : i \in Int
    OBVIOUS
  <2>2. k \in Upto(k) /\ k \notin Upto(j)
    BY <1>4, <2>1
  <2>3. \A i \in S : i <= j => i <= k
    BY <1>4, <2>1
  <2>4. Upto(j) \in SUBSET Upto(k)
    BY <2>3
  <2>5. /\ Cardinality(Upto(j)) <= Cardinality(Upto(k))
        /\ Cardinality(Upto(k)) = Cardinality(Upto(j)) => Upto(k) = Upto(j)
    BY <1>2, <2>4, FS_Subset
  <2> QED  BY <1>2, <2>2, <2>5
<1>5. Cardinality(S) \in Nat
  BY <1>1, FS_CardinalityType
<1> QED  BY <1>1, <1>2, <1>3, <1>4, <1>5 DEF Place

\* Every place up to the cardinality is one of a member: were there places
\* without a member, the greatest of them would be that before a member.
LEMMA PlacesFilled ==
  ASSUME NEW N \in Nat, NEW S \in SUBSET (1 .. N), NEW n \in 1 .. Cardinality(S)
  PROVE  \E k \in S : Place(k, S) = n
<1>1. IsFiniteSet(S) /\ Cardinality(S) \in Nat
  BY FiniteWithin, FS_CardinalityType
<1> DEFINE c == Cardinality(S)
           free == {m \in 1 .. c : \A k \in S : Place(k, S) # m}
<1>2. SUFFICES ASSUME n \in free  PROVE FALSE
  OBVIOUS
<1>3. PICK m \in free : \A l \in free : l <= m
  <2>1. free \in SUBSET (0 .. c) /\ free # {}
    BY <1>1, <1>2
  <2> HIDE DEF free
  <2> QED  BY <1>1, <2>1, GreatestNat
<1>4. m \in 1 .. c
  BY <1>3
<1>5. PICK b \in SUBSET S :
        /\ IsFiniteSet(b) /\ Cardinality(b) = m
        /\ \A i \in S, j \in b : i <= j => i \in b
  <2>1. CASE m = c
    BY <1>1, <2>1
  <2>2. CASE m # c
    <3>1. m + 1 \in 1 .. c /\ m + 1 \notin free
      BY <1>1, <1>3, <1>4, <2>2
    <3>2. PICK k \in S : Place(k, S) = m + 1
      BY <3>1
    <3> DEFINE up == {i \in S : i <= k}
    <3>3. IsFiniteSet(up) /\ Cardinality(up) = m + 1 /\ k \in up
      BY <1>1, <3>2, FS_Subset DEF Place
    <3>4. IsFiniteSet(up \ {k}) /\ Cardinality(up \ {k}) = m
      BY <1>4, <3>3, FS_RemoveElement
    <3>5. \A i \in S, j \in up \ {k} : i <= j => i \in up \ {k}
      OBVIOUS
    <3> QED  BY <3>4, <3>5
  <2> QED  BY <2>1, <2>2
<1>6. b # {}
  BY <1>4, <1>5, FS_EmptySet
<1>7. b \in SUBSET (0 .. N)
  OBVIOUS
<1>8. PICK last \in b : \A j \in b : j <= last
  BY <1>6, <1>7, GreatestNat
<1>9. b = {i \in S : i <= last}
  BY <1>5, <1>8
<1>10. last \in S /\ Place(last, S) = m
  BY <1>5, <1>8, <1>9 DEF Place
<1> QED  BY <1>3, <1>10

-----------------------------------------------------------------------------
(* The items of an entry.                                                  *)

\* No two items have the same command.
Single(items) ==
  \A i, j \in DOMAIN items : items[i].command = items[j].command => i = j

\* Dropping a command keeps the items with another one, and only these.
LEMMA WithoutItems ==
  ASSUME NEW items \in Seq(Item), NEW command
  PROVE  LET rest == Without(items, command)
         IN  /\ rest \in Seq(Item)
             /\ \A k \in DOMAIN items : items[k].command # command =>
                  \E n \in DOMAIN rest : rest[n] = items[k]
             /\ \A n \in DOMAIN rest : /\ rest[n].command # command
                                      /\ \E k \in DOMAIN items : rest[n] = items[k]
             /\ Single(items) => Single(rest)
<1> DEFINE kept == {k \in DOMAIN items : items[k].command # command}
           c == Cardinality(kept)
           at(n) == CHOOSE k \in kept : Place(k, kept) = n
           rest == Without(items, command)
<1>1. Len(items) \in Nat /\ kept \in SUBSET (1 .. Len(items))
  OBVIOUS
<1>2. \A k \in kept : items[k] \in Item /\ items[k].command # command
  OBVIOUS
<1>3. c \in Nat
  BY <1>1, FiniteWithin, FS_CardinalityType
<1>4. \A n \in 1 .. c : at(n) \in kept /\ Place(at(n), kept) = n
  <2> SUFFICES ASSUME NEW n \in 1 .. c
               PROVE  at(n) \in kept /\ Place(at(n), kept) = n
    OBVIOUS
  <2> HIDE DEF kept
  <2>1. \E k \in kept : Place(k, kept) = n
    BY <1>1, PlacesFilled
  <2> QED  BY <2>1
<1>5. \A k \in kept : Place(k, kept) \in 1 .. c /\ at(Place(k, kept)) = k
  <2> SUFFICES ASSUME NEW k \in kept
               PROVE  Place(k, kept) \in 1 .. c /\ at(Place(k, kept)) = k
    OBVIOUS
  <2> HIDE DEF kept
  <2>1. \A i \in kept : Place(i, kept) \in 1 .. c
    BY <1>1, PlacesGrow
  <2>2. at(Place(k, kept)) \in kept
          /\ Place(at(Place(k, kept)), kept) = Place(k, kept)
    BY <1>4, <2>1
  <2>3. \A i, j \in kept : j < i => Place(j, kept) < Place(i, kept)
    BY <1>1, PlacesGrow
  <2>4. \A i \in kept : i \in Int /\ Place(i, kept) \in Int
    BY <1>1, <2>1
  <2> QED  BY <2>1, <2>2, <2>3, <2>4
<1>6. rest = [n \in 1 .. c |-> items[at(n)]]
  BY DEF Without
<1> HIDE DEF kept, c, at, rest
<1>7. rest \in Seq(Item) /\ DOMAIN rest = 1 .. c
  <2>1. rest \in [1 .. c -> Item]
    BY <1>2, <1>4, <1>6
  <2> QED  BY <1>3, <2>1, SeqDef
<1>8. ASSUME NEW k \in DOMAIN items, items[k].command # command
      PROVE  \E n \in DOMAIN rest : rest[n] = items[k]
  <2>1. k \in kept
    BY <1>8 DEF kept
  <2> QED  BY <1>5, <1>6, <1>7, <2>1
<1>9. \A n \in DOMAIN rest : /\ rest[n].command # command
                             /\ \E k \in DOMAIN items : rest[n] = items[k]
  <2>1. \A k \in kept : k \in DOMAIN items
    BY DEF kept
  <2> QED  BY <1>2, <1>4, <1>6, <1>7, <2>1
<1>10. ASSUME Single(items)  PROVE Single(rest)
  <2> SUFFICES ASSUME NEW i \in 1 .. c, NEW j \in 1 .. c,
                      rest[i].command = rest[j].command
               PROVE  i = j
    BY <1>7 DEF Single
  <2>1. at(i) \in DOMAIN items /\ at(j) \in DOMAIN items
    BY <1>4 DEF kept
  <2>2. items[at(i)].command = items[at(j)].command
    BY <1>6
  <2>3. at(i) = at(j)
    BY <1>10, <2>1, <2>2 DEF Single
  <2> QED  BY <1>4, <2>3
<1> QED  BY <1>7, <1>8, <1>9, <1>10 DEF rest

\* Adding a hook to the items of an entry keeps every command.
LEMMA AddItemKeeps ==
  ASSUME NEW items \in Seq(Item), NEW r \in Request
  PROVE  LET new == AddItem(items, r)
         IN  /\ new \in Seq(Item)
             /\ \A k \in DOMAIN items :
                  \E n \in DOMAIN new : new[n].command = items[k].command
             /\ Single(items) => Single(new)
<1>1. Hook(r) \in Item /\ Hook(r).command = r.command
  BY DEF Hook, Item, Request
<1>2. ASSUME NEW old \in Seq(Item),
             \A n \in DOMAIN old : old[n].command # r.command
      PROVE  LET new == Append(old, Hook(r))
             IN  /\ new \in Seq(Item)
                 /\ \A k \in DOMAIN old : k \in DOMAIN new /\ new[k] = old[k]
                 /\ \E n \in DOMAIN new : new[n].command = r.command
                 /\ Single(old) => Single(new)
  <2> DEFINE new == Append(old, Hook(r))
  <2>1. /\ new \in Seq(Item) /\ Len(new) = Len(old) + 1
        /\ \A k \in 1 .. Len(old) : new[k] = old[k]
        /\ new[Len(old) + 1] = Hook(r)
    BY <1>1, AppendProperties
  <2>2. /\ Len(old) \in Nat /\ DOMAIN old = 1 .. Len(old)
        /\ DOMAIN new = 1 .. Len(old) + 1
    BY <2>1
  <2> HIDE DEF new
  <2>3. \A k \in DOMAIN new : k \in DOMAIN old \/ k = Len(old) + 1
    BY <2>2
  <2>4. Single(old) => Single(new)
    BY <1>1, <1>2, <2>1, <2>2, <2>3 DEF Single
  <2>5. Len(old) + 1 \in DOMAIN new
    BY <2>2
  <2>6. \A k \in DOMAIN old : k \in DOMAIN new /\ new[k] = old[k]
    BY <2>1, <2>2
  <2>7. new \in Seq(Item) /\ \E n \in DOMAIN new : new[n].command = r.command
    BY <1>1, <2>1, <2>5
  <2> QED  BY <2>4, <2>6, <2>7 DEF new
<1>3. CASE ~HasCommand(items, r.command)
  <2>1. \A n \in DOMAIN items : items[n].command # r.command
    BY <1>3 DEF HasCommand
  <2>2. AddItem(items, r) = Append(items, Hook(r))
    BY <1>3 DEF AddItem
  <2> QED  BY <1>2, <2>1, <2>2
<1>4. CASE HasCommand(items, r.command) /\ ~r.replace
  BY <1>4 DEF AddItem
<1>5. CASE HasCommand(items, r.command) /\ r.replace
  <2> DEFINE rest == Without(items, r.command)
             new == Append(rest, Hook(r))
  <2>1. /\ rest \in Seq(Item)
        /\ \A k \in DOMAIN items : items[k].command # r.command =>
             \E n \in DOMAIN rest : rest[n] = items[k]
        /\ \A n \in DOMAIN rest : rest[n].command # r.command
        /\ Single(items) => Single(rest)
    BY WithoutItems
  <2>2. AddItem(items, r) = new
    BY <1>5 DEF AddItem
  <2> HIDE DEF rest
  <2>3. /\ new \in Seq(Item)
        /\ \A k \in DOMAIN rest : k \in DOMAIN new /\ new[k] = rest[k]
        /\ \E n \in DOMAIN new : new[n].command = r.command
        /\ Single(rest) => Single(new)
    BY <1>2, <2>1
  <2> HIDE DEF new
  <2>4. ASSUME NEW k \in DOMAIN items
        PROVE  \E n \in DOMAIN new : new[n].command = items[k].command
    <3>1. CASE items[k].command = r.command
      BY <2>3, <3>1
    <3>2. CASE items[k].command # r.command
      BY <2>1, <2>3, <3>2
    <3> QED  BY <3>1, <3>2
  <2> QED  BY <2>1, <2>2, <2>3, <2>4
<1> QED  BY <1>3, <1>4, <1>5

-----------------------------------------------------------------------------
(* The entries of an event.                                                *)

\* The part of Registered, and of Distinct, about one event.
Pairs(entries) ==
  UNION {{<<entries[k].matcher, entries[k].items[n].command>> :
            n \in DOMAIN entries[k].items} : k \in DOMAIN entries}

OnePerMatcher(entries) ==
  \A k, n \in DOMAIN entries :
    /\ entries[k].matcher = entries[n].matcher => k = n
    /\ Single(entries[k].items)

\* The first of the matching entries.
LEMMA FirstMatching ==
  ASSUME NEW entries \in Seq(Entry), NEW r, Matching(entries, r) # {}
  PROVE  /\ Min(Matching(entries, r)) \in 1 .. Len(entries)
         /\ entries[Min(Matching(entries, r))].matcher = r.matcher
<1> DEFINE S == Matching(entries, r)
<1>1. S \in SUBSET Nat /\ S \in SUBSET (1 .. Len(entries))
  BY DEF Matching
<1>2. \E i \in S : \A j \in S : i <= j
  BY <1>1, LeastNat
<1>3. Min(S) \in S
  BY <1>2 DEF Min
<1> QED  BY <1>1, <1>3 DEF Matching

\* Adding a hook to the entries of an event keeps every pair of a matcher
\* and a command, and makes no second entry or item of a kind.
LEMMA AddEntryKeeps ==
  ASSUME NEW entries \in Seq(Entry), NEW r \in Request
  PROVE  LET new == AddEntry(entries, r)
         IN  /\ new \in Seq(Entry)
             /\ Pairs(entries) \subseteq Pairs(new)
             /\ OnePerMatcher(entries) => OnePerMatcher(new)
<1>1. /\ Len(entries) \in Nat /\ DOMAIN entries = 1 .. Len(entries)
      /\ \A k \in DOMAIN entries : entries[k].items \in Seq(Item)
  <2>1. /\ Len(entries) \in Nat /\ DOMAIN entries = 1 .. Len(entries)
        /\ \A k \in DOMAIN entries : entries[k] \in Entry
    OBVIOUS
  <2> QED  BY <2>1 DEF Entry
<1>2. CASE Matching(entries, r) = {}
  <2> DEFINE e == NewEntry(r)
             new == Append(entries, e)
  <2>1. AddEntry(entries, r) = new
    BY <1>2 DEF AddEntry
  <2>2. Hook(r) \in Item
    BY DEF Hook, Item, Request
  <2>3. <<Hook(r)>> \in Seq(Item) /\ r.matcher \in Matchers
    BY <2>2 DEF Request
  <2>4. e \in Entry /\ e.matcher = r.matcher /\ e.items = <<Hook(r)>>
    BY <2>3 DEF Entry, NewEntry
  <2>5. Single(e.items)
    BY <2>4 DEF Single
  <2> HIDE DEF e
  <2>6. /\ new \in Seq(Entry) /\ Len(new) = Len(entries) + 1
        /\ \A k \in 1 .. Len(entries) : new[k] = entries[k]
        /\ new[Len(entries) + 1] = e
    BY <2>4, AppendProperties
  <2> HIDE DEF new
  <2>7. DOMAIN new = 1 .. Len(entries) + 1
    BY <2>6
  <2>8. /\ \A k \in DOMAIN entries : k \in DOMAIN new
        /\ \A k \in DOMAIN new : k \in DOMAIN entries \/ k = Len(entries) + 1
        /\ \A k \in DOMAIN entries : k # Len(entries) + 1
    BY <1>1, <2>7
  <2>9. \A k \in DOMAIN entries : entries[k].matcher # r.matcher
    BY <1>2 DEF Matching
  <2>10. Pairs(entries) \subseteq Pairs(new)
    BY <1>1, <2>6, <2>8 DEF Pairs
  <2>11. ASSUME OnePerMatcher(entries)  PROVE OnePerMatcher(new)
    <3> SUFFICES ASSUME NEW k \in DOMAIN new, NEW n \in DOMAIN new
                 PROVE  /\ new[k].matcher = new[n].matcher => k = n
                        /\ Single(new[k].items)
      BY DEF OnePerMatcher
    <3>1. \A i \in DOMAIN entries : new[i] = entries[i]
      BY <1>1, <2>6
    <3>2. Single(new[k].items)
      BY <2>5, <2>6, <2>8, <2>11, <3>1 DEF OnePerMatcher
    <3>3. new[k].matcher = new[n].matcher => k = n
      BY <2>4, <2>6, <2>8, <2>9, <2>11, <3>1 DEF OnePerMatcher
    <3> QED  BY <3>2, <3>3
  <2> QED  BY <2>1, <2>6, <2>10, <2>11
<1>3. CASE Matching(entries, r) # {}
  <2> DEFINE m == Min(Matching(entries, r))
             old == entries[m].items
             added == AddItem(old, r)
             e == [entries[m] EXCEPT !.items = added]
             new == [entries EXCEPT ![m] = e]
  <2>1. m \in 1 .. Len(entries) /\ entries[m].matcher = r.matcher
    BY <1>3, FirstMatching
  <2> HIDE DEF m
  <2>2. AddEntry(entries, r) = new
    BY <1>3 DEF AddEntry, m
  <2>3. entries[m] \in Entry /\ old \in Seq(Item)
    BY <1>1, <2>1
  <2> HIDE DEF old
  <2>4. /\ added \in Seq(Item)
        /\ \A k \in DOMAIN old :
             \E n \in DOMAIN added : added[n].command = old[k].command
        /\ Single(old) => Single(added)
    BY <2>3, AddItemKeeps
  <2> HIDE DEF added
  <2>5. e \in Entry /\ e.matcher = entries[m].matcher /\ e.items = added
    BY <2>3, <2>4 DEF Entry
  <2> HIDE DEF e
  <2>6. /\ new \in Seq(Entry) /\ DOMAIN new = DOMAIN entries
        /\ \A k \in DOMAIN entries : new[k] = IF k = m THEN e ELSE entries[k]
    BY <1>1, <2>1, <2>5, ExceptSeq
  <2> HIDE DEF new
  <2>7. ASSUME NEW k \in DOMAIN entries, NEW n \in DOMAIN entries[k].items
        PROVE  <<entries[k].matcher, entries[k].items[n].command>> \in Pairs(new)
    <3>1. CASE k = m
      <4>1. n \in DOMAIN old /\ entries[k].items[n] = old[n]
        BY <2>7, <3>1 DEF old
      <4>2. PICK i \in DOMAIN added : added[i].command = old[n].command
        BY <2>4, <4>1
      <4>3. /\ new[k].matcher = entries[k].matcher /\ i \in DOMAIN new[k].items
            /\ new[k].items[i].command = entries[k].items[n].command
        BY <2>5, <2>6, <3>1, <4>1, <4>2
      <4> QED  BY <2>6, <4>3 DEF Pairs
    <3>2. CASE k # m
      <4>1. new[k] = entries[k]
        BY <2>6, <3>2
      <4> QED  BY <2>6, <2>7, <4>1 DEF Pairs
    <3> QED  BY <3>1, <3>2
  <2>8. Pairs(entries) \subseteq Pairs(new)
    BY <2>7 DEF Pairs
  <2>9. ASSUME OnePerMatcher(entries)  PROVE OnePerMatcher(new)
    <3>1. \A k \in DOMAIN entries : new[k].matcher = entries[k].matcher
      BY <2>5, <2>6
    <3>2. \A k \in DOMAIN entries : Single(new[k].items)
      BY <2>4, <2>5, <2>6, <2>9 DEF OnePerMatcher, old
    <3> QED  BY <2>6, <2>9, <3>1, <3>2 DEF OnePerMatcher
  <2> QED  BY <2>2, <2>6, <2>8, <2>9
<1> QED  BY <1>2, <1>3

-----------------------------------------------------------------------------
(* The settings.                                                           *)

\* Hooks that hold what others hold, without duplicates if these have none.
Extends(hooks, others) ==
  /\ \A e \in Events : Registered(others, e) \subseteq Registered(hooks, e)
  /\ Distinct(others) => Distinct(hooks)

\* Merging a request into settings extends them.
LEMMA MergeExtends ==
  ASSUME NEW hooks \in Hooks, NEW r \in Request
  PROVE  Merge(hooks, r) \in Hooks /\ Extends(Merge(hooks, r), hooks)
<1> DEFINE new == Merge(hooks, r)
<1>1. \A e \in Events : hooks[e] \in Seq(Entry)
  BY DEF Hooks
<1>2. ASSUME NEW e \in Events
      PROVE  /\ new[e] \in Seq(Entry)
             /\ Pairs(hooks[e]) \subseteq Pairs(new[e])
             /\ OnePerMatcher(hooks[e]) => OnePerMatcher(new[e])
  <2>1. new[e] = IF e \in r.events THEN AddEntry(hooks[e], r) ELSE hooks[e]
    BY <1>2 DEF Merge
  <2>2. hooks[e] \in Seq(Entry)
    BY <1>1, <1>2
  <2> QED  BY <2>1, <2>2, AddEntryKeeps
<1>3. new \in Hooks
  BY <1>2 DEF Merge, Hooks
<1> HIDE DEF new
<1>4. \A e \in Events : Registered(hooks, e) \subseteq Registered(new, e)
  BY <1>2 DEF Registered, Pairs
<1>5. Distinct(hooks) => Distinct(new)
  BY <1>2 DEF Distinct, OnePerMatcher, Single
<1> QED  BY <1>3, <1>4, <1>5 DEF Extends, new

-----------------------------------------------------------------------------
(* What a merge changes.                                                   *)

LEMMA AppendHolds ==
  ASSUME NEW S, NEW old \in Seq(S), NEW x \in S, NEW new, new = Append(old, x)
  PROVE  /\ new \in Seq(S)
         /\ \A k \in DOMAIN old : k \in DOMAIN new /\ new[k] = old[k]
         /\ \A n \in DOMAIN new :
              new[n] = x \/ \E k \in DOMAIN old : new[n] = old[k]
         /\ \E n \in DOMAIN new : new[n] = x
<1>1. /\ new \in Seq(S) /\ Len(new) = Len(old) + 1
      /\ \A k \in 1 .. Len(old) : new[k] = old[k]
      /\ new[Len(old) + 1] = x
  BY AppendProperties
<1>2. /\ Len(old) \in Nat /\ DOMAIN old = 1 .. Len(old)
      /\ DOMAIN new = 1 .. Len(old) + 1
  BY <1>1
<1>3. /\ \A k \in DOMAIN old : k \in DOMAIN new
      /\ \A n \in DOMAIN new : n \in DOMAIN old \/ n = Len(old) + 1
      /\ Len(old) + 1 \in DOMAIN new
  BY <1>2
<1> QED  BY <1>1, <1>2, <1>3

\* The items change by the hook of the request only: it is added, or it
\* takes the place of the items with its command; and it is there then.
LEMMA AddItemAsAsked ==
  ASSUME NEW items \in Seq(Item), NEW r \in Request
  PROVE  LET new == AddItem(items, r)
         IN  /\ \A n \in DOMAIN new :
                  new[n] = Hook(r) \/ \E k \in DOMAIN items : new[n] = items[k]
             /\ \A k \in DOMAIN items :
                  \/ \E n \in DOMAIN new : new[n] = items[k]
                  \/ r.replace /\ items[k].command = r.command
             /\ \E n \in DOMAIN new : /\ new[n].command = r.command
                                      /\ r.replace => new[n] = Hook(r)
<1>1. Hook(r) \in Item /\ Hook(r).command = r.command
  BY DEF Hook, Item, Request
<1>2. CASE ~HasCommand(items, r.command)
  <2>1. AddItem(items, r) = Append(items, Hook(r))
    BY <1>2 DEF AddItem
  <2> DEFINE new == AddItem(items, r)
  <2> HIDE DEF new
  <2>2. /\ \A k \in DOMAIN items : k \in DOMAIN new /\ new[k] = items[k]
        /\ \A n \in DOMAIN new :
             new[n] = Hook(r) \/ \E k \in DOMAIN items : new[n] = items[k]
        /\ \E n \in DOMAIN new : new[n] = Hook(r)
    <3>1. new = Append(items, Hook(r)) /\ Hook(r) \in Item
      BY <1>1, <2>1 DEF new
    <3> QED  BY <3>1, AppendHolds
  <2> QED  BY <1>1, <2>2 DEF new
<1>3. CASE HasCommand(items, r.command) /\ ~r.replace
  <2>1. AddItem(items, r) = items
    BY <1>3 DEF AddItem
  <2>2. \E n \in DOMAIN items : items[n].command = r.command
    BY <1>3 DEF HasCommand
  <2> QED  BY <1>3, <2>1, <2>2
<1>4. CASE HasCommand(items, r.command) /\ r.replace
  <2> DEFINE rest == Without(items, r.command)
             new == Append(rest, Hook(r))
  <2>1. AddItem(items, r) = new
    BY <1>4 DEF AddItem
  <2>2. /\ rest \in Seq(Item)
        /\ \A k \in DOMAIN items : items[k].command # r.command =>
             \E n \in DOMAIN rest : rest[n] = items[k]
        /\ \A n \in DOMAIN rest : \E k \in DOMAIN items : rest[n] = items[k]
    BY WithoutItems
  <2> HIDE DEF rest
  <2>3. /\ \A k \in DOMAIN rest : k \in DOMAIN new /\ new[k] = rest[k]
        /\ \A n \in DOMAIN new :
             new[n] = Hook(r) \/ \E k \in DOMAIN rest : new[n] = rest[k]
        /\ \E n \in DOMAIN new : new[n] = Hook(r)
    <3>1. rest \in Seq(Item) /\ Hook(r) \in Item /\ new = Append(rest, Hook(r))
      BY <1>1, <2>2
    <3> HIDE DEF new
    <3> QED  BY <3>1, AppendHolds
  <2> HIDE DEF new
  <2>4. \A n \in DOMAIN new :
          new[n] = Hook(r) \/ \E k \in DOMAIN items : new[n] = items[k]
    BY <2>2, <2>3
  <2>5. \A k \in DOMAIN items : \/ \E n \in DOMAIN new : new[n] = items[k]
                                \/ items[k].command = r.command
    BY <2>2, <2>3
  <2> QED  BY <1>1, <1>4, <2>1, <2>3, <2>4, <2>5
<1> QED  BY <1>2, <1>3, <1>4

\* The parts of Installed and Shows about one event.
Entered(entries) ==
  UNION {{<<entries[k].matcher, entries[k].items[n]>> :
            n \in DOMAIN entries[k].items} : k \in DOMAIN entries}

ShownIn(entries, r) ==
  \E k \in DOMAIN entries :
    /\ entries[k].matcher = r.matcher
    /\ \E n \in DOMAIN entries[k].items :
         /\ entries[k].items[n].command = r.command
         /\ r.replace => entries[k].items[n] = Hook(r)

\* A difference the request asks for.
Added(i, r) == i = <<r.matcher, Hook(r)>>
Refreshed(i, r) ==
  r.replace /\ i[1] = r.matcher /\ i[2].command = r.command

LEMMA EnteredAt ==
  ASSUME NEW entries, NEW i
  PROVE  i \in Entered(entries) <=>
           \E k \in DOMAIN entries : \E n \in DOMAIN entries[k].items :
             i = <<entries[k].matcher, entries[k].items[n]>>
BY DEF Entered

\* The same for the entries of an event.
LEMMA AddEntryAsAsked ==
  ASSUME NEW entries \in Seq(Entry), NEW r \in Request
  PROVE  LET new == AddEntry(entries, r)
         IN  /\ \A i \in Entered(new) \ Entered(entries) : Added(i, r)
             /\ \A i \in Entered(entries) \ Entered(new) : Refreshed(i, r)
             /\ ShownIn(new, r)
<1>1. CASE Matching(entries, r) = {}
  <2> DEFINE e == NewEntry(r)
             new == Append(entries, e)
  <2>1. AddEntry(entries, r) = new
    BY <1>1 DEF AddEntry
  <2>2. Hook(r) \in Item /\ Hook(r).command = r.command /\ r.matcher \in Matchers
    BY DEF Hook, Item, Request
  <2>3. <<Hook(r)>> \in Seq(Item) /\ DOMAIN <<Hook(r)>> = {1}
    BY <2>2
  <2>4. e \in Entry /\ e.matcher = r.matcher /\ e.items = <<Hook(r)>>
    BY <2>2, <2>3 DEF Entry, NewEntry
  <2>5. 1 \in DOMAIN e.items /\ \A n \in DOMAIN e.items : e.items[n] = Hook(r)
    BY <2>3, <2>4
  <2> HIDE DEF e
  <2>6. /\ \A k \in DOMAIN entries : k \in DOMAIN new /\ new[k] = entries[k]
        /\ \A n \in DOMAIN new : new[n] = e \/ \E k \in DOMAIN entries : new[n] = entries[k]
        /\ \E n \in DOMAIN new : new[n] = e
    <3>1. new = Append(entries, e) /\ e \in Entry
      BY <2>4
    <3> HIDE DEF new
    <3> QED  BY <3>1, AppendHolds
  <2> HIDE DEF new
  <2>7. Entered(entries) \subseteq Entered(new)
    BY <2>6 DEF Entered
  <2>8. ASSUME NEW i \in Entered(new), i \notin Entered(entries)  PROVE Added(i, r)
    <3>1. PICK k \in DOMAIN new : \E n \in DOMAIN new[k].items :
            i = <<new[k].matcher, new[k].items[n]>>
      BY <2>8, EnteredAt
    <3>2. new[k] = e
      BY <2>6, <2>8, <3>1, EnteredAt
    <3> QED  BY <2>4, <2>5, <3>1, <3>2 DEF Added
  <2>9. ShownIn(new, r)
    BY <2>2, <2>4, <2>5, <2>6 DEF ShownIn
  <2> QED  BY <2>1, <2>7, <2>8, <2>9
<1>2. CASE Matching(entries, r) # {}
  <2> DEFINE m == Min(Matching(entries, r))
             old == entries[m].items
             added == AddItem(old, r)
             new == AddEntry(entries, r)
  <2>1. m \in DOMAIN entries /\ entries[m].matcher = r.matcher
    BY <1>2, FirstMatching
  <2>2. entries[m] \in Entry /\ new = [entries EXCEPT ![m].items = added]
    BY <1>2, <2>1 DEF AddEntry
  <2>3. old \in Seq(Item)
    BY <2>2 DEF Entry
  <2>4. /\ DOMAIN new = DOMAIN entries
        /\ new[m].matcher = r.matcher /\ new[m].items = added
        /\ \A k \in DOMAIN entries : k # m => new[k] = entries[k]
    BY <2>1, <2>2 DEF Entry
  <2> HIDE DEF m, old, new
  <2>5. /\ \A n \in DOMAIN added :
             added[n] = Hook(r) \/ \E k \in DOMAIN old : added[n] = old[k]
        /\ \A k \in DOMAIN old :
             \/ \E n \in DOMAIN added : added[n] = old[k]
             \/ r.replace /\ old[k].command = r.command
        /\ \E n \in DOMAIN added : /\ added[n].command = r.command
                                   /\ r.replace => added[n] = Hook(r)
    BY <2>3, AddItemAsAsked
  <2> HIDE DEF added
  <2>6. ASSUME NEW i \in Entered(new), i \notin Entered(entries)  PROVE Added(i, r)
    <3>1. PICK k \in DOMAIN new : \E n \in DOMAIN new[k].items :
            i = <<new[k].matcher, new[k].items[n]>>
      BY <2>6, EnteredAt
    <3>2. k = m
      BY <2>4, <2>6, <3>1, EnteredAt
    <3>3. PICK n \in DOMAIN added : i = <<r.matcher, added[n]>>
      BY <2>4, <3>1, <3>2
    <3>4. \A l \in DOMAIN old : <<r.matcher, old[l]>> \in Entered(entries)
      BY <2>1, EnteredAt DEF old
    <3>5. added[n] = Hook(r)
      BY <2>5, <2>6, <3>3, <3>4
    <3> QED  BY <3>3, <3>5 DEF Added
  <2>7. ASSUME NEW i \in Entered(entries), i \notin Entered(new)
        PROVE  Refreshed(i, r)
    <3>1. PICK k \in DOMAIN entries : \E n \in DOMAIN entries[k].items :
            i = <<entries[k].matcher, entries[k].items[n]>>
      BY <2>7, EnteredAt
    <3>2. k = m
      BY <2>4, <2>7, <3>1, EnteredAt
    <3>3. PICK n \in DOMAIN old : i = <<r.matcher, old[n]>>
      BY <2>1, <3>1, <3>2 DEF old
    <3>4. \A l \in DOMAIN added : <<r.matcher, added[l]>> \in Entered(new)
      BY <2>1, <2>4, EnteredAt
    <3>5. ~ \E l \in DOMAIN added : added[l] = old[n]
      BY <2>7, <3>3, <3>4
    <3> QED  BY <2>5, <3>3, <3>5 DEF Refreshed
  <2>8. ShownIn(new, r)
    BY <2>1, <2>4, <2>5 DEF ShownIn
  <2> QED  BY <2>6, <2>7, <2>8 DEF new
<1> QED  BY <1>1, <1>2

\* The same for the settings.
LEMMA MergeAsAsked ==
  ASSUME NEW hooks \in Hooks, NEW r \in Request
  PROVE  LET new == Merge(hooks, r)
         IN  /\ \A e \in Events :
                  /\ \A i \in Installed(new, e) \ Installed(hooks, e) :
                       e \in r.events /\ Added(i, r)
                  /\ \A i \in Installed(hooks, e) \ Installed(new, e) :
                       e \in r.events /\ Refreshed(i, r)
             /\ Shows(new, r)
<1> DEFINE new == Merge(hooks, r)
<1>1. \A e \in Events :
        new[e] = IF e \in r.events THEN AddEntry(hooks[e], r) ELSE hooks[e]
  BY DEF Merge
<1>2. \A e \in Events : hooks[e] \in Seq(Entry)
  BY DEF Hooks
<1> HIDE DEF new
<1>3. \A h, e : Installed(h, e) = Entered(h[e])
  BY DEF Installed, Entered
<1>4. ASSUME NEW e \in Events
      PROVE  /\ \A i \in Entered(new[e]) \ Entered(hooks[e]) :
                  e \in r.events /\ Added(i, r)
             /\ \A i \in Entered(hooks[e]) \ Entered(new[e]) :
                  e \in r.events /\ Refreshed(i, r)
             /\ e \in r.events => ShownIn(new[e], r)
  <2>1. CASE e \in r.events
    <3>1. new[e] = AddEntry(hooks[e], r) /\ hooks[e] \in Seq(Entry)
      BY <1>1, <1>2, <2>1
    <3> QED  BY <2>1, <3>1, AddEntryAsAsked
  <2>2. CASE e \notin r.events
    BY <1>1, <2>2
  <2> QED  BY <2>1, <2>2
<1>5. Shows(new, r)
  BY <1>4 DEF Shows, ShownIn
<1> QED  BY <1>3, <1>4, <1>5 DEF new

-----------------------------------------------------------------------------
(* Installers that run one after the other.                                *)

\* What is between them, when n of the installers in W run: the settings g
\* at first, and after each of them those it merges its request into.
Chain(g, req, W, n, order, h) ==
  /\ order \in [1 .. n -> W] /\ OneByOne(order)
  /\ h \in [0 .. n -> Hooks] /\ h[0] = g
  /\ \A k \in 1 .. n : h[k] = Merge(h[k - 1], req[order[k]])

Explains(g, req, W, hooks) ==
  \E n \in Nat : \E order \in [1 .. n -> W], h \in [0 .. n -> Hooks] :
    Chain(g, req, W, n, order, h) /\ h[n] = hooks

LEMMA ExplainsItself ==
  ASSUME NEW hooks \in Hooks, NEW req, NEW W
  PROVE  Explains(hooks, req, W, hooks)
<1> DEFINE order == [k \in 1 .. 0 |-> CHOOSE w \in W : TRUE]
           h == [k \in 0 .. 0 |-> hooks]
<1>1. order \in [1 .. 0 -> W] /\ h \in [0 .. 0 -> Hooks] /\ h[0] = hooks
  OBVIOUS
<1>2. Chain(hooks, req, W, 0, order, h)
  BY <1>1 DEF Chain, OneByOne
<1> QED  BY <1>1, <1>2 DEF Explains

LEMMA ExplainsMore ==
  ASSUME NEW g, NEW req, NEW V, NEW W \in SUBSET V, NEW hooks,
         Explains(g, req, W, hooks)
  PROVE  Explains(g, req, V, hooks)
<1>0. PICK n \in Nat : \E order \in [1 .. n -> W], h \in [0 .. n -> Hooks] :
        Chain(g, req, W, n, order, h) /\ h[n] = hooks
  BY DEF Explains
<1>1. PICK order \in [1 .. n -> W], h \in [0 .. n -> Hooks] :
        Chain(g, req, W, n, order, h) /\ h[n] = hooks
  BY <1>0
<1>2. order \in [1 .. n -> V]
  OBVIOUS
<1> QED  BY <1>1, <1>2 DEF Explains, Chain

\* One more installer runs.
LEMMA ExplainsNext ==
  ASSUME NEW req \in [Installers -> Request], NEW W \in SUBSET Installers,
         NEW p \in Installers, p \notin W, NEW g, NEW hooks,
         Explains(g, req, W, hooks)
  PROVE  Explains(g, req, W \cup {p}, Merge(hooks, req[p]))
<1>0. PICK n \in Nat : \E order \in [1 .. n -> W], h \in [0 .. n -> Hooks] :
        Chain(g, req, W, n, order, h) /\ h[n] = hooks
  BY DEF Explains
<1>1. PICK order \in [1 .. n -> W], h \in [0 .. n -> Hooks] :
        Chain(g, req, W, n, order, h) /\ h[n] = hooks
  BY <1>0
<1> DEFINE m == n + 1
           last == Merge(hooks, req[p])
           order2 == [k \in 1 .. m |-> IF k = m THEN p ELSE order[k]]
           h2 == [k \in 0 .. m |-> IF k = m THEN last ELSE h[k]]
<1>2. m \in Nat /\ m # 0 /\ n \in 0 .. n
  OBVIOUS
<1>3. hooks \in Hooks /\ req[p] \in Request
  BY <1>1, <1>2
<1>4. last \in Hooks
  BY <1>3, MergeExtends
<1> HIDE DEF last
<1>5. /\ \A k \in 1 .. m : k # m => k \in 1 .. n
      /\ \A k \in 0 .. m : k # m => k \in 0 .. n
      /\ \A k \in 1 .. m : k - 1 \in 0 .. m /\ k - 1 # m /\ k - 1 \in 0 .. n
      /\ m - 1 = n /\ 0 \in 0 .. m /\ m \in 0 .. m
  BY <1>2
<1>6. order2 \in [1 .. m -> W \cup {p}]
  BY <1>5
<1>7. h2 \in [0 .. m -> Hooks]
  BY <1>4, <1>5
<1>8. OneByOne(order2)
  <2>1. \A k \in 1 .. n : order[k] \in W
    OBVIOUS
  <2>2. \A j, k \in 1 .. n : order[j] = order[k] => j = k
    BY <1>1 DEF Chain, OneByOne
  <2> QED  BY <1>5, <2>1, <2>2 DEF OneByOne
<1>9. h2[0] = g
  BY <1>1, <1>2, <1>5 DEF Chain
<1>10. ASSUME NEW k \in 1 .. m
       PROVE  h2[k] = Merge(h2[k - 1], req[order2[k]])
  <2>1. h2[k - 1] = h[k - 1]
    BY <1>5
  <2>2. CASE k = m
    BY <1>1, <1>5, <2>1, <2>2 DEF last
  <2>3. CASE k # m
    <3>1. k \in 1 .. n
      BY <1>5, <2>3
    <3>2. h[k] = Merge(h[k - 1], req[order[k]])
      BY <1>1, <3>1 DEF Chain
    <3>3. h2[k] = h[k] /\ order2[k] = order[k]
      BY <1>5, <2>3, <3>1
    <3> QED  BY <2>1, <3>2, <3>3
  <2> QED  BY <2>2, <2>3
<1>11. h2[m] = last
  BY <1>5
<1> HIDE DEF order2, h2, m
<1>12. Chain(g, req, W \cup {p}, m, order2, h2)
  BY <1>6, <1>7, <1>8, <1>9, <1>10 DEF Chain
<1> QED  BY <1>2, <1>6, <1>7, <1>11, <1>12 DEF Explains, last

\* What is between them agrees with the recursive function of Serial.
LEMMA ChainSerial ==
  ASSUME NEW W, NEW n \in Nat, NEW order \in [1 .. n -> W],
         NEW h \in [0 .. n -> Hooks], Chain(given, request, W, n, order, h)
  PROVE  Serial(order) = h[n]
<1> DEFINE body(f) == [k \in 0 .. Len(order) |->
                         IF k = 0 THEN given
                         ELSE Merge(f[k - 1], request[order[k]])]
           after == CHOOSE f : f = body(f)
<1>1. Len(order) = n
  <2>1. order \in Seq(W)
    BY SeqDef
  <2> QED  BY <2>1
<1>2. h = body(h)
  <2>1. \A k \in 0 .. n : h[k] = body(h)[k]
    BY <1>1 DEF Chain
  <2>2. h = [k \in 0 .. n |-> h[k]] /\ body(h) = [k \in 0 .. n |-> body(h)[k]]
    BY <1>1
  <2> QED  BY <2>1, <2>2
<1>3. after = body(after)
  BY <1>2
<1>4. Serial(order) = after[n]
  BY <1>1 DEF Serial
<1> HIDE DEF after
<1>5. ASSUME NEW bad \in SUBSET Nat, bad = {k \in 0 .. n : after[k] # h[k]}
      PROVE  bad = {}
  <2>1. SUFFICES ASSUME bad # {}  PROVE FALSE
    OBVIOUS
  <2>2. PICK k \in bad : \A j \in bad : k <= j
    BY <2>1, LeastNat
  <2>3. k \in 0 .. n /\ after[k] # h[k]
    BY <1>5, <2>2
  <2>4. CASE k = 0
    BY <1>1, <1>3, <2>3, <2>4 DEF Chain
  <2>5. CASE k # 0
    <3>1. k \in 1 .. n /\ k - 1 \in 0 .. n /\ ~(k <= k - 1)
      BY <2>3, <2>5
    <3>2. after[k - 1] = h[k - 1]
      BY <1>5, <2>2, <3>1
    <3>3. after[k] = Merge(after[k - 1], request[order[k]])
      BY <1>1, <1>3, <2>3, <2>5
    <3>4. h[k] = Merge(h[k - 1], request[order[k]])
      BY <3>1 DEF Chain
    <3> QED  BY <2>3, <3>2, <3>3, <3>4
  <2> QED  BY <2>4, <2>5
<1>6. after[n] = h[n]
  <2> DEFINE bad == {k \in 0 .. n : after[k] # h[k]}
  <2>1. bad \in SUBSET Nat
    OBVIOUS
  <2>2. bad = {}
    BY <1>5, <2>1
  <2> QED  BY <2>2
<1> QED  BY <1>4, <1>6

\* There are no more of them than there are installers in W.
LEMMA ChainBound ==
  ASSUME NEW W, IsFiniteSet(W), NEW n \in Nat, NEW order \in [1 .. n -> W],
         OneByOne(order)
  PROVE  n \in 0 .. Cardinality(W)
<1>1. order \in Injection(1 .. n, W)
  BY Fun_IsInj DEF OneByOne
<1>2. Cardinality(1 .. n) <= Cardinality(W)
  BY <1>1, FS_Injection
<1>3. Cardinality(1 .. n) = n
  BY FS_Interval
<1>4. Cardinality(W) \in Nat
  BY FS_CardinalityType
<1> QED  BY <1>2, <1>3, <1>4

\* The differences that a member of W asked for.
Faithful(g, req, W, hooks) ==
  \A e \in Events :
    /\ \A i \in Installed(hooks, e) \ Installed(g, e) :
         \E p \in W : e \in req[p].events /\ Added(i, req[p])
    /\ \A i \in Installed(g, e) \ Installed(hooks, e) :
         \E p \in W : e \in req[p].events /\ Refreshed(i, req[p])

LEMMA FaithfulNext ==
  ASSUME NEW req, NEW W, NEW p \in W, req[p] \in Request, NEW g,
         NEW hooks \in Hooks, Faithful(g, req, W, hooks)
  PROVE  Faithful(g, req, W, Merge(hooks, req[p]))
<1> DEFINE new == Merge(hooks, req[p])
<1>1. \A e \in Events :
        /\ \A i \in Installed(new, e) \ Installed(hooks, e) :
             e \in req[p].events /\ Added(i, req[p])
        /\ \A i \in Installed(hooks, e) \ Installed(new, e) :
             e \in req[p].events /\ Refreshed(i, req[p])
  BY MergeAsAsked
<1> HIDE DEF new
<1>2. Faithful(g, req, W, new)
  BY <1>1 DEF Faithful
<1> QED  BY <1>2 DEF new

\* What is explained differs from the settings at first as asked for only.
LEMMA ExplainsFaithful ==
  ASSUME NEW req \in [Installers -> Request], NEW W \in SUBSET Installers,
         NEW g, NEW hooks, Explains(g, req, W, hooks)
  PROVE  Faithful(g, req, W, hooks)
<1>0. PICK n \in Nat : \E order \in [1 .. n -> W], h \in [0 .. n -> Hooks] :
        Chain(g, req, W, n, order, h) /\ h[n] = hooks
  BY DEF Explains
<1>1. PICK order \in [1 .. n -> W], h \in [0 .. n -> Hooks] :
        Chain(g, req, W, n, order, h) /\ h[n] = hooks
  BY <1>0
<1> DEFINE bad == {k \in 0 .. n : ~Faithful(g, req, W, h[k])}
<1>2. bad \in SUBSET Nat
  OBVIOUS
<1>3. ASSUME bad # {}  PROVE FALSE
  <2>1. PICK k \in bad : \A j \in bad : k <= j
    BY <1>2, <1>3, LeastNat
  <2>2. k \in 0 .. n /\ ~Faithful(g, req, W, h[k])
    BY <2>1
  <2>3. CASE k = 0
    BY <1>1, <2>2, <2>3 DEF Chain, Faithful
  <2>4. CASE k # 0
    <3>1. k \in 1 .. n /\ k - 1 \in 0 .. n /\ ~(k <= k - 1)
      BY <2>2, <2>4
    <3>2. Faithful(g, req, W, h[k - 1])
      BY <2>1, <3>1
    <3>3. h[k] = Merge(h[k - 1], req[order[k]])
      BY <1>1, <3>1 DEF Chain
    <3>4. order[k] \in W /\ req[order[k]] \in Request /\ h[k - 1] \in Hooks
      BY <3>1
    <3> QED  BY <2>2, <3>2, <3>3, <3>4, FaithfulNext
  <2> QED  BY <2>3, <2>4
<1>4. n \in 0 .. n
  OBVIOUS
<1> QED  BY <1>1, <1>3, <1>4

-----------------------------------------------------------------------------
(* The invariant.                                                          *)

\* What an installer is about to write, and what can be read, extends the
\* settings the installers found.
PlansExtend ==
  \A p \in Installers :
    pc[p] \in {"opening", "writing"} => Extends(plan[p], given)
FileExtends ==
  /\ file.kind = "settings" => Extends(file.hooks, given)
  /\ file.kind = "absent" => given = NoHooks

\* Only those write who were not asked for a dry run.
WritersWrite ==
  \A p \in Installers :
    pc[p] \in {"opening", "writing", "torn"} => ~request[p].dryRun

\* A file that is not empty while an installer writes it was written by
\* another one that has ended.
WrittenBefore ==
  (file.kind # "empty" /\ \E p \in Installers : pc[p] = "writing") =>
    \E q \in Installers : pc[q] = "done" /\ ~request[q].dryRun

GarbledByTwo ==
  file.kind = "garbled" => \E p, q \in Writers : p # q

EmptyByOne ==
  file.kind = "empty" => \E p \in Installers : pc[p] \in {"writing", "torn"}

IInv ==
  /\ TypeOK
  /\ PlansExtend
  /\ FileExtends
  /\ WritersWrite
  /\ WrittenBefore
  /\ GarbledByTwo
  /\ EmptyByOne

LEMMA ExtendsItself == \A hooks : Extends(hooks, hooks)
BY DEF Extends

LEMMA ExtendsTransitive ==
  ASSUME NEW a, NEW b, NEW c, Extends(a, b), Extends(b, c)
  PROVE  Extends(a, c)
BY DEF Extends

LEMMA FileKinds ==
  /\ NoHooks \in Hooks
  /\ Emptied \in File /\ Garbled \in File
  /\ \A hooks \in Hooks : Text(hooks) \in File
  /\ \A f \in File : f.hooks \in Hooks
<1>1. NoHooks \in Hooks
  BY DEF NoHooks, Hooks
<1> QED  BY <1>1 DEF Emptied, Garbled, Text, File, Kinds

\* What a write leaves: the text, or a garbled file if it was not empty.
LEMMA OverlayLeaves ==
  ASSUME NEW hooks, NEW f \in Overlay(hooks)
  PROVE  \/ f = Text(hooks)
         \/ f = Garbled /\ file.kind \in {"settings", "garbled"}
BY DEF Overlay

LEMMA InitIInv == Init => IInv
<1> SUFFICES ASSUME Init  PROVE IInv
  OBVIOUS
<1>1. file \in File /\ file.kind \notin {"empty", "garbled"}
  BY GivensAssumption DEF Init
<1>2. TypeOK
  BY <1>1, FileKinds DEF Init, TypeOK, PC, Ended
<1>3. FileExtends
  BY <1>1, ExtendsItself DEF Init, FileExtends, File
<1> QED
  BY <1>1, <1>2, <1>3
  DEF Init, IInv, PlansExtend, WritersWrite, WrittenBefore, GarbledByTwo,
      EmptyByOne

\* The steps of one installer.
LEMMA StepIInv ==
  ASSUME IInv, NEW p \in Installers, Step(p) \/ Kill(p)
  PROVE  IInv'
<1> USE DEF IInv
<1>1. CASE Load(p)
  <2> DEFINE merged == Merge(file.hooks, request[p])
  <2>1. /\ pc[p] = "loading" /\ file.kind \in {"absent", "settings"}
        /\ plan' = [plan EXCEPT ![p] = merged]
        /\ UNCHANGED <<request, file, given>>
    BY <1>1 DEF Load, Loadable
  <2>2. \/ /\ pc' = [pc EXCEPT ![p] = "opening"]
           /\ ~request[p].dryRun
        \/ pc' = [pc EXCEPT ![p] = "done"]
    BY <1>1 DEF Load, Goto
  <2>3. file.hooks \in Hooks /\ request[p] \in Request
    BY FileKinds, RequestsAssumption DEF TypeOK
  <2>4. merged \in Hooks /\ Extends(merged, file.hooks)
    BY <2>3, MergeExtends
  <2>5. Extends(file.hooks, given)
    BY <2>1, ExtendsItself DEF FileExtends, TypeOK, File
  <2>6. Extends(merged, given)
    BY <2>4, <2>5, ExtendsTransitive
  <2> HIDE DEF merged
  <2>7. TypeOK'
    BY <2>1, <2>2, <2>4 DEF TypeOK, PC, Ended
  <2>8. PlansExtend'
    BY <2>1, <2>2, <2>6 DEF PlansExtend, TypeOK
  <2>9. WritersWrite'
    BY <2>1, <2>2 DEF WritersWrite, TypeOK
  <2>10. WrittenBefore'
    BY <2>1, <2>2 DEF WrittenBefore, TypeOK
  <2> QED
    BY <2>1, <2>7, <2>8, <2>9, <2>10 DEF FileExtends, GarbledByTwo, EmptyByOne
<1>2. CASE Refuse(p)
  <2>1. /\ pc[p] = "loading" /\ pc' = [pc EXCEPT ![p] = "failed"]
        /\ UNCHANGED <<request, plan, file, given>>
    BY <1>2 DEF Refuse, Goto
  <2>2. TypeOK'
    BY <2>1 DEF TypeOK, PC, Ended
  <2>3. PlansExtend' /\ WritersWrite' /\ FileExtends'
    BY <2>1 DEF PlansExtend, WritersWrite, FileExtends, TypeOK
  <2>4. WrittenBefore' /\ EmptyByOne'
    BY <2>1 DEF WrittenBefore, EmptyByOne, TypeOK
  <2>5. GarbledByTwo'
    BY <2>1 DEF GarbledByTwo, Writers, TypeOK
  <2> QED  BY <2>2, <2>3, <2>4, <2>5
<1>3. CASE Open(p)
  <2>1. /\ pc[p] = "opening" /\ pc' = [pc EXCEPT ![p] = "writing"]
        /\ file' = Emptied
        /\ UNCHANGED <<request, plan, given>>
    BY <1>3 DEF Open, Goto
  <2>2. file'.kind = "empty"
    BY <2>1 DEF Emptied
  <2>3. TypeOK'
    BY <2>1, FileKinds DEF TypeOK, PC, Ended
  <2>4. PlansExtend' /\ WritersWrite' /\ FileExtends'
    BY <2>1, <2>2 DEF PlansExtend, WritersWrite, FileExtends, TypeOK
  <2>5. WrittenBefore' /\ GarbledByTwo' /\ EmptyByOne'
    BY <2>1, <2>2 DEF WrittenBefore, GarbledByTwo, EmptyByOne, TypeOK
  <2> QED  BY <2>3, <2>4, <2>5
<1>4. CASE Write(p)
  <2>1. /\ pc[p] = "writing" /\ pc' = [pc EXCEPT ![p] = "done"]
        /\ file' \in Overlay(plan[p])
        /\ UNCHANGED <<request, plan, given>>
    BY <1>4 DEF Write, Goto
  <2>2. \/ file' = Text(plan[p])
        \/ file' = Garbled /\ file.kind \in {"settings", "garbled"}
    BY <2>1, OverlayLeaves
  <2>3. /\ file'.kind \in {"settings", "garbled"}
        /\ file'.kind = "settings" => file'.hooks = plan[p]
        /\ file'.kind = "garbled" => file.kind \in {"settings", "garbled"}
    BY <2>2 DEF Text, Garbled
  <2>4. TypeOK'
    BY <2>1, <2>2, FileKinds DEF TypeOK, PC, Ended
  <2>5. PlansExtend' /\ WritersWrite'
    BY <2>1 DEF PlansExtend, WritersWrite, TypeOK
  <2>6. FileExtends'
    BY <2>1, <2>3 DEF PlansExtend, FileExtends
  <2>7. pc'[p] = "done" /\ ~request'[p].dryRun
    BY <2>1 DEF WritersWrite, TypeOK
  <2>8. WrittenBefore' /\ EmptyByOne'
    BY <2>3, <2>7 DEF WrittenBefore, EmptyByOne
  <2>9. ASSUME file'.kind = "garbled"
        PROVE  \E i, j \in Writers' : i # j
    <3>1. PICK q \in Installers : pc[q] = "done" /\ ~request[q].dryRun
      BY <2>1, <2>3, <2>9 DEF WrittenBefore
    <3>2. q # p /\ q \in Writers' /\ p \in Writers'
      BY <2>1, <2>7, <3>1 DEF Writers, TypeOK
    <3> QED  BY <3>2
  <2>10. GarbledByTwo'
    BY <2>9 DEF GarbledByTwo
  <2> QED  BY <2>4, <2>5, <2>6, <2>8, <2>10
<1>5. CASE Kill(p)
  <2>1. /\ pc[p] \notin Ended
        /\ pc' = [pc EXCEPT ![p] = IF pc[p] = "writing" THEN "torn" ELSE "killed"]
        /\ UNCHANGED <<request, plan, file, given>>
    BY <1>5 DEF Kill, Goto
  <2>2. TypeOK'
    BY <2>1 DEF TypeOK, PC, Ended
  <2>3. PlansExtend' /\ WritersWrite' /\ FileExtends'
    BY <2>1 DEF PlansExtend, WritersWrite, FileExtends, TypeOK
  <2>4. \A q \in Installers : pc[q] = "done" => pc'[q] = "done"
    BY <2>1 DEF TypeOK, Ended
  <2>5. \A q \in Installers : pc'[q] = "writing" => pc[q] = "writing"
    BY <2>1 DEF TypeOK
  <2>6. WrittenBefore'
    BY <2>1, <2>4, <2>5 DEF WrittenBefore
  <2>7. \A q \in Installers :
          pc[q] \in {"writing", "torn"} => pc'[q] \in {"writing", "torn"}
    BY <2>1 DEF TypeOK, Ended
  <2>8. EmptyByOne'
    BY <2>1, <2>7 DEF EmptyByOne
  <2>9. GarbledByTwo'
    BY <2>1, <2>4, <2>7 DEF GarbledByTwo, Writers
  <2> QED  BY <2>2, <2>3, <2>6, <2>8, <2>9
<1> QED  BY <1>1, <1>2, <1>3, <1>4, <1>5 DEF Step

LEMMA NextIInv == IInv /\ [Next]_vars => IInv'
<1> SUFFICES ASSUME IInv, [Next]_vars  PROVE IInv'
  OBVIOUS
<1>1. CASE Next
  BY <1>1, StepIInv DEF Next
<1>2. CASE UNCHANGED vars
  BY <1>2 DEF vars, IInv, TypeOK, PlansExtend, FileExtends, WritersWrite,
              WrittenBefore, GarbledByTwo, EmptyByOne, Writers
<1> QED  BY <1>1, <1>2

LEMMA SpecIInv == Spec => []IInv
BY InitIInv, NextIInv, PTL DEF Spec

-----------------------------------------------------------------------------
(* Settings are those of installers that run one after the other.          *)

\* What an installer is about to write is its request merged into settings
\* that are explained by the installers that ended; so is what can be read.
PlansSerial ==
  \A p \in Installers :
    pc[p] \in {"opening", "writing"} =>
      \E hooks \in Hooks : /\ Explains(given, request, Written, hooks)
                           /\ plan[p] = Merge(hooks, request[p])
FileSerial ==
  file.kind = "settings" => Explains(given, request, Written, file.hooks)

SInv == IInv /\ PlansSerial /\ FileSerial

LEMMA InitSInv == Init => SInv
<1> SUFFICES ASSUME Init  PROVE SInv
  OBVIOUS
<1>1. IInv
  BY InitIInv
<1>2. PlansSerial
  BY DEF Init, PlansSerial
<1>3. given \in Hooks /\ file.hooks = given
  BY <1>1 DEF Init, IInv, TypeOK
<1>4. FileSerial
  BY <1>3, ExplainsItself DEF FileSerial
<1> QED  BY <1>1, <1>2, <1>4 DEF SInv

\* Those that ended stay ended, so they go on explaining what they did.
LEMMA StillExplained ==
  ASSUME IInv, [Next]_vars
  PROVE  /\ request' = request /\ given' = given
         /\ Written \subseteq Written'
         /\ \A hooks : Explains(given, request, Written, hooks) =>
              Explains(given', request', Written', hooks)
<1>1. CASE UNCHANGED vars
  BY <1>1 DEF vars, Written
<1>2. ASSUME NEW p \in Installers, Step(p) \/ Kill(p)
      PROVE  request' = request /\ given' = given /\ Written \subseteq Written'
  <2>1. /\ request' = request /\ given' = given /\ pc[p] # "done"
        /\ \E label \in PC : pc' = [pc EXCEPT ![p] = label]
    BY <1>2 DEF Step, Load, Refuse, Open, Write, Kill, Goto, Ended, PC
  <2>2. \A q \in Installers : pc[q] = "done" => pc'[q] = "done"
    BY <2>1 DEF IInv, TypeOK
  <2> QED  BY <2>1, <2>2 DEF Written
<1>3. request' = request /\ given' = given /\ Written \subseteq Written'
  BY <1>1, <1>2 DEF Next, vars, Written
<1> QED  BY <1>3, ExplainsMore

LEMMA NextSInv == SInv /\ [Next]_vars => SInv'
<1> SUFFICES ASSUME SInv, [Next]_vars  PROVE SInv'
  OBVIOUS
<1> USE DEF SInv
<1>1. IInv'
  BY NextIInv
<1>2. /\ request' = request /\ given' = given
      /\ \A hooks : Explains(given, request, Written, hooks) =>
           Explains(given', request', Written', hooks)
  BY StillExplained
<1>3. CASE UNCHANGED vars
  <2>1. PlansSerial' /\ FileSerial'
    BY <1>2, <1>3 DEF vars, PlansSerial, FileSerial
  <2> QED  BY <1>1, <2>1
<1>4. ASSUME NEW p \in Installers, Load(p)  PROVE PlansSerial' /\ FileSerial'
  <2>1. /\ file.kind \in {"absent", "settings"} /\ file' = file
        /\ plan' = [plan EXCEPT ![p] = Merge(file.hooks, request[p])]
        /\ \E label \in PC : pc' = [pc EXCEPT ![p] = label]
    BY <1>4 DEF Load, Loadable, Goto, PC, Ended
  <2>2. file.hooks \in Hooks /\ given \in Hooks
    BY FileKinds DEF IInv, TypeOK
  <2>3. Explains(given, request, Written, file.hooks)
    <3>1. CASE file.kind = "settings"
      BY <3>1 DEF FileSerial
    <3>2. CASE file.kind = "absent"
      <4>1. file.hooks = given
        BY <3>2 DEF IInv, FileExtends, TypeOK, File
      <4> QED  BY <2>2, <4>1, ExplainsItself
    <3> QED  BY <2>1, <3>1, <3>2
  <2>4. FileSerial'
    BY <1>2, <2>1 DEF FileSerial
  <2>5. ASSUME NEW q \in Installers, pc'[q] \in {"opening", "writing"}
        PROVE  \E hooks \in Hooks :
                 /\ Explains(given', request', Written', hooks)
                 /\ plan'[q] = Merge(hooks, request'[q])
    <3>1. CASE q = p
      <4>1. plan'[q] = Merge(file.hooks, request'[q])
        BY <1>2, <2>1, <3>1 DEF IInv, TypeOK
      <4> QED  BY <1>2, <2>2, <2>3, <4>1
    <3>2. CASE q # p
      <4>1. pc[q] \in {"opening", "writing"} /\ plan'[q] = plan[q]
        BY <2>1, <2>5, <3>2 DEF IInv, TypeOK
      <4> QED  BY <1>2, <4>1 DEF PlansSerial
    <3> QED  BY <3>1, <3>2
  <2> QED  BY <2>4, <2>5 DEF PlansSerial
<1>5. ASSUME NEW p \in Installers, Refuse(p) \/ Open(p) \/ Write(p) \/ Kill(p)
      PROVE  PlansSerial'
  <2>1. plan' = plan
    BY <1>5 DEF Refuse, Open, Write, Kill
  <2>2. \A q \in Installers : pc'[q] \in {"opening", "writing"} =>
          pc[q] \in {"opening", "writing"}
    BY <1>5 DEF Refuse, Open, Write, Kill, Goto, IInv, TypeOK, Ended
  <2>3. ASSUME NEW q \in Installers, pc'[q] \in {"opening", "writing"}
        PROVE  \E hooks \in Hooks :
                 /\ Explains(given', request', Written', hooks)
                 /\ plan'[q] = Merge(hooks, request'[q])
    BY <1>2, <2>1, <2>2, <2>3 DEF PlansSerial
  <2> QED  BY <2>3 DEF PlansSerial
<1>6. ASSUME NEW p \in Installers, Refuse(p) \/ Kill(p)  PROVE FileSerial'
  <2>1. file' = file
    BY <1>6 DEF Refuse, Kill
  <2> QED  BY <1>2, <2>1 DEF FileSerial
<1>7. ASSUME NEW p \in Installers, Open(p)  PROVE FileSerial'
  BY <1>7 DEF Open, Emptied, FileSerial
<1>8. ASSUME NEW p \in Installers, Write(p)  PROVE FileSerial'
  <2>1. /\ pc[p] = "writing" /\ pc' = [pc EXCEPT ![p] = "done"]
        /\ file' \in Overlay(plan[p])
    BY <1>8 DEF Write, Goto
  <2>2. file'.kind = "settings" => file'.hooks = plan[p]
    BY <2>1, OverlayLeaves DEF Text, Garbled
  <2>3. p \notin Written /\ Written' = Written \cup {p}
    BY <1>2, <2>1 DEF IInv, WritersWrite, Written, TypeOK
  <2>4. PICK hooks \in Hooks : /\ Explains(given, request, Written, hooks)
                               /\ plan[p] = Merge(hooks, request[p])
    BY <2>1 DEF PlansSerial
  <2>5. request \in [Installers -> Request] /\ Written \in SUBSET Installers
    BY RequestsAssumption DEF IInv, TypeOK, Written
  <2>6. Explains(given, request, Written \cup {p}, plan[p])
    BY <2>3, <2>4, <2>5, ExplainsNext
  <2> QED  BY <1>2, <2>2, <2>3, <2>6 DEF FileSerial
<1> QED  BY <1>1, <1>3, <1>4, <1>5, <1>6, <1>7, <1>8 DEF Next, Step

LEMMA SpecSInv == Spec => []SInv
BY InitSInv, NextSInv, PTL DEF Spec

-----------------------------------------------------------------------------
(* The theorems.                                                           *)

\* Every variable has its type.
THEOREM TypeCorrect == Spec => []TypeOK
<1>1. IInv => TypeOK
  BY DEF IInv
<1> QED  BY SpecIInv, <1>1, PTL

\* However installers overlap, fail and are killed, settings that can be read
\* hold every hook they held at first (install reads the file, adds in memory
\* and writes the whole of it).
THEOREM GivenKept == Spec => []GivenHooksKept
<1>1. IInv => GivenHooksKept
  BY DEF IInv, FileExtends, Extends, GivenHooksKept
<1> QED  BY SpecIInv, <1>1, PTL

\* Settings without duplicates never get any (add_event looks for the entry
\* and the command before it adds one).
THEOREM NoDuplicates == Spec => []NoDuplicatesArise
<1>1. IInv => NoDuplicatesArise
  BY DEF IInv, FileExtends, Extends, NoDuplicatesArise
<1> QED  BY SpecIInv, <1>1, PTL

\* The file is empty only while it is written or after a kill in the middle
\* of that, and garbled only if two installers wrote it (write_text opens,
\* then writes).
THEOREM Unreadable == Spec => []UnreadableOnlyTorn
<1>1. ASSUME IInv  PROVE UnreadableOnlyTorn
  <2>1. file.kind = "empty" =>
          \E p \in Installers : pc[p] \in {"writing", "torn"}
    BY <1>1 DEF IInv, EmptyByOne
  <2>2. ASSUME file.kind = "garbled"  PROVE Cardinality(Writers) >= 2
    <3>1. PICK p \in Writers, q \in Writers : p # q
      BY <1>1, <2>2 DEF IInv, GarbledByTwo
    <3>2. IsFiniteSet(Writers)
      BY InstallersAssumption, FS_Subset DEF Writers
    <3>3. Cardinality(Writers) \in Nat
      BY <3>2, FS_CardinalityType
    <3>4. IsFiniteSet(Writers \ {p})
            /\ Cardinality(Writers \ {p}) = Cardinality(Writers) - 1
      BY <3>1, <3>2, FS_RemoveElement
    <3>5. Cardinality(Writers \ {p}) \in Nat /\ Cardinality(Writers \ {p}) # 0
      BY <3>1, <3>4, FS_CardinalityType, FS_EmptySet
    <3> QED  BY <3>3, <3>4, <3>5
  <2> QED  BY <2>1, <2>2 DEF UnreadableOnlyTorn
<1> QED  BY SpecIInv, <1>1, PTL

\* Settings that can be read are what some of the installers that ended leave
\* when they run one after the other, each once at most (install writes the
\* whole of what it read and merged, however old that is by then).
THEOREM Serializable == Spec => []SerialOutcome
<1>1. ASSUME SInv  PROVE SerialOutcome
  <2> SUFFICES ASSUME file.kind = "settings"
               PROVE  \E n \in 0 .. Cardinality(Written) :
                        \E order \in [1 .. n -> Written] :
                          OneByOne(order) /\ file.hooks = Serial(order)
    BY DEF SerialOutcome
  <2>1. Explains(given, request, Written, file.hooks)
    BY <1>1 DEF SInv, FileSerial
  <2>2. PICK n \in Nat : \E order \in [1 .. n -> Written], h \in [0 .. n -> Hooks] :
          Chain(given, request, Written, n, order, h) /\ h[n] = file.hooks
    BY <2>1 DEF Explains
  <2>3. PICK order \in [1 .. n -> Written], h \in [0 .. n -> Hooks] :
          Chain(given, request, Written, n, order, h) /\ h[n] = file.hooks
    BY <2>2
  <2>4. IsFiniteSet(Written)
    BY InstallersAssumption, FS_Subset DEF Written
  <2>5. OneByOne(order) /\ n \in 0 .. Cardinality(Written)
    BY <2>3, <2>4, ChainBound DEF Chain
  <2>6. file.hooks = Serial(order)
    BY <2>3, ChainSerial
  <2> QED  BY <2>5, <2>6
<1> QED  BY SpecSInv, <1>1, PTL

\* Every difference between settings that can be read and those found at
\* first is one that an installer which ended was asked for (add_event adds
\* one hook, and with --replace drops those of its command).
THEOREM AsAsked == Spec => []DifferencesAskedFor
<1>1. ASSUME SInv  PROVE DifferencesAskedFor
  <2> SUFFICES ASSUME file.kind = "settings"
               PROVE  Faithful(given, request, Written, file.hooks)
    BY DEF DifferencesAskedFor, Faithful, Added, Refreshed
  <2>1. Explains(given, request, Written, file.hooks)
    BY <1>1 DEF SInv, FileSerial
  <2>2. request \in [Installers -> Request] /\ Written \in SUBSET Installers
    BY <1>1, RequestsAssumption DEF SInv, IInv, TypeOK, Written
  <2> QED  BY <2>1, <2>2, ExplainsFaithful
<1> QED  BY SpecSInv, <1>1, PTL

\* At the moment an installer ends, its hook is in the settings, if they can
\* be read then: it wrote them, or it found nothing to add (install returns
\* without writing when the settings do not change).
THEOREM EndingInEffect == Spec => EndsInEffect
<1> DEFINE Ends(p) ==
      ( /\ pc[p] # "done" /\ pc'[p] = "done"
        /\ ~request[p].dryRun /\ file'.kind = "settings" )
      => InEffect(p)'
<1>1. ASSUME SInv, NEW p \in Installers, Next  PROVE Ends(p)
  <2> SUFFICES ASSUME pc[p] # "done", pc'[p] = "done",
                      ~request[p].dryRun, file'.kind = "settings"
               PROVE  Shows(file'.hooks, request'[p])
    BY DEF InEffect
  <2> USE DEF SInv
  <2>1. request[p] \in Request /\ request' = request /\ pc \in [Installers -> PC]
    BY <1>1, StillExplained, RequestsAssumption DEF IInv, TypeOK
  <2>2. PICK q \in Installers : Step(q) \/ Kill(q)
    BY <1>1 DEF Next
  <2>3. p = q
    BY <2>1, <2>2
    DEF Step, Load, Refuse, Open, Write, Kill, Goto
  <2>4. CASE Load(p)
    <3>1. file' = file /\ file.hooks \in Hooks
      BY <1>1, <2>4, FileKinds DEF Load, IInv, TypeOK
    <3>2. Merge(file.hooks, request[p]) = file.hooks
      BY <2>1, <2>4 DEF Load, Goto
    <3>3. Shows(Merge(file.hooks, request[p]), request[p])
      BY <2>1, <3>1, MergeAsAsked
    <3> QED  BY <2>1, <3>1, <3>2, <3>3
  <2>5. CASE Write(p)
    <3>1. pc[p] = "writing" /\ file'.hooks = plan[p]
      BY <2>5, OverlayLeaves DEF Write, Text, Garbled
    <3>2. PICK hooks \in Hooks : plan[p] = Merge(hooks, request[p])
      BY <1>1, <3>1 DEF PlansSerial
    <3>3. Shows(Merge(hooks, request[p]), request[p])
      BY <2>1, MergeAsAsked
    <3> QED  BY <2>1, <3>1, <3>2, <3>3
  <2>6. CASE Refuse(p) \/ Open(p) \/ Kill(p)
    BY <2>1, <2>6 DEF Refuse, Open, Kill, Goto
  <2> QED  BY <2>2, <2>3, <2>4, <2>5, <2>6 DEF Step
<1>2. SInv /\ [Next]_vars => [\A p \in Installers : Ends(p)]_vars
  BY <1>1
<1>3. Spec => [][\A p \in Installers : Ends(p)]_vars
  BY SpecSInv, <1>2, PTL DEF Spec
<1> QED  BY <1>3 DEF EndsInEffect
=============================================================================
