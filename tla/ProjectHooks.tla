---------------------------- MODULE ProjectHooks ----------------------------
(***************************************************************************)
(* guardrail-fabric-install-project-hooks: installers that register a hook *)
(* command in one settings file of a project.  Each of them reads the      *)
(* file, adds its command in memory and, when that changed something,      *)
(* opens the file for writing, which empties it, and writes the new text.  *)
(* There is no lock: installers overlap, and may be killed at any point.   *)
(* The text of the settings fits the write buffer of the file object.      *)
(***************************************************************************)
EXTENDS Integers, Sequences, FiniteSets, FiniteSetsExt

CONSTANTS
  Installers,  \* the processes
  Requests,    \* what an installer may be asked for
  Matchers,    \* tool matchers
  Commands,    \* hook commands
  Timeouts,    \* timeouts, one of them for "no timeout"
  Givens       \* the files the installers may find

Events == {"PreToolUse", "PostToolUse"}

Item == [command : Commands, timeout : Timeouts]
Entry == [matcher : Matchers, items : Seq(Item)]

\* settings.hooks: for every event its list of entries.  Other keys of the
\* settings, and entries and items that are no objects, are passed through.
Hooks == [Events -> Seq(Entry)]
NoHooks == [e \in Events |-> <<>>]

\* The command line; "Other" stands for an event that is not supported.
Request ==
  [events : SUBSET (Events \cup {"Other"}), matcher : Matchers,
   command : Commands, timeout : Timeouts, dryRun : BOOLEAN,
   replace : BOOLEAN]

\* A file is missing, readable, emptied or garbled by an installer (a text
\* followed by the tail of a longer one), or was of a kind it refuses, no
\* JSON or JSON of another shape, before any installer ran.
Kinds == {"absent", "settings", "empty", "garbled", "refused"}
File == {f \in [kind : Kinds, hooks : Hooks] :
           f.kind # "settings" => f.hooks = NoHooks}

ASSUME RequestsAssumption == Requests \subseteq Request
ASSUME GivensAssumption ==
  Givens \subseteq {f \in File : f.kind \notin {"empty", "garbled"}}
ASSUME InstallersAssumption == IsFiniteSet(Installers)

VARIABLES
  request,  \* what each installer was asked for
  pc,       \* where it is
  plan,     \* the hooks it computed from what it read
  file,     \* the settings file
  given     \* the hooks of the file the installers found

vars == <<request, pc, plan, file, given>>

Ended == {"done", "failed", "killed", "torn"}
PC == {"loading", "opening", "writing"} \cup Ended

-----------------------------------------------------------------------------
(* Merging a hook into settings.                                           *)

Hook(r) == [command |-> r.command, timeout |-> r.timeout]

HasCommand(items, command) ==
  \E k \in DOMAIN items : items[k].command = command

\* Mutant of AddItem: the hook is appended whether or not it is there.
AddItem_Appends(items, r) == Append(items, Hook(r))

\* Mutant of AddItem: a refresh is not asked for.
AddItem_NeverRefreshes(items, r) ==
  IF HasCommand(items, r.command) THEN items ELSE Append(items, Hook(r))

\* The items with another command, in their order.
Place(k, places) == Cardinality({j \in places : j <= k})
Without(items, command) ==
  LET kept == {k \in DOMAIN items : items[k].command # command}
  IN  [n \in 1 .. Cardinality(kept) |->
         items[CHOOSE k \in kept : Place(k, kept) = n]]

\* The hooks of an entry with the hook of the request: added, refreshed when
\* it is there and --replace was given, else left alone.
AddItem(items, r) ==
  IF ~HasCommand(items, r.command) THEN Append(items, Hook(r))
  ELSE IF ~r.replace THEN items
  ELSE Append(Without(items, r.command), Hook(r))

Matching(entries, r) == {k \in DOMAIN entries : entries[k].matcher = r.matcher}

NewEntry(r) == [matcher |-> r.matcher, items |-> <<Hook(r)>>]

\* add_event on the entries of one event: only the first entry with the
\* matcher is looked at.
AddEntry(entries, r) ==
  IF Matching(entries, r) = {} THEN Append(entries, NewEntry(r))
  ELSE [entries EXCEPT ![Min(Matching(entries, r))].items = AddItem(@, r)]

\* Mutant of Merge: the loop ends after the first event.
Merge_FirstEvent(hooks, r) ==
  [e \in Events |-> IF r.events = {e} \/ (e = "PreToolUse" /\ e \in r.events)
                    THEN AddEntry(hooks[e], r) ELSE hooks[e]]

\* Mutant of Merge: every event gets the hook.
Merge_AllEvents(hooks, r) ==
  [e \in Events |-> AddEntry(hooks[e], r)]

\* Mutant of Merge: only the events asked for are kept.
Merge_AskedOnly(hooks, r) ==
  [e \in r.events |-> AddEntry(hooks[e], r)]

\* add_event for every event asked for.
Merge(hooks, r) ==
  [e \in Events |->
     IF e \in r.events THEN AddEntry(hooks[e], r) ELSE hooks[e]]

\* The length of the settings' text, to the count of entries and items.
Weight(hooks) ==
  MapThenSumSet(
    LAMBDA e : Len(hooks[e])
                 + MapThenSumSet(LAMBDA k : Len(hooks[e][k].items),
                                 DOMAIN hooks[e]),
    Events)

-----------------------------------------------------------------------------
(* The installers.                                                         *)

Init ==
  /\ request \in [Installers -> Requests]
  /\ pc = [p \in Installers |-> "loading"]
  /\ plan = [p \in Installers |-> NoHooks]
  /\ file \in Givens
  /\ given = file.hooks

Goto(p, label) == pc' = [pc EXCEPT ![p] = label]

Supported(r) == r.events \subseteq Events
Loadable(f) == f.kind \in {"absent", "settings"}

\* Mutant of Load: a dry run writes as well.
Load_DryRunWrites(p) ==
  LET merged == Merge(file.hooks, request[p])
  IN  /\ pc[p] = "loading"
      /\ Supported(request[p]) /\ Loadable(file)
      /\ plan' = [plan EXCEPT ![p] = merged]
      /\ Goto(p, IF merged # file.hooks THEN "opening" ELSE "done")
      /\ UNCHANGED <<request, file, given>>

\* Unsupported events, text that is no JSON and settings of another shape
\* raise an error; otherwise the new settings are computed and written only
\* when they differ and no dry run was asked for.
Load(p) ==
  LET r == request[p]
      merged == Merge(file.hooks, r)
  IN  /\ pc[p] = "loading"
      /\ Supported(r) /\ Loadable(file)
      /\ plan' = [plan EXCEPT ![p] = merged]
      /\ Goto(p, IF merged # file.hooks /\ ~r.dryRun THEN "opening"
                 ELSE "done")
      /\ UNCHANGED <<request, file, given>>

Refuse(p) ==
  /\ pc[p] = "loading"
  /\ ~(Supported(request[p]) /\ Loadable(file))
  /\ Goto(p, "failed")
  /\ UNCHANGED <<request, plan, file, given>>

Emptied == [kind |-> "empty", hooks |-> NoHooks]

\* Mutant of Open: the installer returns before it writes.
Open_Returns(p) ==
  /\ pc[p] = "opening"
  /\ file' = Emptied
  /\ Goto(p, "done")
  /\ UNCHANGED <<request, plan, given>>

\* write_text opens the file for writing, which empties it ...
Open(p) ==
  /\ pc[p] = "opening"
  /\ file' = Emptied
  /\ Goto(p, "writing")
  /\ UNCHANGED <<request, plan, given>>

Text(hooks) == [kind |-> "settings", hooks |-> hooks]
Garbled == [kind |-> "garbled", hooks |-> NoHooks]

\* What writing a text at the start of the file leaves: the tail of a longer
\* text that another installer wrote meanwhile stays behind.  Texts of equal
\* weight may be of either length, and a garbled one of any length.
Overlay(hooks) ==
  LET there == file.hooks
      short == file.kind = "settings" /\ Weight(hooks) < Weight(there)
      maybe == \/ file.kind = "garbled"
               \/ /\ file.kind = "settings" /\ there # hooks
                  /\ Weight(hooks) = Weight(there)
  IN  (IF short THEN {} ELSE {Text(hooks)})
        \cup (IF short \/ maybe THEN {Garbled} ELSE {})

\* ... and writes from its start.
Write(p) ==
  /\ pc[p] = "writing"
  /\ file' \in Overlay(plan[p])
  /\ Goto(p, "done")
  /\ UNCHANGED <<request, plan, given>>

\* A crash; in the middle of the write the file stays as Open left it.
Kill(p) ==
  /\ pc[p] \notin Ended
  /\ Goto(p, IF pc[p] = "writing" THEN "torn" ELSE "killed")
  /\ UNCHANGED <<request, plan, file, given>>

Step(p) == Load(p) \/ Refuse(p) \/ Open(p) \/ Write(p)

Next == \E p \in Installers : Step(p) \/ Kill(p)

\* Every installer is run by the operating system.
Fairness == \A p \in Installers : WF_vars(Step(p))

Spec == Init /\ [][Next]_vars /\ Fairness

-----------------------------------------------------------------------------
(* Properties.                                                             *)

\* Every variable has its type.
TypeOK ==
  /\ request \in [Installers -> Requests]
  /\ pc \in [Installers -> PC]
  /\ plan \in [Installers -> Hooks]
  /\ file \in File
  /\ given \in Hooks

\* The commands registered for an event, each with its matcher.
Registered(hooks, e) ==
  UNION {{<<hooks[e][k].matcher, hooks[e][k].items[n].command>> :
            n \in DOMAIN hooks[e][k].items} : k \in DOMAIN hooks[e]}

\* Merging with existing settings: however installers overlap, fail and are
\* killed, settings that can be read hold every hook they held at first.
\* (Hooks of other installers may get lost, those found may not.)
GivenHooksKept ==
  file.kind = "settings" =>
    \A e \in Events : Registered(given, e) \subseteq Registered(file.hooks, e)

\* One entry per matcher and one item per command.
Distinct(hooks) ==
  \A e \in Events : \A k, n \in DOMAIN hooks[e] :
    /\ hooks[e][k].matcher = hooks[e][n].matcher => k = n
    /\ \A i, j \in DOMAIN hooks[e][k].items :
         hooks[e][k].items[i].command = hooks[e][k].items[j].command => i = j

\* Settings without duplicates never get any, whatever installers ask for
\* the same command and however their steps interleave.
NoDuplicatesArise ==
  (Distinct(given) /\ file.kind = "settings") => Distinct(file.hooks)

\* The file is unreadable only in the window of a write: it is empty while
\* an installer writes it or after one was killed there, and it is garbled
\* only when two installers got to write it.
Writers == {p \in Installers :
              \/ pc[p] \in {"writing", "torn"}
              \/ pc[p] = "done" /\ ~request[p].dryRun}

UnreadableOnlyTorn ==
  /\ file.kind = "empty" =>
       \E p \in Installers : pc[p] \in {"writing", "torn"}
  /\ file.kind = "garbled" => Cardinality(Writers) >= 2

\* Those that came to their end and were to write.
Written == {p \in Installers : pc[p] = "done" /\ ~request[p].dryRun}

\* What installers leave that run one after the other, in this order.
Serial(order) ==
  LET after[n \in 0 .. Len(order)] ==
        IF n = 0 THEN given ELSE Merge(after[n - 1], request[order[n]])
  IN  after[Len(order)]

OneByOne(order) ==
  \A j, k \in DOMAIN order : order[j] = order[k] => j = k

\* Updates may get lost, but they never mix: settings that can be read are
\* those that some of the installers that ended would have left without any
\* overlap, each of them run at most once and after the other.
SerialOutcome ==
  file.kind = "settings" =>
    \E n \in 0 .. Cardinality(Written) :
      \E order \in [1 .. n -> Written] :
        OneByOne(order) /\ file.hooks = Serial(order)

\* The hooks of an event as they are, each with its matcher.
Installed(hooks, e) ==
  UNION {{<<hooks[e][k].matcher, hooks[e][k].items[n]>> :
            n \in DOMAIN hooks[e][k].items} : k \in DOMAIN hooks[e]}

\* Every difference to the settings found at first was asked for: a hook
\* that is new is that of an installer that ended, asked for this event, and
\* one that is gone was refreshed by such an installer.
DifferencesAskedFor ==
  file.kind = "settings" =>
    \A e \in Events :
      /\ \A i \in Installed(file.hooks, e) \ Installed(given, e) :
           \E p \in Written :
             /\ e \in request[p].events
             /\ i = <<request[p].matcher, Hook(request[p])>>
      /\ \A i \in Installed(given, e) \ Installed(file.hooks, e) :
           \E p \in Written :
             /\ e \in request[p].events /\ request[p].replace
             /\ i[1] = request[p].matcher
             /\ i[2].command = request[p].command

\* The hook of the request is in the settings, with the timeout asked for
\* when it was to be refreshed.
Shows(hooks, r) ==
  \A e \in r.events \cap Events : \E k \in DOMAIN hooks[e] :
    /\ hooks[e][k].matcher = r.matcher
    /\ \E n \in DOMAIN hooks[e][k].items :
         /\ hooks[e][k].items[n].command = r.command
         /\ r.replace => hooks[e][k].items[n] = Hook(r)

InEffect(p) == file.kind = "settings" /\ Shows(file.hooks, request[p])

\* Whatever happens around it, at the moment an installer ends its hook is
\* in effect, unless the file cannot be read then: both when it wrote and
\* when it found nothing to write.
EndsInEffect ==
  [][\A p \in Installers :
       ( /\ pc[p] # "done" /\ pc'[p] = "done"
         /\ ~request[p].dryRun /\ file'.kind = "settings" )
       => InEffect(p)']_vars

\* An installer that runs after all others ended, on a file it can read,
\* gets its hook in effect unless it is killed: nothing the earlier ones
\* left behind, lost or half done, keeps it from repairing the settings.
LoneInstallTakesEffect ==
  \A p \in Installers :
    ( /\ pc[p] = "loading"
      /\ \A q \in Installers \ {p} : pc[q] \in Ended
      /\ Loadable(file) /\ Supported(request[p])
      /\ request[p].events # {} /\ ~request[p].dryRun )
    ~> (InEffect(p) \/ pc[p] \in {"killed", "torn"})

\* docs/repo-local-hook-installer.md: the installer deduplicates matching
\* command hooks.  No command is registered twice for an event and a matcher
\* unless the settings had it twice.
Places(hooks, e, matcher, command) ==
  UNION {{<<k, n>> : n \in {i \in DOMAIN hooks[e][k].items :
                              hooks[e][k].items[i].command = command}} :
           k \in {i \in DOMAIN hooks[e] : hooks[e][i].matcher = matcher}}

DeduplicatesHooks ==
  file.kind = "settings" =>
    \A e \in Events, m \in Matchers, c \in Commands :
      Cardinality(Places(file.hooks, e, m, c)) > 1
        => Cardinality(Places(given, e, m, c)) > 1
=============================================================================
