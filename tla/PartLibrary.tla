----------------------------- MODULE PartLibrary ------------------------------
(* How a component gets from a datasheet onto the canvas: the extraction loop  *)
(* of the service (datasheet/src/extract.ts, datasheet-route.ts), the dialog    *)
(* that asks for it, the library that stores what was added and keeps the two   *)
(* registries in step (studio/src/library.ts, parts/src/registry.ts), and the   *)
(* worker that builds what was placed.                                         *)
EXTENDS Manifest

CONSTANTS
    Drafts,         \* the manifests a model may answer with
    HandCoded,      \* the ids of parts that are compiled in (BY_TYPE)
    Shipped,        \* the manifests that are
    MaxAttempts, MaxRetries,    \* of an extraction: answers, and calls for one
    MaxTold,        \* bound: messages on their way to the worker
    MaxAsked,       \* bound: extractions asked for
    MaxReloads      \* bound: reloads of the page

NoManifest == [id |-> "none"]

ASSUME PartLibraryAssumption ==
    /\ MaxAttempts \in Nat \ {0} /\ MaxRetries \in Nat /\ MaxTold \in Nat /\ MaxAsked \in Nat /\ MaxReloads \in Nat
    /\ \A m \in Shipped : Valid(m) /\ m.id \notin HandCoded
    /\ \A m \in Shipped \cup Drafts : m # NoManifest /\ IsManifest(m)

Types == HandCoded \cup {m.id : m \in Shipped \cup Drafts}

VARIABLES
    extraction, \* in the service: stage, the attempt, the retry; what came of it
    busy, preview, failed,  \* the dialog
    registered, \* [studio, worker]: the registered part of every type
    stored,     \* localStorage: the manifests that were added
    placed,     \* the types of the project's parts
    told,       \* calls on their way to the worker, in order
    firmware, onBoard, unknown, \* the worker: hex is loaded; what is built; problems
    answers, calls, \* ghosts: what the extraction has cost so far
    foreign,    \* ghost: the types of what is built that the canvas did not know when it sent it
    asks, reloads

libraryVars == <<extraction, busy, preview, failed, registered, stored, placed, told, firmware, onBoard,
                 unknown, foreign, answers, calls, asks, reloads>>

NotAsked == [stage |-> "idle", attempt |-> 0, retry |-> 0, found |-> NoManifest]

(* installBuiltinManifests.                                                    *)
Installed == [t \in Types |->
    IF \E m \in Shipped : m.id = t THEN CHOOSE m \in Shipped : m.id = t ELSE NoManifest]

(* registerPart: what is compiled in is not replaced.                          *)
Registering(parts, m) == IF m.id \in HandCoded THEN parts ELSE [parts EXCEPT ![m.id] = m]

(* restoreLibrary, of one manifest for every id.                               *)
Restored(parts, manifests) == [t \in Types |->
    IF t \notin HandCoded /\ \E m \in manifests : m.id = t
    THEN CHOOSE m \in manifests : m.id = t ELSE parts[t]]

KnownType(parts, t) == t \in HandCoded \/ parts[t] # NoManifest

LibraryInit ==
    /\ extraction = NotAsked /\ busy = FALSE /\ preview = NoManifest /\ failed = FALSE
    /\ registered = [studio |-> Installed, worker |-> Installed] /\ stored = {} /\ placed = {}
    /\ told = <<>> /\ firmware = FALSE /\ onBoard = {} /\ unknown = {}
    /\ foreign = {} /\ answers = 0 /\ calls = 0 /\ asks = 0 /\ reloads = 0

dialogVars == <<busy, preview, failed>>
workerVars == <<firmware, onBoard, unknown, foreign>>
partsVars  == <<registered, stored, placed, told, reloads>>
costs      == <<answers, calls, asks>>

-------------------------------------------------------------------------------
(* The dialog's Extract, and the service's extractManifest.                    *)

Ask ==
    /\ ~busy /\ extraction.stage = "idle" /\ asks < MaxAsked /\ asks' = asks + 1
    /\ busy' = TRUE /\ preview' = NoManifest /\ failed' = FALSE
    /\ extraction' = [NotAsked EXCEPT !.stage = "asking", !.attempt = 1]
    /\ answers' = 0 /\ calls' = 0
    /\ UNCHANGED <<partsVars, workerVars>>

(* generateWithRetry: a busy API is asked again; anything else gives up.       *)
Transient ==
    /\ extraction.stage = "asking" /\ calls' = calls + 1
    /\ extraction' = IF extraction.retry < MaxRetries
                     THEN [extraction EXCEPT !.retry = @ + 1] ELSE [extraction EXCEPT !.stage = "thrown"]
    /\ UNCHANGED <<dialogVars, partsVars, workerVars, answers, asks>>

Rejected ==
    /\ extraction.stage = "asking" /\ calls' = calls + 1
    /\ extraction' = [extraction EXCEPT !.stage = "thrown"]
    /\ UNCHANGED <<dialogVars, partsVars, workerVars, answers, asks>>

(* Nothing, no JSON, not the schema, or a draft that is not valid: the model   *)
(* is asked again with what was wrong.                                         *)
Repaired(e) ==
    IF e.attempt < MaxAttempts THEN [e EXCEPT !.attempt = @ + 1, !.retry = 0] ELSE [e EXCEPT !.stage = "refused"]

ValidDrafts == {m \in Drafts : Valid(m)}

Answered ==
    /\ extraction.stage = "asking" /\ calls' = calls + 1 /\ answers' = answers + 1 /\ UNCHANGED asks
    /\ \/ extraction' = Repaired(extraction)
       \/ \E m \in ValidDrafts : extraction' = [extraction EXCEPT !.stage = "ok", !.found = m]
    /\ UNCHANGED <<dialogVars, partsVars, workerVars>>

(* The answer reaches the dialog, or does not.                                 *)
Shown ==
    /\ extraction.stage \in {"ok", "refused", "thrown"} /\ busy
    /\ busy' = FALSE
    /\ \/ extraction.stage = "ok" /\ preview' = extraction.found /\ UNCHANGED failed
       \/ failed' = TRUE /\ UNCHANGED preview
    /\ extraction' = NotAsked /\ answers' = 0 /\ calls' = 0
    /\ UNCHANGED <<partsVars, workerVars, asks>>

(* Another text, file or hint.                                                 *)
EditDialog ==
    /\ preview' = NoManifest /\ failed' = FALSE
    /\ UNCHANGED <<extraction, busy, partsVars, workerVars, costs>>

-------------------------------------------------------------------------------
(* The library.                                                                *)

(* addManifest: both registries, and the store unless that is full.            *)
AddManifest ==
    /\ preview # NoManifest /\ Len(told) < MaxTold
    /\ IF preview.id \in HandCoded
       THEN failed' = TRUE /\ UNCHANGED <<registered, stored, told>>
       ELSE /\ registered' = [registered EXCEPT !.studio = Registering(@, preview)]
            /\ told' = Append(told, [call |-> "registerManifest", manifest |-> preview])
            /\ \/ stored' = {m \in stored : m.id # preview.id} \cup {preview}
               \/ UNCHANGED stored
            /\ UNCHANGED failed
    /\ UNCHANGED <<extraction, busy, preview, placed, reloads, workerVars, costs>>

Strangers(parts, types) == {t \in types : ~KnownType(parts, t)}
Loading(call) == [call |-> call, types |-> placed', foreign |-> Strangers(registered'.studio, placed')]

(* What is compiled in needs no registering and is not followed.               *)
PlacePart ==
    /\ Len(told) < MaxTold
    /\ \E t \in Types \ (placed \cup HandCoded) : KnownType(registered.studio, t) /\ placed' = placed \cup {t}
    /\ UNCHANGED <<extraction, dialogVars, registered, stored, reloads, workerVars, costs>>
    /\ told' = Append(told, Loading("loadProject"))

(* A project from the account, a file or another browser, whose parts this     *)
(* library may not have.                                                       *)
OpenProject ==
    /\ Len(told) < MaxTold
    /\ placed' \in SUBSET (Types \ HandCoded) \ {placed}
    /\ UNCHANGED <<extraction, dialogVars, registered, stored, reloads, workerVars, costs>>
    /\ told' = Append(told, Loading("loadProject"))

(* Build: the firmware goes with the project.                                  *)
FlashFirmware ==
    /\ Len(told) < MaxTold /\ placed # {} /\ UNCHANGED placed
    /\ UNCHANGED <<extraction, dialogVars, registered, stored, reloads, workerVars, costs>>
    /\ told' = Append(told, Loading("load"))

(* The page starts again with the project it autosaved: a new worker, which is *)
(* sent the project before the library is restored into both registries.       *)
Reload ==
    /\ reloads < MaxReloads /\ reloads' = reloads + 1
    /\ registered' = [studio |-> Restored(Installed, stored), worker |-> Installed]
    /\ UNCHANGED <<stored, placed>>
    /\ told' = <<Loading("loadProject")>>
               \o SetToSeq({[call |-> "registerManifest", manifest |-> m] : m \in stored})
    /\ firmware' = FALSE /\ onBoard' = {} /\ unknown' = {} /\ foreign' = {}
    /\ extraction' = NotAsked /\ busy' = FALSE /\ preview' = NoManifest /\ failed' = FALSE
    /\ answers' = 0 /\ calls' = 0 /\ UNCHANGED asks

(* The worker takes the next call: registerManifest, load or loadProject.      *)
Take ==
    /\ told # <<>> /\ told' = Tail(told)
    /\ LET next == Head(told)
       IN  IF next.call = "registerManifest"
           THEN /\ registered' = [registered EXCEPT !.worker = Registering(@, next.manifest)]
                /\ UNCHANGED workerVars
           ELSE /\ firmware' = (firmware \/ next.call = "load")
                /\ IF firmware'
                   THEN /\ onBoard' = {registered.worker[t] : t \in {t \in next.types \ HandCoded : KnownType(registered.worker, t)}}
                        /\ unknown' = Strangers(registered.worker, next.types) /\ foreign' = next.foreign
                   ELSE UNCHANGED <<onBoard, unknown, foreign>>
                /\ UNCHANGED registered
    /\ UNCHANGED <<extraction, dialogVars, stored, placed, reloads, costs>>

LibraryNext ==
    \/ Ask \/ Transient \/ Rejected \/ Answered \/ Shown \/ EditDialog
    \/ AddManifest \/ PlacePart \/ OpenProject \/ FlashFirmware \/ Reload \/ Take
LibrarySpec == LibraryInit /\ [][LibraryNext]_libraryVars

-------------------------------------------------------------------------------
SoundParts == {m \in Shipped \cup Drafts : Valid(m) /\ StandsOnItsPins(m) /\ LegsReachTheHoles(m)}

(* What is on the board came through the validator, stands on its own pins and  *)
(* reaches the holes, whatever the model answered; the worker never reports a   *)
(* part as unknown that the canvas could draw when it sent it, and once it has  *)
(* caught up knows every manifest that the studio does, also after a reload.   *)
PartsAreSound ==
    /\ onBoard \subseteq SoundParts
    /\ unknown \subseteq foreign
    /\ told = <<>> => registered.worker = registered.studio

(* A busy API costs none of the answers that a bad datasheet is given, nor do   *)
(* bad answers cost the next one its retries.                                  *)
BudgetsAreSeparate ==
    /\ extraction.stage = "refused" => answers = MaxAttempts
    /\ extraction.stage = "asking" => answers < MaxAttempts /\ calls <= answers * (MaxRetries + 1) + MaxRetries

LibraryIsSound == PartsAreSound /\ BudgetsAreSeparate
===============================================================================
