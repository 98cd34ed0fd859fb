------------------------------- MODULE Workspace -------------------------------
(* Where the studio's document goes: the autosave of the browser              *)
(* (persistence.ts, the effect of Studio.tsx), reloads and crashes of the tab, *)
(* a second tab over the same storage, and the account's projects             *)
(* (MenuBar.tsx, panels/CloudProjectsDialog.tsx), whose calls are answered    *)
(* when they are. The editing itself is module Editor.                        *)
EXTENDS Editor

CONSTANTS
    MaxCalls,       \* bound: how many calls are made to the account
    MaxReloads      \* bound: how often the tab is reloaded or lost

ASSUME WorkspaceAssumption == MaxCalls \in Nat /\ MaxReloads \in Nat

VARIABLES
    stored,     \* the document in localStorage
    timer,      \* whether an autosave is on its way
    mounted,    \* whether the workspace is on screen: a seat is held
    adrift,     \* why the storage may be behind with nothing on its way
    rows,       \* the account's projects, in the order they were created
    calls,      \* the calls under way
    late,       \* the projects that became a document's by the answer to another's save
    asked, reloads

saveVars == <<stored, timer, mounted, adrift>>
accountVars == <<rows, calls, late, asked>>
vars == <<editorVars, saveVars, accountVars, reloads>>

Gone == [doc |-> 0]      \* a project that was deleted

Init ==
    /\ EditorInit
    /\ stored = project /\ timer = FALSE /\ mounted = TRUE /\ adrift = "no"
    /\ rows = <<>> /\ calls = {} /\ late = {}
    /\ asked = 0 /\ reloads = 0

-------------------------------------------------------------------------------
(* The autosave.                                                              *)

(* The subscription of Studio.tsx: a changed project starts the timer anew,   *)
(* as long as there is a workspace to have subscribed.                        *)
(* Mutant: only an edit that can be undone starts it.                         *)
NoticedIfUndoable ==
    /\ timer' = (timer \/ (mounted /\ work'.past # work.past))
    /\ adrift' = (IF ~mounted /\ work'.project # project THEN "unmounted" ELSE adrift)

Noticed ==
    /\ timer' = (timer \/ (mounted /\ work'.project # project))
    /\ adrift' = (IF ~mounted /\ work'.project # project THEN "unmounted" ELSE adrift)

(* saveWorkspace never throws: a write the storage refuses leaves what it had. *)
SaveWorkspace ==
    \/ stored' = project /\ adrift' = "no"
    \/ UNCHANGED stored /\ adrift' = "refused"

Autosave ==
    /\ timer /\ timer' = FALSE
    /\ SaveWorkspace
    /\ UNCHANGED <<editorVars, mounted, accountVars, reloads>>

(* Another tab of the studio leaves, and writes the document it has.          *)
OtherTab ==
    /\ stored.doc # 0
    /\ stored' = EmptyProject(0) /\ adrift' = "another tab"
    /\ UNCHANGED <<editorVars, timer, mounted, accountVars, reloads>>

(* The workspace leaves the screen -- the seat is gone, or the account signed *)
(* out, which cuts the link -- and its cleanup writes what there is. The      *)
(* store stays, and so does a plan under way.                                 *)
Unmount ==
    /\ mounted /\ mounted' = FALSE /\ timer' = FALSE
    /\ SaveWorkspace
    /\ plan' = Dropped
    /\ link' \in {link, 0}
    /\ UNCHANGED <<work, selected, mode, counter, edits, docs, strayed, accountVars, reloads>>

Mount ==
    /\ ~mounted /\ mounted' = TRUE
    /\ UNCHANGED <<editorVars, stored, timer, adrift, accountVars, reloads>>

(* A reload writes on pagehide, a crash does not; either way the store is     *)
(* made anew from what is stored, and nobody hears the calls under way.       *)
Reload ==
    /\ reloads < MaxReloads /\ reloads' = reloads + 1
    /\ \/ mounted /\ SaveWorkspace
       \/ UNCHANGED stored /\ adrift' = "no"
    /\ work' = [past |-> <<>>, project |-> UniqueIds(stored'), future |-> <<>>]
    /\ selected' = {} /\ mode' = Idle /\ counter' = 0 /\ link' = 0
    /\ plan' = NoPlan /\ timer' = FALSE /\ mounted' = TRUE
    /\ calls' = {[c EXCEPT !.heard = FALSE] : c \in calls}
    /\ UNCHANGED <<edits, docs, strayed, rows, late, asked>>

-------------------------------------------------------------------------------
(* The account's projects. A call carries what the store held when it was     *)
(* made; its answer acts on the store as it is when it arrives.               *)
Call(kind, row) ==
    /\ mounted /\ asked < MaxCalls /\ asked' = asked + 1
    /\ calls' = calls \cup {[id |-> asked, kind |-> kind, row |-> row,
                             project |-> project, state |-> "sent", heard |-> TRUE]}
    /\ UNCHANGED <<editorVars, saveVars, rows, late, reloads>>

(* saveToAccount creates a project the first time and updates it thereafter;  *)
(* the dialog also saves the document as a new one.                           *)
SaveToAccount == IF link # 0 THEN Call("update", link) ELSE Call("create", 0)
SaveCurrentAsNew == Call("create", 0)
OpenRow(r) == Call("open", r)
RemoveRow(r) == Call("remove", r)

Answering(c, answer) == calls' = (calls \ {c}) \cup {answer}

(* The server's side, each a statement on the account's own rows.             *)
Succeeds(c, row, document) == Answering(c, [c EXCEPT !.state = "ok", !.row = row, !.project = document])
Fails(c) == Answering(c, [c EXCEPT !.state = "failed"])
Stored(c) == c.kind # "create" /\ rows[c.row] # Gone

CreateProject(c) ==
    /\ c.kind = "create"
    /\ rows' = Append(rows, c.project)
    /\ Succeeds(c, Len(rows) + 1, c.project)

GetProject(c) ==
    /\ c.kind = "open" /\ Stored(c)
    /\ Succeeds(c, c.row, rows[c.row])
    /\ UNCHANGED rows

UpdateProject(c) ==
    /\ c.kind = "update" /\ Stored(c)
    /\ rows' = [rows EXCEPT ![c.row] = c.project]
    /\ Succeeds(c, c.row, c.project)

DeleteProject(c) ==
    /\ c.kind = "remove" /\ Stored(c)
    /\ rows' = [rows EXCEPT ![c.row] = Gone]
    /\ Succeeds(c, c.row, c.project)

NoSuchProject(c) ==
    /\ c.kind # "create" /\ ~Stored(c)
    /\ Fails(c)
    /\ UNCHANGED rows

Serve(c) ==
    /\ c.state = "sent"
    /\ \/ CreateProject(c) \/ GetProject(c) \/ UpdateProject(c) \/ DeleteProject(c)
       \/ NoSuchProject(c)
    /\ UNCHANGED <<editorVars, saveVars, late, asked, reloads>>

(* The call, or its answer, does not get through.                             *)
Fail(c) ==
    /\ c.state # "failed"
    /\ Fails(c)
    /\ UNCHANGED <<editorVars, saveVars, rows, late, asked, reloads>>

Answered(c) == calls' = calls \ {c} /\ UNCHANGED <<rows, asked, reloads>>

(* setCloudProject(created.id), on whatever document is open by now.          *)
CreateAnswered(c) ==
    /\ c.kind = "create" /\ c.state = "ok" /\ c.heard /\ Answered(c)
    /\ link' = c.row
    /\ late' = late \cup {r \in {c.row} : c.project.doc # project.doc}
    /\ UNCHANGED <<work, selected, mode, counter, plan, edits, docs, strayed, saveVars>>

(* open_: the document, then the link.                                        *)
OpenAnswered(c) ==
    /\ c.kind = "open" /\ c.state = "ok" /\ c.heard /\ Answered(c)
    /\ LoadProject(UniqueIds(c.project), c.row)
    /\ Noticed
    /\ UNCHANGED <<late, selected, mode, counter, plan, edits, docs, strayed, stored, mounted>>

(* remove: the document that was this project is a local one now.             *)
RemoveAnswered(c) ==
    /\ c.kind = "remove" /\ c.state = "ok" /\ c.heard /\ Answered(c)
    /\ link' = IF link = c.row THEN 0 ELSE link
    /\ UNCHANGED <<late, work, selected, mode, counter, plan, edits, docs, strayed, saveVars>>

(* A failure is shown, an update only marks the document as saved, and an     *)
(* answer to a page that is gone is heard by nobody.                          *)
OtherwiseAnswered(c) ==
    /\ c.state = "failed" \/ (c.state = "ok" /\ (c.kind = "update" \/ ~c.heard))
    /\ Answered(c)
    /\ UNCHANGED <<editorVars, saveVars, late>>

-------------------------------------------------------------------------------
(* A step of the editor, with what the autosave and the link make of it.      *)
Editing ==
    /\ (mounted /\ (Gesture \/ Planning)) \/ Carrying
    /\ Noticed
    /\ UNCHANGED <<stored, mounted, accountVars, reloads>>

Saving == Autosave \/ OtherTab \/ Unmount \/ Mount \/ Reload

Account ==
    \/ SaveToAccount \/ SaveCurrentAsNew
    \/ \E r \in DOMAIN rows : rows[r] # Gone /\ (OpenRow(r) \/ RemoveRow(r))
    \/ \E c \in calls :
         \/ Serve(c) \/ Fail(c)
         \/ CreateAnswered(c) \/ OpenAnswered(c) \/ RemoveAnswered(c)
         \/ OtherwiseAnswered(c)

Next == Editing \/ Saving \/ Account

Spec == Init /\ [][Next]_vars

-------------------------------------------------------------------------------
(* The undo stack of store.ts is a line of states and a cursor: whatever an   *)
(* edit, a gesture of several edits, an undo, a redo, a plan or a document    *)
(* that is opened does to past, project and future.                           *)
T == INSTANCE Timeline WITH
        Limit <- HistoryLimit,
        tape <- work.past \o <<work.project>> \o work.future,
        cursor <- Len(work.past) + 1

ImplementsTimeline == T!Spec

(* Every part has an id of its own and every wire ends on parts that are      *)
(* there, in the document and in every state of it that undo can bring back,  *)
(* unless a half-drawn wire outlived the part it began on or a plan ran on    *)
(* another document than it was checked against.                              *)
Sound(p) == p.twins = {} /\ \A w \in p.wires : w \subseteq p.parts

SoundUnlessStrayed ==
    strayed \/ \A p \in Range(work.past \o <<work.project>> \o work.future) : Sound(p)

(* The work on screen is what the next visit will find, or is on its way to   *)
(* the browser's storage, unless the storage refused it, another tab wrote    *)
(* over it, or it was made while the workspace was away.                      *)
WorkIsOnItsWay ==
    UniqueIds(stored) = UniqueIds(project) \/ timer \/ adrift # "no"

(* The account's project a document is linked to is that document, so that    *)
(* the next save goes to its own copy -- unless that project was once linked  *)
(* by the late answer to the save of a document closed since.                 *)
LinkIsItsOwn ==
    \/ link = 0 \/ link \in late
    \/ rows[link] = Gone
    \/ rows[link].doc = project.doc

(* What panels/CloudProjectsDialog.tsx says of opening another document:      *)
(* saving it never overwrites the account's copy of the one that was open.    *)
RowKeepsItsDocument ==
    [][\A r \in DOMAIN rows :
         rows[r] # Gone /\ rows'[r] # Gone => rows'[r].doc = rows[r].doc]_vars
===============================================================================
