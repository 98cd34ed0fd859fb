------------------------------- MODULE Compiler --------------------------------
(* The compile route and the compiler behind it (compile-service/src/          *)
(* server.ts, compiler.ts, diagnostics.ts): requests that overlap, each with a *)
(* work directory of its own, a toolchain that comes and goes, a disk that may *)
(* fail, and a cache by the content of the sketch.  Seats, shutdown and the    *)
(* connections to Redis and Postgres are Service's, which sees a compile as    *)
(* one step.                                                                   *)
EXTENDS Service

CONSTANTS
    Jobs,           \* requests that may be under way together
    Quality,        \* of each sketch: "sound", "faulty" (its source is wrong),
                    \* "unlinkable", "misnamed" (a file name leads outside)
    MaxDirs,        \* bound: work directories ever made
    MaxFaults       \* bound: failures of the disk, ends of the process

Sketches == DOMAIN Quality

ASSUME CompilerAssumption ==
    /\ \A s \in Sketches : Quality[s] \in {"sound", "faulty", "unlinkable", "misnamed"}
    /\ MaxDirs \in Nat /\ MaxFaults \in Nat

VARIABLES
    job,            \* of a request: where it is, its sketch, directory, result
    dirs,           \* the work directories there are: what is in sketch/ and out/
    made,           \* directories made so far
    toolchain,      \* "ready", or what docker run says: "daemon", "image", "binary"
    firmwareOf,     \* the compile cache: by sketch, whose firmware it holds
    faults,
    litter          \* directories of a process that ended

compilerVars == <<job, dirs, made, toolchain, firmwareOf, faults, litter>>

NoFirmware == "none"
NoDir  == 0
Untried == [doing |-> "nothing", sketch |-> "none", dir |-> NoDir, result |-> "none",
           firmware |-> NoFirmware, fault |-> "none"]

CompilerInit ==
    /\ job = [r \in Jobs |-> Untried]
    /\ dirs = << >> /\ made = 0 /\ litter = {}
    /\ toolchain = "ready"
    /\ firmwareOf = [s \in Sketches |-> NoFirmware]
    /\ faults = 0

Without(d) == [e \in DOMAIN dirs \ {d} |-> dirs[e]]
Holding(d, contents) == [e \in DOMAIN dirs \cup {d} |-> IF e = d THEN contents ELSE dirs[e]]
Moves(r, from, to) == job[r].doing = from /\ job' = [job EXCEPT ![r] = to]
Answers(r, from, result) == Moves(r, from, [job[r] EXCEPT !.doing = "nothing", !.result = result])

(* An error thrown in the try block: the directory goes before it is answered. *)
Throws(r, from, result, why) ==
    Moves(r, from, [job[r] EXCEPT !.doing = "clean", !.result = result, !.fault = why])
-------------------------------------------------------------------------------
(* The route: the request is looked up by its content before it is compiled.   *)
Post(r) ==
    /\ \E s \in Sketches : Moves(r, "nothing", [Untried EXCEPT !.doing = "lookup", !.sketch = s])
    /\ UNCHANGED <<dirs, made, toolchain, firmwareOf, faults, litter>>

Hit(r) ==
    /\ job[r].doing = "lookup" /\ firmwareOf[job[r].sketch] # NoFirmware
    /\ Moves(r, "lookup", [job[r] EXCEPT !.doing = "nothing", !.result = "ok", !.firmware = firmwareOf[job[r].sketch]])
    /\ UNCHANGED <<dirs, made, toolchain, firmwareOf, faults, litter>>

(* A miss, or no answer from Redis.  assertSafeName throws before anything is  *)
(* made; mkdtemp makes a directory nobody else has.                            *)
Mkdtemp(r) ==
    /\ made < MaxDirs /\ made' = made + 1
    /\ Moves(r, "lookup", [job[r] EXCEPT !.doing = "write", !.dir = made + 1])
    /\ dirs' = Holding(made + 1, [sketch |-> "none", out |-> NoFirmware])

StartCompile(r) ==
    /\ job[r].doing = "lookup"
    /\ \/ Quality[job[r].sketch] = "misnamed" /\ Answers(r, "lookup", "500") /\ UNCHANGED <<dirs, made>>
       \/ Quality[job[r].sketch] # "misnamed" /\ Mkdtemp(r)
    /\ UNCHANGED <<toolchain, firmwareOf, faults, litter>>

WriteFiles(r) ==
    /\ job[r].dir \in DOMAIN dirs
    /\ Moves(r, "write", [job[r] EXCEPT !.doing = "run"])
    /\ dirs' = [dirs EXCEPT ![job[r].dir].sketch = job[r].sketch]
    /\ UNCHANGED <<made, toolchain, firmwareOf, faults, litter>>

(* The disk is full, or what is to be written or read is not there.            *)
DiskFails(r) ==
    LET lost == job[r].dir \notin DOMAIN dirs
    IN  /\ lost \/ faults < MaxFaults
        /\ \E from \in {"write", "read"} : Throws(r, from, "500", IF lost THEN "none" ELSE "disk")
        /\ faults' = IF lost THEN faults ELSE faults + 1
        /\ UNCHANGED <<dirs, made, toolchain, firmwareOf, litter>>

(* What the toolchain makes of a directory: it is not there at all, or it is   *)
(* killed; or its exit code and its diagnostics are those of the sources.  An  *)
(* exit without diagnostics is the toolchain's when its words are known, and   *)
(* an error of nobody's otherwise: a sketch that does not link is one.  When   *)
(* there were warnings before it, they are taken for what is wrong.            *)
Failures == {"500", "diagnostics"}
ToolchainProblem(r) ==
    toolchain # "ready" /\ Throws(r, "run", "503", toolchain) /\ UNCHANGED <<dirs, faults>>
Killed(r) ==
    /\ toolchain = "ready" /\ faults < MaxFaults /\ faults' = faults + 1
    /\ \E answer \in Failures : Throws(r, "run", answer, "killed")
    /\ UNCHANGED dirs
Diagnosed(r, found) ==
    /\ toolchain = "ready" /\ found \in Sketches /\ Quality[found] = "faulty"
    /\ Throws(r, "run", "diagnostics", "none") /\ UNCHANGED <<dirs, faults>>
Unlinked(r, found) ==
    /\ toolchain = "ready" /\ (found \notin Sketches \/ Quality[found] = "unlinkable")
    /\ \E answer \in Failures : Throws(r, "run", answer, "none")
    /\ UNCHANGED <<dirs, faults>>
Compiled(r, found) ==
    /\ toolchain = "ready" /\ found \in Sketches /\ Quality[found] = "sound"
    /\ Moves(r, "run", [job[r] EXCEPT !.doing = "read"])
    /\ dirs' = [dirs EXCEPT ![job[r].dir].out = found]
    /\ UNCHANGED faults

RunArduinoCli(r) ==
    /\ job[r].doing = "run"
    /\ LET found == IF job[r].dir \in DOMAIN dirs THEN dirs[job[r].dir].sketch ELSE "none"
       IN  ToolchainProblem(r) \/ Killed(r) \/ Diagnosed(r, found) \/ Unlinked(r, found) \/ Compiled(r, found)
    /\ UNCHANGED <<made, toolchain, firmwareOf, litter>>

ReadFirmware(r) ==
    /\ job[r].dir \in DOMAIN dirs
    /\ Moves(r, "read", [job[r] EXCEPT !.doing = "clean", !.result = "ok", !.firmware = dirs[job[r].dir].out])
    /\ UNCHANGED <<dirs, made, toolchain, firmwareOf, faults, litter>>

(* finally: whatever happened, the directory goes; then what succeeded is put  *)
(* in the cache, which may not take it, and the answer is sent.                *)
Clean(r) ==
    /\ IF job[r].result = "ok" THEN Moves(r, "clean", [job[r] EXCEPT !.doing = "store", !.dir = NoDir])
       ELSE Moves(r, "clean", [job[r] EXCEPT !.doing = "nothing", !.dir = NoDir])
    /\ dirs' = Without(job[r].dir)
    /\ UNCHANGED <<made, toolchain, firmwareOf, faults, litter>>

StoreFirmware(r) ==
    /\ Moves(r, "store", [job[r] EXCEPT !.doing = "nothing"])
    /\ firmwareOf' \in {firmwareOf, [firmwareOf EXCEPT ![job[r].sketch] = job[r].firmware]}
    /\ UNCHANGED <<dirs, made, toolchain, faults, litter>>
-------------------------------------------------------------------------------
(* Around it: docker and its image come and go, entries of the cache run out,  *)
(* and the process may end with requests under way.                            *)
ToolchainChanges ==
    /\ toolchain' \in IF toolchain = "ready" THEN {"daemon", "image", "binary"} ELSE {"ready"}
    /\ UNCHANGED <<job, dirs, made, firmwareOf, faults, litter>>

EntryExpires ==
    /\ \E s \in Sketches : firmwareOf[s] # NoFirmware /\ firmwareOf' = [firmwareOf EXCEPT ![s] = NoFirmware]
    /\ UNCHANGED <<job, dirs, made, toolchain, faults, litter>>

ProcessEnds ==
    /\ faults < MaxFaults /\ faults' = faults + 1
    /\ job' = [r \in Jobs |-> Untried]
    /\ litter' = DOMAIN dirs
    /\ UNCHANGED <<dirs, made, toolchain, firmwareOf>>

CompilerNext ==
    \/ \E r \in Jobs :
         \/ Post(r) \/ Hit(r) \/ StartCompile(r) \/ WriteFiles(r) \/ DiskFails(r) \/ RunArduinoCli(r)
         \/ ReadFirmware(r) \/ Clean(r) \/ StoreFirmware(r)
    \/ ToolchainChanges \/ EntryExpires \/ ProcessEnds

CompilerSpec == CompilerInit /\ [][CompilerNext]_compilerVars
-------------------------------------------------------------------------------
(* Firmware is of the sketch it was asked for, whoever compiled it and when,   *)
(* and only a sketch that is sound has any.                                    *)
FirmwareIsOfItsSketch ==
    /\ \A s \in Sketches : firmwareOf[s] # NoFirmware => firmwareOf[s] = s /\ Quality[s] = "sound"
    /\ \A r \in Jobs : job[r].result = "ok" => job[r].firmware = job[r].sketch /\ Quality[job[r].sketch] = "sound"

(* A sound sketch is refused for what happened to its own compile and nothing  *)
(* another request did; only a sketch with errors is given diagnostics, or one *)
(* whose build failed otherwise; and only a toolchain that was missing is said *)
(* to be.                                                                      *)
BlameIsWhereItBelongs ==
    \A r \in Jobs :
        /\ job[r].result = "diagnostics" => Quality[job[r].sketch] \in {"faulty", "unlinkable"} \/ job[r].fault = "killed"
        /\ job[r].result = "503" => job[r].fault \in {"daemon", "image", "binary"}
        /\ job[r].result = "500" => job[r].fault # "none" \/ Quality[job[r].sketch] \in {"unlinkable", "misnamed"}

(* A work directory is one compile's, and is there exactly as long as that.    *)
DirsAreTheCompiles ==
    /\ DOMAIN dirs \ litter = {job[r].dir : r \in {r \in Jobs : job[r].dir # NoDir}}
    /\ \A q, r \in Jobs : job[q].dir = job[r].dir => q = r \/ job[r].dir = NoDir

CompilesAreHonest == FirmwareIsOfItsSketch /\ BlameIsWhereItBelongs /\ DirsAreTheCompiles

(* The service is one to be relied on: a release starts on a schema that is    *)
(* whole, stops without cutting off a request it had taken, and in between     *)
(* answers a compile with what became of that sketch.                          *)
ServiceIsReliable == SchemaIsWhole /\ RequestsAreDrained /\ CompilesAreHonest
===============================================================================
