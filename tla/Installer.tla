------------------------------ MODULE Installer -------------------------------
(* Putting the stack on a server and putting it there again: bootstrap.sh and  *)
(* install.sh (src/deploy), the settings file they keep, what compose starts   *)
(* from it, and what the service itself accepts (compile-service/src/config.ts).*)
(* The scripts can be interrupted at any command.                              *)
EXTENDS Sequences, Naturals

CONSTANTS
    Passwords,  \* what openssl makes, one for each launch: their number bounds the launches
    Seeds,      \* the settings an operator may bring along: sequences of <<key, value>>
    Domains,    \* answers to the domain's question, "localhost" for none
    MaxChanges  \* bound: what else happens to the server

Keys == {"POSTGRES_PASSWORD", "SMTP_HOST", "RJ_REQUIRE_VERIFIED_EMAIL", "RJ_DOMAIN",
         "RJ_PUBLISH_PORT", "RJ_TRUST_PROXY"}

ASSUME InstallerAssumption ==
    /\ MaxChanges \in Nat /\ Passwords \in Seq(STRING) /\ Domains \subseteq STRING
    /\ Seeds \subseteq Seq(Keys \X STRING)

VARIABLES
    server,     \* the packages, the checkout, its .env, the data directory, what runs, the ports taken
    installer,  \* the run under way
    launches, changes,
    excused     \* ghost: the operator gave the database another password, or broke off there

installerVars == <<server, installer, launches, changes, excused>>

Packages == {"git", "docker"}

Unset   == "unset"
Blank   == [k \in Keys |-> Unset]
Stopped == [up |-> FALSE, env |-> Blank]

InstallerInit ==
    /\ \E installed \in SUBSET Packages :
         server = [packages |-> installed, source |-> "none", env |-> Blank, data |-> Unset,
                   service |-> Stopped, caddy |-> FALSE, theirs |-> {}]
    /\ installer = [stage |-> "idle"]
    /\ launches = 0 /\ changes = 0 /\ excused = FALSE

Given(env, key) == env[key] \notin {Unset, ""}

(* loadConfig: set to nothing is not set, verification is on unless it is      *)
(* turned off, and asking for it without a mail server is refused.             *)
Verifies(env) == env["RJ_REQUIRE_VERIFIED_EMAIL"] # "false"
Accepts(env)  == Verifies(env) => Given(env, "SMTP_HOST")

Listening(port) ==
    \/ port \in server.theirs
    \/ port = "web" /\ server.caddy
    \/ server.service.up /\ server.service.env["RJ_PUBLISH_PORT"] = port

-------------------------------------------------------------------------------
(* The run.                                                                    *)

Stage(step) == installer.stage = step
Goes(step) == installer' = [installer EXCEPT !.stage = step]
Dies == installer' = [stage |-> "idle"]

Launch ==
    /\ Stage("idle") /\ launches < Len(Passwords) /\ launches' = launches + 1
    /\ \E dry \in BOOLEAN, seed \in Seeds, domain \in Domains :
         installer' = [stage |-> "packages", dry |-> dry, seed |-> seed, domain |-> domain,
                       mode |-> "unknown", port |-> "unknown", todo |-> <<>>, dropped |-> FALSE,
                       env |-> server.env, before |-> server]
    /\ UNCHANGED <<server, changes, excused>>

(* What is missing is installed, git first, of a dry run too; whoever declines, *)
(* and a daemon that does not answer, ends it.                                 *)
InstallPackages ==
    /\ Stage("packages")
    /\ \/ server.packages = Packages /\ Goes("source") /\ UNCHANGED server
       \/ /\ server.packages # Packages /\ UNCHANGED installer
          /\ LET name == IF "git" \in server.packages THEN "docker" ELSE "git"
             IN  server' = [server EXCEPT !.packages = @ \cup {name}]
       \/ Dies /\ UNCHANGED server
    /\ UNCHANGED <<launches, changes, excused>>

(* Mutant: a dry run clones where the real one would.                          *)
FetchSourceInPlace ==
    /\ Stage("source")
    /\ IF server.source = "dirty" THEN Dies ELSE Goes("look")
    /\ server' = [server EXCEPT !.source = IF @ = "none" THEN "clean" ELSE @]
    /\ UNCHANGED <<launches, changes, excused>>

(* bootstrap: a clone, which a dry run makes somewhere temporary, or an update  *)
(* of a checkout nobody has changed.                                           *)
FetchSource ==
    /\ Stage("source")
    /\ IF server.source = "dirty" THEN Dies ELSE Goes("look")
    /\ server' = [server EXCEPT !.source = IF installer.dry THEN @ ELSE IF @ = "none" THEN "clean" ELSE @]
    /\ UNCHANGED <<launches, changes, excused>>

(* What already listens decides the shape, and the port the app gets; with     *)
(* --behind-proxy the shape is the operator's.                                 *)
Look ==
    /\ Stage("look")
    /\ \E mode \in {"behind", "edge"} :
         /\ mode = "edge" => ~Listening("web") /\ installer.domain # "localhost"
         /\ LET port == IF Listening("28610") THEN "28710" ELSE "28610"
            IN  IF Listening(port) THEN Dies
                ELSE installer' = [installer EXCEPT !.stage = "open", !.mode = mode, !.port = port]
    /\ UNCHANGED <<server, launches, changes, excused>>

Edits(how, pairs) == [i \in DOMAIN pairs |-> [how |-> how, key |-> pairs[i][1], value |-> pairs[i][2]]]

(* What was brought along goes in first, then what is only given once, then    *)
(* what this run answers.                                                      *)
EnvEdits(run) ==
    Edits("seed", run.seed)
    \o Edits("keep", <<<<"POSTGRES_PASSWORD", Passwords[launches]>>, <<"SMTP_HOST", "">>>>)
    \o Edits("set", <<<<"RJ_PUBLISH_PORT", run.port>>, <<"RJ_DOMAIN", run.domain>>,
                      <<"RJ_TRUST_PROXY", IF run.domain = "localhost" THEN "false" ELSE "true">>>>)

OpenEnv ==
    /\ Stage("open")
    /\ installer' = [installer EXCEPT !.stage = "edit", !.todo = EnvEdits(installer)]
    /\ UNCHANGED <<server, launches, changes, excused>>

(* A dry run writes to a copy.                                                 *)
Env == IF installer.dry THEN installer.env ELSE server.env

(* What may have been chosen or generated before is kept, and a key brought    *)
(* without a value is skipped.                                                 *)
Kept(edit) ==
    \/ edit.how = "keep" /\ Env[edit.key] # Unset
    \/ edit.how = "seed" /\ edit.value = ""

(* keep_env adds what is missing; set_env drops the line and then appends one: *)
(* two commands.                                                               *)
EditEnv ==
    /\ Stage("edit") /\ installer.todo # <<>>
    /\ LET edit  == Head(installer.todo)
           drops == edit.how # "keep" /\ ~Kept(edit) /\ ~installer.dropped
           env   == IF Kept(edit) THEN Env
                    ELSE [Env EXCEPT ![edit.key] = IF drops THEN Unset ELSE edit.value]
       IN  /\ installer' = [installer EXCEPT !.dropped = drops, !.todo = IF drops THEN @ ELSE Tail(@),
                                             !.env = env]
           /\ server' = IF installer.dry THEN server ELSE [server EXCEPT !.env = env]
           /\ excused' = (excused \/ /\ ~Kept(edit) /\ edit.how # "keep" /\ edit.key = "POSTGRES_PASSWORD"
                                     /\ ~installer.dry /\ server.data \notin {Unset, edit.value})
    /\ UNCHANGED <<launches, changes>>

Answer(pairs) == installer' = [installer EXCEPT !.todo = Edits("set", pairs)]

(* Without a mail server somebody names one or runs without verification; with *)
(* one, verification that is off is asked about.  Whoever declines ends it.    *)
SettleMail ==
    /\ Stage("edit") /\ installer.todo = <<>>
    /\ IF Given(Env, "SMTP_HOST")
       THEN Goes("up") \/ (~Verifies(Env) /\ Dies)
       ELSE IF ~Verifies(Env) THEN Goes("up")
       ELSE \/ Answer(<<<<"SMTP_HOST", "smtp">>, <<"RJ_REQUIRE_VERIFIED_EMAIL", "true">>>>)
            \/ Answer(<<<<"RJ_REQUIRE_VERIFIED_EMAIL", "false">>>>)
            \/ Dies
    /\ UNCHANGED <<server, launches, changes, excused>>

(* Compose makes the database on the first start, replaces the service, and    *)
(* fails where a port it needs was taken in the meantime.                      *)
BringUp ==
    /\ Stage("up")
    /\ LET clash == \/ server.env["RJ_PUBLISH_PORT"] \in server.theirs
                    \/ installer.mode = "edge" /\ "web" \in server.theirs
       IN  IF installer.dry THEN Goes("done") /\ UNCHANGED server
           ELSE IF ~Given(server.env, "POSTGRES_PASSWORD") THEN Dies /\ UNCHANGED server
           ELSE /\ server' = [server EXCEPT
                       !.data = IF @ = Unset THEN server.env["POSTGRES_PASSWORD"] ELSE @,
                       !.service = [up |-> ~clash /\ Accepts(server.env), env |-> server.env],
                       !.caddy = @ \/ (installer.mode = "edge" /\ ~clash)]
                /\ IF clash THEN Dies ELSE Goes("done")
    /\ UNCHANGED <<launches, changes, excused>>

(* Ready or not, the site file and the farewell are written.                   *)
Done == Stage("done") /\ Dies /\ UNCHANGED <<server, launches, changes, excused>>

(* Interrupted, or a command failed: what was written so far stays.            *)
BreakOff ==
    /\ ~Stage("idle") /\ Dies
    /\ excused' = (excused \/ /\ Stage("edit") /\ ~installer.dry /\ installer.todo # <<>>
                              /\ installer.dropped /\ Head(installer.todo).key = "POSTGRES_PASSWORD")
    /\ UNCHANGED <<server, launches, changes>>

(* The operator between runs, and what else the server is used for.            *)
ServerChanges ==
    /\ changes < MaxChanges /\ changes' = changes + 1
    /\ \/ Stage("idle") /\ server.source # "none"
          /\ \/ server' = [server EXCEPT !.env["SMTP_HOST"] = "smtp"]
             \/ \E v \in {"true", "false"} : server' = [server EXCEPT !.env["RJ_REQUIRE_VERIFIED_EMAIL"] = v]
             \/ server' = [server EXCEPT !.source = IF @ = "dirty" THEN "clean" ELSE "dirty"]
             \/ server' = [server EXCEPT !.service = Stopped, !.caddy = FALSE]
       \/ ~server.caddy /\ server' = [server EXCEPT !.theirs = IF "web" \in @ THEN {} ELSE {"web"}]
    /\ UNCHANGED <<installer, launches, excused>>

InstallerNext ==
    \/ Launch \/ InstallPackages \/ FetchSource \/ Look \/ OpenEnv \/ EditEnv \/ SettleMail \/ BringUp
    \/ Done \/ BreakOff \/ ServerChanges

InstallerSpec == InstallerInit /\ [][InstallerNext]_installerVars

-------------------------------------------------------------------------------
(* "Regenerating this on a second run would leave the app unable to open the   *)
(* database it created on the first": through any number of runs, dry or real, *)
(* finished or broken off, the service has the password its database was made  *)
(* with, unless the operator brought another, or a run was broken off between  *)
(* dropping that line and writing it again.                                    *)
DatabaseOpens == server.service.up /\ ~excused => server.service.env["POSTGRES_PASSWORD"] = server.data

(* A run that got to the end has started a service that accepts its settings   *)
(* and answers to the domain this run was given, and any Caddy that is up is    *)
(* believed ("anything in front is a proxy").  One is not: a Caddy an earlier   *)
(* run left up, when this run takes the domain away again.                     *)
EndsWithAService ==
    Stage("done") /\ ~installer.dry =>
        LET env == server.service.env
        IN  /\ server.service.up
            /\ env["RJ_DOMAIN"] = installer.domain
            /\ env["RJ_TRUST_PROXY"] = "true" <=> installer.domain # "localhost"
            /\ server.caddy => \/ env["RJ_TRUST_PROXY"] = "true"
                               \/ installer.domain = "localhost" /\ installer.before.caddy

(* A dry run leaves the stack as it was, its checkout, settings, data and what *)
(* runs of it.  It is not without a trace: it installs the packages that were   *)
(* missing as a real run would.                                                *)
Stack(s) == [s EXCEPT !.theirs = {}, !.packages = {}]

DryRunIsDry ==
    ~Stage("idle") /\ installer.dry =>
        /\ Stack(server) = Stack(installer.before)
        /\ installer.before.packages \subseteq server.packages

InstallIsSafe == DatabaseOpens /\ EndsWithAService /\ DryRunIsDry
===============================================================================
