------------------------------ MODULE Generators ------------------------------
(***************************************************************************)
(* The command line tool of cmd/tjo and one application: "make", "migrate" *)
(* and "new", while the developer writes files as well.  A command is a    *)
(* plan of steps, one after the other; any of them may fail, and the       *)
(* command is tried again.                                                 *)
(*                                                                         *)
(* One file stands for those that are treated alike: AuthFile for what     *)
(* "make auth" copies, ExtraFiles for those of "make docker" and "make     *)
(* deploy".                                                                *)
(***************************************************************************)
EXTENDS Naturals, Sequences, FiniteSets, SequencesExt

CONSTANTS
  Name,        \* names that the developer gives to models
  Page,        \* and to handlers, controllers and what else there is
  Within,      \* pairs of a name and another that contains it
  Starter,     \* the model of a starter template
  MaxCommands  \* bound on the commands, which number their migrations

ASSUME GeneratorAssumption ==
  Starter \in Name /\ Within \subseteq Name \X Name /\ MaxCommands \in Nat

VARIABLES
  files,     \* the files there are, and who wrote each: "developer" or "tjo"
  injected,  \* what was added to data/models.go and routes.go, in order
  dbType,    \* DATABASE_TYPE of .env, "none" if it is empty
  command,   \* the command that runs: whether it has a configuration, its
             \* database, its steps and its outcome
  commands,  \* commands so far
  applied, dirty,  \* the schema: migrations that ran; one failed half-way
  lost       \* history: the developer's files that were overwritten, and by what

schema == <<applied, dirty>>
cliVars == <<files, injected, dbType, command, commands, schema, lost>>

Model(n) == <<"model", n>>
Test(n) == <<"test", n>>
Up(i) == <<"up", i>>
Down(i) == <<"down", i>>
DownAlone(i) == <<"down_alone", i>>  \* with a number of its own, before that of Up(i)
Models == <<"models.go">>
Routes == <<"routes.go">>
Env == <<".env">>
Makefile == <<"Makefile">>
AuthFile == <<"data/user.go">>
Skeleton == {Models, Routes, Env, Makefile, <<"go.mod">>}

(* The choices of promptForDatabase: those that migrations can be made for *)
(* and run on, as postgres, and those that have neither templates nor a    *)
(* driver of the migration library, as sqlite.                             *)
Databases == {"postgres", "sqlite"}

Idle(outcome) ==
  [name |-> "none", cfg |-> "none", db |-> "none", plan |-> <<>>, outcome |-> outcome]

CliTypeOK ==
  /\ Range(files) \subseteq {"developer", "tjo"}
  /\ dbType \in {"none"} \cup Databases
  /\ command.outcome \in {"none", "running", "ok", "error", "panic"}
  /\ commands \in 0..MaxCommands /\ applied \subseteq 1..MaxCommands /\ dirty \in BOOLEAN

CliInit ==
  /\ files \in {<<>>, [f \in Skeleton |-> "developer"]}
  /\ injected = [f \in {Models, Routes} |-> <<>>] /\ dbType = "none"
  /\ command = Idle("none")
  /\ commands = 0 /\ applied = {} /\ dirty = FALSE /\ lost = {}
-----------------------------------------------------------------------------
(* The plans of the commands.  The steps on a file:                        *)
(*   create   write it, which is an error if it exists or cannot be written*)
(*   check    an error if it exists                                        *)
(*   skip     write it unless it exists; not being able to is an error     *)
(*   replace  write it, exists or not; not being able to is an error       *)
(*   put      write it, exists or not; nobody looks at the error           *)
Step(do, f) == [do |-> do, file |-> f]

copyFileFromTemplate(f) == Step("create", f)
copyDataToFile(f) == Step("put", f)
fileExists(f) == Step("check", f)
Ask == Step("ask", Env)

This == commands + 1  \* numbers the migration of the command that starts
migration ==
  <<copyFileFromTemplate(Up(This)), copyFileFromTemplate(Down(This)),
    Step("reformat", Up(This)), Step("reformat", Down(This))>>

(* doMigrate(arg2, arg3): "reset" is the way down and the way up.          *)
migrate(way) == Step(way, Env)
doReset == <<migrate("down all"), migrate("up")>>

injectAuth == <<Step("inject auth", Models), Step("inject auth", Routes)>>

doAuth ==
  <<Ask, copyFileFromTemplate(Up(This)), copyDataToFile(Down(This)), migrate("up"),
    copyFileFromTemplate(AuthFile)>> \o injectAuth
doSession ==
  <<Ask, copyFileFromTemplate(Up(This)), copyDataToFile(Down(This)), migrate("up")>>
doMail(n) ==
  <<copyFileFromTemplate(<<"html", n>>), copyFileFromTemplate(<<"plain", n>>)>>
doHandler(n) == <<Step("create", <<"handler", n>>)>>
doMigration == <<Ask>> \o migration
doModel(n) ==
  <<fileExists(Model(n)), copyDataToFile(Model(n)), Step("ask or end", Env)>>
    \o migration \o <<Step("inject", Model(n))>>
doAPIController(n) ==
  <<Step("create", <<"controller", n>>), Step("put", <<"controller_test", n>>)>>
doResourceController(n) == <<Step("create", <<"handlers", n>>), Step("put", Test(n))>>
doMiddleware(n) == <<Step("create", <<"middleware", n>>)>>
doTest(n) == <<Step("create", Test(n))>>

(* The files of a map, in the order in which Go happens to visit them.     *)
inAnyOrder(fs) == {[i \in DOMAIN s |-> Step("skip", s[i])] : s \in SetToSeqs(fs)}
doDocker == inAnyOrder({<<"Dockerfile">>, <<"docker-compose.yml">>})
doDeploy == inAnyOrder({<<"deploy.sh">>, Makefile})

doMake(n, p) ==
  {[name |-> "auth", plan |-> doAuth], [name |-> "mail", plan |-> doMail(p)],
   [name |-> "handler", plan |-> doHandler(p)],
   [name |-> "migration", plan |-> doMigration], [name |-> "model", plan |-> doModel(n)],
   [name |-> "session", plan |-> doSession],
   [name |-> "api-controller", plan |-> doAPIController(p)],
   [name |-> "controller", plan |-> doResourceController(p)],
   [name |-> "middleware", plan |-> doMiddleware(p)], [name |-> "test", plan |-> doTest(p)]}
  \cup [name : {"docker"}, plan : doDocker] \cup [name : {"deploy"}, plan : doDeploy]
Make == UNION {doMake(n, p) : n \in Name, p \in Page}

(* What of a starter template is written: its models, and the migrations   *)
(* of the database, of which there are none for sqlite.  The time that     *)
(* numbers a migration is taken for each of its files: down and up have    *)
(* different numbers, and are two migrations of which each lacks a half.   *)
applyStarterTemplate(db) ==
  <<Step("inject new", Model(Starter)), Step("replace", Model(Starter))>>
    \o (IF db = "sqlite" THEN <<>>
        ELSE <<Step("replace", DownAlone(This)), Step("replace", Up(This))>>)

doNew(template, db) ==
  <<Step("clone", Env), copyDataToFile(Env), Step("put", Makefile),
    copyDataToFile(<<"go.mod">>), Step("enter", Env)>>
    \o (IF template = "default" THEN <<>> ELSE applyStarterTemplate(db))
-----------------------------------------------------------------------------
Begin(p, c, db) ==
  /\ command.outcome # "running" /\ commands < MaxCommands
  /\ commands' = commands + 1
  /\ command' = [name |-> p.name, cfg |-> c, db |-> db, plan |-> p.plan, outcome |-> "running"]
  /\ UNCHANGED <<files, injected, dbType, schema, lost>>

(* main and setup: without .env there is no database, and with a wrong     *)
(* environment no configuration; either way the command goes on.           *)
StartCommand ==
  \E p \in Make \cup [name : {"migrate"}, plan : {<<migrate("up")>>, <<migrate("down")>>,
                                              <<migrate("down all")>>, doReset}] :
    \/ Begin(p, "loaded", IF Env \in DOMAIN files THEN dbType ELSE "none")
    \/ Begin(p, "wrong", "none")

StartNew ==
  \E template \in {"default", "blog"}, db \in {"none"} \cup Databases :
    Begin([name |-> "new", plan |-> doNew(template, db)], "none", db)

(* The server for assistants offers most of the commands, StartNew among   *)
(* them.  It reads no configuration, and its standard input is not the     *)
(* developer's.                                                            *)
doMCP ==
  \E p \in {m \in Make : m.name \notin {"api-controller", "controller", "test", "deploy"}}
            \cup [name : {"migrate"}, plan : {<<migrate("up")>>, <<migrate("down")>>}] :
    Begin(p, "mcp", "none")

At(dos) == command.outcome = "running" /\ command.plan # <<>> /\ command.plan[1].do \in dos
File == command.plan[1].file
Exists(f) == f \in DOMAIN files

Continue(db) == command' = [command EXCEPT !.plan = Tail(@), !.db = db]
End(outcome) == command' = Idle(outcome)

FinishCommand ==
  /\ command.outcome = "running" /\ command.plan = <<>> /\ End("ok")
  /\ UNCHANGED <<files, injected, dbType, commands, schema, lost>>

Written(fs) ==
  /\ files' = [f \in DOMAIN files \cup fs |-> IF f \in fs THEN "tjo" ELSE files[f]]
  /\ lost' = lost \cup {<<command.name, f>> : f \in {g \in fs : Exists(g) /\ files[g] = "developer"}}

HasTemplate(f) == f[1] \in {"up", "down"} => command.db = "postgres"

Writing == {"create", "skip", "put", "replace", "check"}

(* Mutant: a file that exists is written all the same.                     *)
WriteFileAnyway ==
  /\ At(Writing)
  /\ \/ Written({File}) /\ Continue(command.db)
     \/ End("error") /\ UNCHANGED <<files, lost>>
  /\ UNCHANGED <<injected, dbType, commands, schema>>

WriteFile ==
  /\ At(Writing)
  /\ LET does == command.plan[1].do
         keep == Continue(command.db) /\ UNCHANGED <<files, dbType, lost>>
     IN  \/ does = "check" /\ ~Exists(File) /\ keep
         \/ does = "skip" /\ Exists(File) /\ keep
         \/ /\ does # "check"
            /\ does \in {"put", "replace"} \/ (~Exists(File) /\ HasTemplate(File))
            /\ Written({File}) /\ Continue(command.db)
            /\ dbType' = IF File = Env THEN command.db ELSE dbType
         \/ does = "put" /\ keep
         \/ /\ does = "check" => Exists(File)
            /\ does # "put" /\ End("error") /\ UNCHANGED <<files, dbType, lost>>
  /\ UNCHANGED <<injected, commands, schema>>

(* TABLENAME is replaced in a migration that was just written.             *)
reformatMigration ==
  /\ At({"reformat"})
  /\ \/ Exists(File) /\ Continue(command.db)
     \/ End("error")
  /\ UNCHANGED <<files, injected, dbType, commands, schema, lost>>

(* .env is updated if that can be done.                                    *)
updateEnvDatabase(db) == dbType' \in {dbType} \cup {d \in {db} : Exists(Env)}

(* The developer is asked for a database if there is none; the assistant's *)
(* next request is no answer.                                              *)
promptForDatabase ==
  /\ At({"ask", "ask or end"})
  /\ \/ command.db # "none" /\ Continue(command.db) /\ UNCHANGED dbType
     \/ /\ command.db = "none" /\ command.cfg # "mcp"
        /\ \E db \in Databases : Continue(db) /\ updateEnvDatabase(db)
     \/ /\ command.db = "none" /\ UNCHANGED dbType
        /\ End(IF At({"ask"}) THEN "error" ELSE "ok")
  /\ UNCHANGED <<files, injected, commands, schema, lost>>

(* What is in the file already: a template looks for the whole line,       *)
(* "make model" for the name anywhere.                                     *)
Mentions(f, what) ==
  \E w \in Range(injected[f]) : w = what \/ (At({"inject"}) /\ <<what, w>> \in Within)

Inject(f, what) == injected' = [injected EXCEPT ![f] = Append(@, what)]

(* data/models.go or routes.go is read, searched and written back.  A      *)
(* starter template goes on whatever happens.                              *)
injectModels ==
  /\ At({"inject auth", "inject", "inject new"})
  /\ LET f == IF At({"inject auth"}) THEN File ELSE Models
         what == IF At({"inject auth"}) THEN "auth" ELSE File[2]
     IN  \/ Exists(f) /\ ~Mentions(f, what) /\ Inject(f, what) /\ Continue(command.db)
         \/ /\ IF At({"inject new"}) THEN Continue(command.db) ELSE End("error")
            /\ UNCHANGED injected
  /\ UNCHANGED <<files, dbType, commands, schema, lost>>

(* What of the migrations is to be done: those after the version of the    *)
(* schema, all that ran, or the last of them.                              *)
Ups == {i \in 1..MaxCommands : Exists(Up(i))}
Most(s) == CHOOSE i \in s : \A j \in s : j <= i
MigrateUp == {i \in Ups : \A j \in applied : i > j}
MigrateDownAll == applied
MigrateSteps == {i \in applied : i = Most(applied)}

(* Between them lie those that have no way up.                             *)
DownsAlone == {i \in 1..MaxCommands : Exists(DownAlone(i))}

(* The migration library does some of it, in order; when that is not all,  *)
(* the next one failed half-way, unless there was nothing to do or no      *)
(* connection.  What has no way up counts as well: it may fail on the way  *)
(* down, and one step down may be the step over it.  Without a             *)
(* configuration getDSN panics.                                            *)
doMigrate ==
  /\ At({"up", "down", "down all"})
  /\ LET up == At({"up"})
         todo == IF up THEN MigrateUp
                 ELSE IF At({"down"}) THEN MigrateSteps ELSE MigrateDownAll
         parts == {done \in SUBSET todo : \A i \in done, j \in todo \ done : up <=> i < j}
     IN  IF command.cfg # "loaded" THEN End("panic") /\ UNCHANGED schema
         ELSE \/ End("error") /\ UNCHANGED schema
              \/ /\ command.db = "postgres" /\ ~dirty /\ todo \cup DownsAlone # {}
                 /\ \E done \in parts :
                      /\ applied' = IF up THEN applied \cup done ELSE applied \ done
                      /\ \/ dirty' = (done # todo)
                         \/ DownsAlone # {} /\ ~up /\ dirty' = TRUE
                         \/ DownsAlone # {} /\ At({"down"}) /\ done = {} /\ dirty' = FALSE
                      /\ IF dirty' THEN End("error") ELSE Continue(command.db)
  /\ UNCHANGED <<files, injected, dbType, commands, lost>>

(* "new": the skeleton is cloned into the directory of that name.  An      *)
(* error is printed by exitGracefully, which does not exit; what is there  *)
(* may have been overwritten, or not.                                      *)
CloneSkeleton ==
  /\ At({"clone"})
  /\ \/ /\ Written(Skeleton \ {Env}) /\ Continue(command.db)
        /\ injected' = [f \in DOMAIN injected |-> <<>>]
     \/ Continue(command.db) /\ UNCHANGED <<files, injected, lost>>
  /\ UNCHANGED <<dbType, commands, schema>>

(* The first step whose error ends it: there is no such directory.         *)
EnterDirectory ==
  /\ At({"enter"})
  /\ IF files = <<>> THEN End("error") ELSE Continue(command.db)
  /\ UNCHANGED <<files, injected, dbType, commands, schema, lost>>

(* The developer writes a test of her own, before a command.               *)
Develop ==
  \E p \in Page :
    /\ command.outcome # "running" /\ commands < MaxCommands /\ ~Exists(Test(p))
    /\ files' = [f \in DOMAIN files \cup {Test(p)} |->
                   IF f = Test(p) THEN "developer" ELSE files[f]]
    /\ UNCHANGED <<injected, dbType, command, commands, schema, lost>>

CliNext ==
  \/ StartCommand \/ StartNew \/ doMCP \/ FinishCommand \/ WriteFile \/ reformatMigration
  \/ promptForDatabase \/ injectModels \/ doMigrate \/ CloneSkeleton
  \/ EnterDirectory \/ Develop

CliSpec == CliInit /\ [][CliNext]_cliVars
-----------------------------------------------------------------------------
(* However commands fail and are tried again, the developer's work is      *)
(* kept: no file of hers is overwritten, except by "new", which does not   *)
(* stop when the application is there already, and the test of a           *)
(* controller; nothing is added to models.go or routes.go twice; and no    *)
(* migration runs before an older one that is there.                       *)
WorkIsKept ==
  /\ \A l \in lost : l[1] = "new" \/ \E p \in Page : l = <<"controller", Test(p)>>
  /\ \A f \in DOMAIN injected : IsInjective(injected[f])
  /\ \A i \in applied : {j \in Ups : j < i} \subseteq applied
=============================================================================
