------------------------------ MODULE MCMachines -----------------------------
(* State machines that share no state with each other, each explored on its  *)
(* own: a behaviour is one of the part its first state names, and the others *)
(* stay in one of their initial states.                                      *)
EXTENDS LaunchMachine, DevLifecycle, Client, Config, Handoff, SelfTest, SystemProbe, Bundle, Entry

CONSTANTS r1, r2, a1, a2

VARIABLE part
machineVars == <<part, vars, devVars, cliVars, cfgVars, handVars, stVars, pbVars, bunVars, enVars>>

(* LaunchMachine: two runs, two attempts, two revisions, and events with     *)
(* wrong generations, counts and reasons among them.                         *)
MCRun == {r1, r2}
MCAttempt == {a1, a2}
MCRevision == 1..2
MCEvent ==
    {e \in [revision : MCRevision, run : MCRun, attempt : MCAttempt, generation : 1..2,
            state : {"Prepared", "Running", "Completed", "Failed", "NeedsReconciliation"},
            completed : 0..2, total : {1}, failed : 0..2,
            provenance : {"Live", "Unavailable"}, reason : {FALSE}] :
        /\ e.run = r2 => e.attempt = a1
        /\ e.completed = 2 => e.failed = 0
        /\ e.generation = 2 \/ e.provenance = "Unavailable" => e.completed = 0 /\ e.failed = 0}

(* Handoff: a host with plain tools, rustup shims with shared directories or *)
(* with ones others write, an untrusted tool, an open root, no profile.      *)
MCFile(o, w) == [owner |-> o, write |-> w, link |-> FALSE]
MCPlain == [file |-> MCFile("user", "none"), rustup |-> HandNone, conventional |-> FALSE,
            above |-> {}, shim |-> {}]
MCRustup(group) ==
    [home |-> MCFile("user", "none"), settings |-> MCFile("user", "none"), chain |-> {MCFile("user", group)},
     cargo |-> MCFile("user", "none"), rustc |-> MCFile("user", "none")]
MCShim(dir, group) == [MCPlain EXCEPT !.rustup = MCRustup(group), !.conventional = TRUE,
                                      !.above = {MCFile("root", "none")},
                                      !.shim = {MCFile("user", dir), MCFile("root", "none")}]
MCHost == [tools |-> [t \in {"git", "setsid", "cc", "ar", "ld", "rustc"} |-> MCFile("root", "none")],
           cargo |-> MCPlain, override |-> HandNone, root |-> HandNone, terminal |-> TRUE,
           manifest |-> HandNone, development |-> TRUE]
MCHandHosts ==
    <<MCHost, [MCHost EXCEPT !.cargo = MCShim("group", "none"), !.manifest = "matching"],
     [MCHost EXCEPT !.cargo = MCShim("none", "world")],
     [MCHost EXCEPT !.cargo = [MCShim("none", "none") EXCEPT !.above = {MCFile("user", "group")}]],
     [MCHost EXCEPT !.cargo = MCShim("none", "group"), !.override = "shim", !.manifest = "stale"],
     [MCHost EXCEPT !.tools["ar"] = MCFile("other", "none")],
     [MCHost EXCEPT !.root = MCFile("user", "group")],
     [MCHost EXCEPT !.development = FALSE]>>

(* SystemProbe: a host that can do everything, and ones that lack a thing.   *)
MCCapable ==
    [platform |-> TRUE, asb |-> TRUE, interactive |-> TRUE, features |-> TRUE, size |-> TRUE, resizes |-> TRUE,
     dirs |-> TRUE, rename |-> TRUE, executes |-> TRUE, tools |-> TRUE, shared |-> TRUE]
MCPbHosts ==
    <<MCCapable, [MCCapable EXCEPT !.resizes = FALSE, !.shared = FALSE],
     [MCCapable EXCEPT !.interactive = FALSE, !.shared = FALSE], [MCCapable EXCEPT !.asb = FALSE, !.shared = FALSE],
     [MCCapable EXCEPT !.rename = FALSE, !.shared = FALSE], [MCCapable EXCEPT !.executes = FALSE, !.shared = FALSE]>>

(* Bundle: a release whose source may answer wrongly, one that is expired,   *)
(* over its quota, unsigned, incomplete, with a wrong lock and document, of  *)
(* another release than asked for, not permitted, or with an unfixed URL.    *)
MCBunArtifacts == <<[name |-> "asb-tui", kind |-> "executable", size |-> 2, immutable |-> TRUE],
    [name |-> "source", kind |-> "source", size |-> 1, immutable |-> TRUE],
    [name |-> "licenses", kind |-> "license_report", size |-> 1, immutable |-> TRUE],
    [name |-> "sbom", kind |-> "sbom", size |-> 1, immutable |-> TRUE],
    [name |-> "provenance", kind |-> "provenance", size |-> 1, immutable |-> TRUE]>>
MCPackages == <<[name |-> "asb-tui", license |-> "MIT"], [name |-> "agent-workflow-coordinator", license |-> "MIT"]>>
MCRelease ==
  [manifest |-> [schema |-> 1, release |-> "v1", source |-> "s1", issued |-> 1, expires |-> 3, bundle |-> "expected",
                 tools |-> "compiled", artifacts |-> MCBunArtifacts,
                 components |-> <<[name |-> "asb-tui", id |-> "s1"], [name |-> "agent-workflow-coordinator", id |-> "compiled"],
                                  [name |-> "agent-workflow-quality", id |-> "compiled"]>>],
   anchor |-> <<"pinned">>, signed |-> TRUE, source |-> {"good"},
   files |-> [n \in {"asb-tui", "source", "licenses", "sbom", "provenance"} |-> "exact"],
   documents |-> [licenses |-> [release |-> "v1", packages |-> MCPackages], sbom |-> [release |-> "v1", packages |-> MCPackages],
                  provenance |-> [release |-> "v1", source |-> "s1", reproducible |-> TRUE]],
   lock |-> <<[name |-> "agent-workflow-coordinator", closure |-> "archive", object |-> "o1", tree |-> "t1"],
              [name |-> "agent-workflow-quality", closure |-> "publisher", object |-> "o2", tree |-> "t2"]>>,
   tags |-> [d \in {"agent-workflow-coordinator", "agent-workflow-quality"} |->
                IF d = "agent-workflow-quality" THEN "o2" ELSE "o1"],
   authentic |-> {"o1", "o2"}, trees |-> [o1 |-> "t1", o2 |-> "t2"], locksigned |-> TRUE,
   request |-> [release |-> "v1", source |-> "s1"], permits |-> TRUE]
MCReleases ==
    <<[MCRelease EXCEPT !.source = {"good", "bad"}], [MCRelease EXCEPT !.manifest.expires = 2, !.source = {}],
     [MCRelease EXCEPT !.manifest.artifacts[2].size = 2, !.source = {}], [MCRelease EXCEPT !.signed = FALSE],
     [MCRelease EXCEPT !.manifest.artifacts[2] = MCBunArtifacts[1], !.source = {}],
     [MCRelease EXCEPT !.authentic = {"o1"}, !.documents.sbom.packages = <<>>],
     [MCRelease EXCEPT !.request.release = "v2", !.source = {}], [MCRelease EXCEPT !.permits = FALSE, !.source = {}],
     [MCRelease EXCEPT !.manifest.artifacts[1].immutable = FALSE, !.source = {}]>>

(* Entry: one process that runs anything, one that chooses channels; a good  *)
(* terminal, one without paste, a pipe, one that is too large, a named one.  *)
MCFlags(f) == [kind |-> "tui", operation |-> "install", flags |-> f, development |-> FALSE]
MCKind(k, d) == [kind |-> k, operation |-> EnNone, flags |-> <<>>, development |-> d]
MCChannel(c) == [flag |-> "--channel", value |-> c]
MCFlag(f) == [flag |-> f, value |-> "json"]
MCChoosers ==
    [p1 |-> <<MCFlags(<<>>), MCFlags(<<MCFlag("--development"), MCFlag("--json")>>), MCFlags(<<MCChannel("stable")>>),
              MCFlags(<<MCFlag("--development"), MCChannel("dev")>>)>>,
     p2 |-> <<MCFlags(<<MCFlag("--format")>>), MCFlags(<<MCChannel("dev")>>)>>]
MCFrontends ==
    [p1 |-> <<MCFlags(<<MCChannel("stable"), MCFlag("--development")>>), MCFlags(<<MCFlag("--production")>>),
              MCKind("tui", FALSE), MCKind("broker", FALSE), MCKind("broker", TRUE),
              MCKind("socket", FALSE), MCKind("run", FALSE), MCKind("report", FALSE), MCKind("other", FALSE)>>,
     p2 |-> <<>>]
MCTerminal == [tty |-> TRUE, term |-> "xterm", color |-> "truecolor", remote |-> FALSE, no_color |-> FALSE,
               columns |-> 80, lines |-> 24, controlling |-> TRUE, path |-> EnNone, owned |-> FALSE,
               commands |-> MCFrontends]
MCEnHosts ==
    <<[MCTerminal EXCEPT !.commands = MCChoosers], MCTerminal,
     [MCTerminal EXCEPT !.remote = TRUE, !.columns = EnNone, !.controlling = FALSE],
     [MCTerminal EXCEPT !.tty = FALSE], [MCTerminal EXCEPT !.columns = 200, !.lines = 200],
     [MCTerminal EXCEPT !.color = "256", !.path = "pts", !.owned = TRUE]>>

MachinesInit ==
    /\ part \in {"launch", "dev", "client", "config", "handoff", "selftest", "probe", "bundle", "entry"}
    /\ Init
    /\ DevInit
    /\ CliInit
    /\ CfgInit
    /\ HandInit /\ (part # "handoff" => handHost = 1 /\ ~HandInstalled)
    /\ StInit
    /\ PbInit /\ (part # "probe" => pbHost = 1)
    /\ BunInit /\ (part # "bundle" => bunOffer = 2 /\ bunDisk.entry = BunNone)
    /\ EnInit /\ (part # "entry" => enHost = 1)

MachinesNext ==
    /\ UNCHANGED part
    /\ part # "launch" => UNCHANGED vars
    /\ part # "dev" => UNCHANGED devVars
    /\ part # "client" => UNCHANGED cliVars
    /\ part # "config" => UNCHANGED cfgVars
    /\ part # "handoff" => UNCHANGED handVars
    /\ part # "selftest" => UNCHANGED stVars
    /\ part # "probe" => UNCHANGED pbVars
    /\ part # "bundle" => UNCHANGED bunVars
    /\ part # "entry" => UNCHANGED enVars
    /\ \/ part = "launch" /\ Next
       \/ part = "dev" /\ DevNext
       \/ part = "client" /\ CliNext
       \/ part = "config" /\ CfgNext
       \/ part = "handoff" /\ HandNext
       \/ part = "selftest" /\ StNext
       \/ part = "probe" /\ PbNext
       \/ part = "bundle" /\ BunNext
       \/ part = "entry" /\ EnNextStep

MachinesSpec ==
    /\ MachinesInit /\ [][MachinesNext]_machineVars
    /\ \A w \in DevWorker : WF_devVars(DevStep(w))
    /\ HandFairness

(* Every part keeps its types and its cursors and counters their ranges. *)
MachinesTypeOK ==
    /\ TypeOK /\ DevTypeOK /\ CliTypeOK /\ CfgTypeOK /\ HandTypeOK
    /\ StTypeOK /\ PbTypeOK /\ BunTypeOK /\ EnTypeOK
=============================================================================
