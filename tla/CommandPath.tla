----------------------------- MODULE CommandPath -----------------------------
(***************************************************************************)
(* The way of one command from a browser to what kOS executes and back:    *)
(* run_dispatcher of src/src/krpc.rs with its planning (LaunchPlanning,    *)
(* and planning.rs for a circularization), the envelopes, handleMessage of *)
(* src/kos/scripts/boot/dispatch_listener.ks, and its events.              *)
(*                                                                         *)
(* A parameter is a small whole number standing for its sign and for which *)
(* one it is.  A formula over f64 is reduced to whether its result is a    *)
(* number: serde_json writes Null for one that is not.                     *)
(***************************************************************************)
EXTENDS LaunchPlanning, Envelope

CONSTANTS
  Commands,  \* JSON values that reach the command queue
  BootId     \* BOOT_ID of the CPU that answers

VARIABLES
  cmd,      \* the command
  elliptic, \* whether the vessel's orbit has an apoapsis
  at,       \* where the command is
  params,   \* LaunchParams
  wire,     \* the payload, then its envelope
  ran,      \* what kOS executes: [op], with the cfg of a launch or the node
  replies,  \* events sent and not yet read
  heard     \* what the server made of them, or of a refusal

(* A JSON value; the fields or items one holds.                            *)
Json(x) ==
  \E type \in {"num", "str", "bool", "obj", "arr", "null"} :
    Is(x, type) /\ x = [t \in {type} |-> x[type]] /\ (type = "num" => x.num \in Int)
Held(x) ==
  IF Is(x, "obj") THEN {x.obj[k] : k \in DOMAIN x.obj}
  ELSE IF Is(x, "arr") THEN {x.arr[i] : i \in DOMAIN x.arr} ELSE {}

ASSUME CommandAssumption ==
  \A json \in Commands : \A x \in Held(json) : Json(x) /\ \A y \in Held(x) : Json(y)

plan == <<step, body, terrain, a, b, left, entry>>
command == <<cmd, elliptic, at, params, wire, ran, replies, heard>>
pathVars == <<plan, command>>

-----------------------------------------------------------------------------
(* LaunchParams, its defaults, and how serde reads one: from an object, or *)
(* from an array in the order of the fields.                               *)
Fields == <<"finalAltitude", "targetInclination", "targetLan", "qMax", "qAuth", "qHigh", "aMaxHigh",
            "aMaxLow", "initialProfilePitch", "tApTarget", "throttleMin", "circularize">>
ParamKeys == {Fields[i] : i \in DOMAIN Fields}
Default(key) ==
  CASE key = "circularize" -> Bool(TRUE)
    [] key = "targetInclination" -> Num(0)
    [] key = "targetLan" -> Num(-1)
    [] OTHER -> Num(1)

Typed(key, x) == Is(x, IF key = "circularize" THEN "bool" ELSE "num")
(* Without deny_unknown_fields.                                            *)
AcceptedLoosely(args) ==
  \/ args = Null
  \/ Is(args, "obj") /\ \A k \in DOMAIN args.obj \cap ParamKeys : Typed(k, args.obj[k])

Accepted(args) ==
  \/ args = Null
  \/ Is(args, "obj") /\ \A k \in DOMAIN args.obj : k \in ParamKeys /\ Typed(k, args.obj[k])
  \/ /\ Is(args, "arr") /\ Len(args.arr) <= Len(Fields)
     /\ \A i \in DOMAIN args.arr : Typed(Fields[i], args.arr[i])

FromArgs(args) ==
  LET given == IF Is(args, "obj") THEN args.obj
               ELSE IF Is(args, "arr") THEN [k \in {Fields[i] : i \in DOMAIN args.arr} |->
                                               args.arr[CHOOSE i \in DOMAIN args.arr : Fields[i] = k]]
               ELSE <<>> IN
  [k \in ParamKeys |-> IF k \in DOMAIN given THEN given[k] ELSE Default(k)]

(* The square roots and the arcsine of plan_launch.  v_min is not asked    *)
(* for where there is no air; the square of v_est has the sign of entry    *)
(* over finalAltitude, and is infinite or no number over zero.             *)
VMinUnguarded(thin) == IF thin \/ params["qAuth"].num < 0 THEN Null ELSE Num(1)
VMin(thin) == IF ~thin /\ params["qAuth"].num < 0 THEN Null ELSE Num(1)
VEstDefined ==
  LET final == params["finalAltitude"].num IN
  entry * final > 0 \/ (entry = 0 /\ final # 0) \/ (entry > 0 /\ final = 0)
TerminalPitches ==
  IF ~VEstDefined THEN {Null}
  ELSE IF params["tApTarget"].num < 0 THEN {Null, Num(1)} ELSE {Num(1)}

LaunchPayload(v_min, terminal_pitch) ==
  [k \in (ParamKeys \ {"qAuth"}) \cup {"terrainMax", "vMin", "altPhase2Entry", "terminalPitch"} |->
     CASE k = "terrainMax" -> Num(terrain)
       [] k = "vMin" -> v_min
       [] k = "altPhase2Entry" -> Num(entry)
       [] k = "terminalPitch" -> terminal_pitch
       [] OTHER -> params[k]]

-----------------------------------------------------------------------------
PathInit ==
  /\ Init
  /\ cmd \in Commands /\ elliptic \in BOOLEAN
  /\ at = "queue"
  /\ params = [k \in ParamKeys |-> Default(k)]
  /\ wire = Null
  /\ ran = [op |-> "none"]
  /\ replies = <<>> /\ heard = <<>>

Op == StrOr(Get(cmd, "op"), "unknown")
IsLaunch == Op = "run_script" /\ Get(cmd, "path") = Str("launch.ks")

Refuse == at' = "over" /\ heard' = <<[kind |-> "command_error", op |-> Op]>>
KeepPlan == UNCHANGED <<plan, cmd, elliptic>>

(* run_dispatcher takes a command.                                         *)
TakeCommand ==
  /\ at = "queue"
  /\ IF ~Is(cmd, "obj") THEN at' = "over" /\ UNCHANGED <<params, wire, heard>>
     ELSE IF Op = "plan_circ" THEN at' = "circ" /\ UNCHANGED <<params, wire, heard>>
     ELSE IF ~IsLaunch THEN at' = "send" /\ wire' = cmd /\ UNCHANGED <<params, heard>>
     ELSE IF Accepted(Get(cmd, "args"))
     THEN at' = "plan" /\ params' = FromArgs(Get(cmd, "args")) /\ UNCHANGED <<wire, heard>>
     ELSE Refuse /\ UNCHANGED <<params, wire>>
  /\ KeepPlan /\ UNCHANGED <<ran, replies>>

(* plan_circ: any call may fail, and an orbit without apoapsis is refused. *)
PlanCirc ==
  /\ at = "circ"
  /\ \/ Refuse /\ UNCHANGED wire
     \/ /\ elliptic
        /\ wire' = Obj([op |-> Str("add_node"), dv |-> Num(1), ut |-> Num(1)])
        /\ at' = "send" /\ UNCHANGED heard
  /\ KeepPlan /\ UNCHANGED <<params, ran, replies>>

(* plan_launch.                                                            *)
PlanLaunch == at = "plan" /\ Next /\ UNCHANGED command

LaunchCommand(cfg) == Obj([op |-> Str("run_script"), path |-> Str("launch.ks"), args |-> cfg])

UseRawPlan ==
  /\ at = "plan" /\ step = "done"
  /\ \E thin \in {TRUE, ~air}, terminal_pitch \in TerminalPitches :
       wire' = LaunchCommand(Obj(LaunchPayload(VMin(thin), terminal_pitch)))
  /\ at' = "send"
  /\ KeepPlan /\ UNCHANGED <<params, ran, replies, heard>>

(* The launch site may lie above the atmosphere too.                       *)
UsePlan ==
  /\ at = "plan" /\ step = "done"
  /\ \E thin \in {TRUE, ~air}, terminal_pitch \in TerminalPitches :
       wire' = LaunchCommand(encode_dict_value(Obj(LaunchPayload(VMin(thin), terminal_pitch))))
  /\ at' = "send"
  /\ KeepPlan /\ UNCHANGED <<params, ran, replies, heard>>

PlanFailed ==
  /\ at = "plan" /\ step = "failed"
  /\ Refuse
  /\ KeepPlan /\ UNCHANGED <<params, wire, ran, replies>>

(* send_command finds no CPU to send to, or kRPC fails.                    *)
Send ==
  /\ at = "send"
  /\ \/ Refuse /\ UNCHANGED wire
     \/ at' = "kos" /\ wire' = encode_dict_value(wire) /\ UNCHANGED heard
  /\ KeepPlan /\ UNCHANGED <<params, ran, replies>>

-----------------------------------------------------------------------------
Ack(op) == [kind |-> Str("command_ack"), op |-> Str(op)]
Beat == [kind |-> Str("heartbeat"), path |-> Str(""), boot |-> Str(BootId), active |-> Bool(TRUE)]
Done(path) == [kind |-> Str("script_done"), path |-> path, ok |-> Bool(TRUE), boot |-> Str(BootId)]
Rejected(path, reason) ==
  [kind |-> Str("script_done"), path |-> path, ok |-> Bool(FALSE), reason |-> Str(reason), boot |-> Str(BootId)]

Replies(events) == replies' = events
Runs(what) == ran' = what
RunsNothing == UNCHANGED ran

OpIn(lex) == IF "op" \in DOMAIN lex THEN StrOr(lex["op"], "") ELSE ""
PathIn(lex) == IF OpIn(lex) = "run_script" /\ "path" \in DOMAIN lex THEN lex["path"] ELSE Null

(* SCRIPT_SHAPE, and the action groups toggleAg knows.                     *)
ScriptShape == {Str("launch.ks"), Str("maneuver.ks")}
Groups == {Num(n) : n \in 1..10}

(* The branches of handleMessage; path is a value, as it came.  A known    *)
(* script may be missing from the disk.  One that aborts sends no          *)
(* script_done.                                                            *)
Handle(lex, op, path) ==
  LET has(k) == k \in DOMAIN lex
      hasArgs == has("args") /\ Is(lex["args"], "lex")
      started == {<<Ack(op)>>, <<Ack(op), Done(path)>>}
      rejects(reason) == Replies(<<Rejected(path, reason)>>) /\ RunsNothing IN
  \/ /\ op = "ping"
     /\ Replies(<<Beat>>) /\ RunsNothing
  \/ /\ op = "toggle_ag" /\ has("n")
     /\ Replies(<<Ack(op)>>)
     /\ IF lex["n"] \in Groups THEN Runs([op |-> op, n |-> lex["n"]]) ELSE RunsNothing
  \/ /\ op = "add_node" /\ has("dv") /\ has("ut")
     /\ Replies(<<Ack(op)>>) /\ Runs([op |-> op, dv |-> lex["dv"], ut |-> lex["ut"]])
  \/ /\ path = Str("maneuver.ks")
     /\ \E events \in started : Replies(events)
     /\ Runs([op |-> op, path |-> path])
  \/ /\ path = Str("launch.ks") /\ hasArgs
     /\ \E events \in started : Replies(events)
     /\ Runs([op |-> op, path |-> path, cfg |-> lex["args"].lex])
  \/ path = Str("launch.ks") /\ ~has("args") /\ rejects("run_script missing args")
  \/ path = Str("launch.ks") /\ has("args") /\ ~hasArgs /\ rejects("run_script args must be a lexicon")
  \/ path \in ScriptShape /\ rejects("script not found")
  \/ op = "run_script" /\ has("path") /\ path \notin ScriptShape /\ rejects("unknown script")
  \/ /\ \/ op \notin {"ping", "toggle_ag", "add_node", "run_script"}
        \/ op = "toggle_ag" /\ ~has("n")
        \/ op = "add_node" /\ ~(has("dv") /\ has("ut"))
        \/ op = "run_script" /\ ~has("path")
     /\ Replies(<<>>) /\ RunsNothing

(* A message that kIPC rejects has no fields.                              *)
HandleMessage ==
  /\ at = "kos"
  /\ at' = "back"
  /\ LET content == Deserialized(wire)
         lex == IF content = Null THEN <<>> ELSE content.lex IN
       Handle(lex, OpIn(lex), PathIn(lex))
  /\ KeepPlan /\ UNCHANGED <<params, wire, heard>>

(* run_inbox_loop.                                                         *)
Hear ==
  /\ at = "back"
  /\ IF replies = <<>>
     THEN at' = "over" /\ UNCHANGED <<replies, heard>>
     ELSE /\ \E raw \in Serialized(Head(replies)) : heard' = Append(heard, parse_inbound(raw))
          /\ replies' = Tail(replies)
          /\ UNCHANGED at
  /\ KeepPlan /\ UNCHANGED <<params, wire, ran>>

PathNext ==
  \/ TakeCommand \/ PlanCirc \/ PlanLaunch \/ UsePlan \/ PlanFailed
  \/ Send \/ HandleMessage \/ Hear

PathSpec == PathInit /\ [][PathNext]_pathVars

-----------------------------------------------------------------------------
(* The keys launch.ks reads at its lines 24-41.                            *)
LaunchReads == (ParamKeys \ {"qAuth"}) \cup {"terrainMax", "vMin", "altPhase2Entry", "terminalPitch"}

Launched == ran.op = "run_script" /\ ran.path = Str("launch.ks")
Asked == Get(cmd, "args")
Offered(k) == Is(Asked, "obj") /\ k \in DOMAIN Asked.obj

(* launch_planning.rs:11-14: kOS executes nothing with an undefined key.   *)
(* No key launch.ks reads is ever missing, and two alone can be Null:      *)
(* vMin, for a qAuth below zero, and the terminal pitch, where the terrain *)
(* to clear does not lie above the datum of the body or finalAltitude or   *)
(* tApTarget is below zero: values the form refuses (index.html:36-66).    *)
(* Nor is a planned node made of an undefined number.                      *)
KeysDefined ==
  /\ Launched => \A k \in LaunchReads :
       /\ k \in DOMAIN ran.cfg
       /\ ran.cfg[k] = Null =>
            \/ k = "vMin" /\ params["qAuth"].num < 0
            \/ /\ k = "terminalPitch"
               /\ terrain <= 0 \/ params["finalAltitude"].num < 0 \/ params["tApTarget"].num < 0
  /\ Op = "plan_circ" /\ ran.op = "add_node" => Is(ran.dv, "num") /\ Is(ran.ut, "num")

(* docs/launch.md:132-134: launch.ks flies with the values asked for, the  *)
(* defaults for the rest, and what was planned for them; and with a key    *)
(* unknown or of the wrong type nothing is sent.                           *)
Faulty == Is(Asked, "obj") /\ \E k \in DOMAIN Asked.obj : k \notin ParamKeys \/ ~Typed(k, Asked.obj[k])
LaunchAsAsked ==
  /\ Launched /\ ~Is(Asked, "arr") => \A k \in DOMAIN ran.cfg :
       /\ k \in ParamKeys => ran.cfg[k] = IF Offered(k) THEN Asked.obj[k] ELSE Default(k)
       /\ k = "altPhase2Entry" => ran.cfg[k] = Num(entry)
       /\ k = "terrainMax" => ran.cfg[k] = Num(terrain)
  /\ IsLaunch /\ Faulty => wire = Null /\ ~Launched

(* What a button sends is either executed, and then the first answer is    *)
(* its acknowledgement, or not executed, and then the first answer is a    *)
(* refusal: an error of the server, or the script_done of a script that    *)
(* was never copied to the disk.  No layer in between drops it in silence, *)
(* kOS finds nothing else to object to, and no answer is lost in an        *)
(* envelope.  A button sends nothing that kIPC cannot take.                *)
Button ==
  \/ IsLaunch \/ Op = "plan_circ"
  \/ /\ \/ Op = "toggle_ag" /\ Get(cmd, "n") \in Groups
        \/ Op = "run_script" /\ Get(cmd, "path") = Str("maneuver.ks")
     /\ \A k \in DOMAIN cmd.obj : Flat(cmd.obj[k])
NotFound == [kind |-> "script_done", path |-> Get(cmd, "path").str, boot |-> BootId, ok |-> FALSE,
             reason |-> "script not found"]
ButtonAnswered ==
  at = "over" /\ Button =>
    /\ heard # <<>>
    /\ IF ran.op # "none"
       THEN heard[1] = [kind |-> "command_ack", op |-> ran.op]
       ELSE \/ heard[1] = [kind |-> "command_error", op |-> Op]
            \/ Op = "run_script" /\ heard[1] = NotFound

(* Every event is heard, in either shape of its envelope, unless it        *)
(* rejects a path that was no string; an idle beat names no script.        *)
HeardAsSaid ==
  /\ \A i \in DOMAIN heard : heard[i] = Dropped => Op = "run_script" /\ ~Is(Get(cmd, "path"), "str")
  /\ Op = "ping" /\ heard # <<>> /\ heard[1].kind # "command_error" =>
       heard[1] = [kind |-> "heartbeat", boot |-> BootId, path |-> "", active |-> TRUE]
===============================================================================
