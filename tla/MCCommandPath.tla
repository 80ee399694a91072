---------------------------- MODULE MCCommandPath ----------------------------
(* Every curve of three densities over twenty altitudes, ground below the  *)
(* datum, inside and above the atmosphere, and iterations enough for one   *)
(* unit, for a launch with the defaults; every command on a body with one  *)
(* curve.                                                                  *)
EXTENDS CommandPath

MCAltitudes == -3..16
MCCurves ==
  {[x \in MCAltitudes |-> IF x < m THEN 2 ELSE IF x < n THEN 1 ELSE 0] :
     m \in 0..17, n \in 0..17}
MCDepths == {9, 12}
MCTargets == 0..2
MCHeights == {-4, 0, 5, 13}

Launch(args) == Obj([op |-> Str("run_script"), path |-> Str("launch.ks"), args |-> args])
Execute(args) == Obj([op |-> Str("run_script"), path |-> Str("maneuver.ks"), args |-> args])
DefaultLaunch == Obj([op |-> Str("run_script"), path |-> Str("launch.ks")])

(* One field of the form filled in, well or not, or two of them; an array; *)
(* an envelope; a key the server does not know.                            *)
Values == {Num(0), Num(2), Num(-2), Bool(FALSE), Str("text"), Null, Arr(<<>>)}
Forms ==
  {[k \in {key} |-> x] : key \in ParamKeys \cup {"qmax"}, x \in Values}
    \cup {[k \in {"finalAltitude", key} |-> x] : key \in {"qAuth", "circularize"}, x \in Values}
Args == {Obj(form) : form \in Forms}
          \cup {Null, Obj(<<>>), Arr(<<>>), Arr(<<Num(2), Num(2)>>), Arr(<<Str("text")>>), encode_list(Arr(<<>>))}

MCCommands ==
  {DefaultLaunch, Arr(<<>>), Obj([n |-> Num(1)]), Obj([op |-> Num(1)])}
    \cup {Launch(args) : args \in Args}
    \cup {Execute(args) : args \in {encode_list(Arr(<<>>)), Arr(<<>>), Num(1)}}
    \cup {Obj([op |-> Str("run_script"), path |-> path]) : path \in {Str("other.ks"), Str(""), Num(1), Null}}
    \cup {Obj([op |-> Str("run_script")])}
    \cup {Obj([op |-> Str(op)]) : op \in {"plan_circ", "ping", "toggle_ag", "add_node", "other"}}
    \cup {Obj([op |-> Str("toggle_ag"), n |-> n]) : n \in {Num(1), Num(11), Arr(<<>>)}}
    \cup {Obj([op |-> Str("add_node"), dv |-> Str("text"), ut |-> Num(1)])}

OneBody == depth = 9 /\ target = 1 /\ rho = [x \in MCAltitudes |-> IF x < 3 THEN 2 ELSE IF x < 7 THEN 1 ELSE 0]
MCInit == PathInit /\ (OneBody \/ cmd = DefaultLaunch)
MCSpec == MCInit /\ [][PathNext]_pathVars
===============================================================================
