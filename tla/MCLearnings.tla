----------------------------- MODULE MCLearnings -----------------------------
(* A small instance of Learnings: three machines, one with a short name. *)
EXTENDS Learnings, TLC

CONSTANTS p1, p2
Processes == Permutations({p1, p2})

Cut == "reboot" :> {"reboot"} @@ "how" :> {"how"} @@ "alpha" :> {"alpha"}
    @@ "al" :> {"al"} @@ "beta" :> {"beta"} @@ "gamma" :> {"gamma"}
    @@ "usb" :> {"usb"} @@ "hub" :> {"hub"} @@ "usb-hub" :> {"usb", "hub"}

Asked ==
     "reboot Alpha"    :> [words |-> {"reboot", "alpha"}, capital |-> {"alpha"}]
  @@ "reboot Beta"     :> [words |-> {"reboot", "beta"}, capital |-> {"beta"}]
  @@ "reboot Gamma"    :> [words |-> {"reboot", "gamma"}, capital |-> {"gamma"}]
  @@ "reboot alpha"    :> [words |-> {"reboot", "alpha"}, capital |-> {}]
  @@ "reboot al"       :> [words |-> {"reboot", "al"}, capital |-> {}]
  @@ "reboot al Beta"  :> [words |-> {"reboot", "al", "beta"}, capital |-> {"beta"}]
  @@ "how reboot Usb-hub" :> [words |-> {"how", "reboot", "usb-hub"}, capital |-> {"usb-hub"}]

Questions == DOMAIN Asked
WordsOf == [q \in Questions |-> Asked[q].words]
CapitalOf == [q \in Questions |-> Asked[q].capital]

Substrings == {<<"al", "alpha">>, <<"usb", "usb-hub">>, <<"hub", "usb-hub">>}

Lessons == {<<"reboot Alpha", "a">>, <<"reboot Alpha", "b">>, <<"reboot Beta", "b">>,
            <<"reboot alpha", "a">>, <<"reboot al Beta", "b">>, <<"how reboot Usb-hub", "a">>}

Titles == "a" :> {} @@ "b" :> {"beta"} @@ "c" :> {"gamma"}

MadeBy == "kvm" :> [w \in DOMAIN Cut |->
                     CASE w = "alpha" -> {"a"} [] w = "beta" -> {"b"} [] w = "gamma" -> {"c"} [] OTHER -> {}]

Aliases == {[canonical |-> "alpha", value |-> "al"]}
Patterns == {[shape |-> {"reboot"}, template |-> "kvm"]}
=============================================================================
