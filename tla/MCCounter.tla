----------------------------- MODULE MCCounter -----------------------------
(* An instance of Counter for TLC: one color in two spellings, two systems, *)
(* and a body for every way through Validate and Decode that matters.       *)
EXTENDS Counter

MCColors == {"teal"}
MCSlugs  == {"win", "mac"}

Lower == <<"teal", "lower">>
Upper == <<"teal", "upper">>

MCBodies ==
    { [kind |-> "copy",     hex |-> Lower,  os |-> "win"],
      [kind |-> "download", hex |-> Upper,  os |-> "mac"],
      [kind |-> "osview",   hex |-> BadHex, os |-> "win"],   \* its hex is not looked at
      [kind |-> "copy",     hex |-> BadHex, os |-> "win"],
      Garbage }
=============================================================================
