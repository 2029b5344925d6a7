----------------------------- MODULE MCCommands -----------------------------
(***************************************************************************)
(* Instances of Commands for TLC.                                          *)
(***************************************************************************)
EXTENDS Commands, TLC

CONSTANTS a1, a2

OneName == [a \in Agents |-> "agent"]

\* Tasks on one agent and on the whole peer.
OnAgent(a) ==
  {Task("mute", a, TRUE), Task("state", a, "s1"),
   Task("write", a, None), Task("destroy", a, None)}
OnPeer == {Task("freeze", None, TRUE), Task("check", None, 2)}

UserCalls == OnAgent(a1) \cup OnPeer
Whispers ==
  {Task("each", None, TRUE), Task("start", None, "agent"),
   Task("freeze", None, FALSE), Task("deactivate", a1, None), Task("path", a1, "p1"),
   Task("quiet", a1, TRUE),
   Task("map", a1, <<"add", "e1">>),
   Task("log", None, <<"stream", TRUE>>), Task("get", a1, None)}

\* A log file is asked for without a path, then values; and a replay.
LogAndGet == {Task("log", None, <<"file", TRUE>>), Task("get", a1, None)}
JustReplay == {Task("replay", a1, None)}
=============================================================================
