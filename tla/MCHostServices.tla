--------------------------- MODULE MCHostServices ---------------------------
(***************************************************************************)
(* An instance of HostServices for TLC.  The pure algorithms are checked   *)
(* over bounded inputs by the assumptions.                                 *)
(***************************************************************************)
EXTENDS HostServices

Log == INSTANCE LogTail

\* Values of the constants.
SmallIdLists == {<<>>, <<"t">>, <<"t", "u">>, <<"t", "t">>}

SmallName(k) == IF k \in {"a.b", "A_B"} THEN "A_B" ELSE k

SmallPluginOf == [e \in PluginDirs |-> IF e = "e2" THEN "q" ELSE "p"]

SmallQueues == [c \in Classes |-> 1]

SmallOrder == <<"a", "b">>

SmallPools == [c \in Classes |-> IF c = "work" THEN 2 ELSE 1]

-----------------------------------------------------------------------------
SmallSections == [frame : 0..40, payload : {0, 3, 10, 20, 40}, line : {1}, inFlight : {0}]

ASSUME FramesReadableSmall == FramesReadable(SmallSections, 0..40)

ASSUME FramesRecognisedSmall == FramesRecognised(SmallSections, 0..40)

ASSUME FlagsSmall == FlagsExact

ASSUME LinesReadableSmall == LinesReadable([frame : {0}, payload : {0}, line : 0..5, inFlight : {0, 2}])

ASSUME OpcodesSmall == OpcodesExact

ASSUME FollowsFileSmall ==
  Log!FollowsFile(UNION {[1..n -> {Log!Newline, 1, Log!Lead, Log!Trail}] : n \in 0..5}, 3)

-----------------------------------------------------------------------------
Unset == Layers!Unset

SmallClis ==
  [home : {Unset, "h"}, profile : {Unset, "p"}, config : {Unset, <<"x", "y">>, <<".", "y">>}, token : {Unset, "t"},
   cwd : {"x"}]

SmallEnvs ==
  [home : {Unset, "e"}, profile : {Unset, "q"}, instance : {Unset, "ei"}, token : {Unset, "et"},
   transport : {Unset, "tcp-debug"}]

SmallLocals ==
  [home : {Unset, "lh"}, profile : {Unset, "lp"}, instance : {Unset, "li"}, token : {Unset, "lt"},
   transport : {"named-pipe"}, run : {Unset}]

SmallProfiles ==
  [home : {Unset, "ph"}, profile : {Unset}, instance : {Unset, "pi"}, token : {Unset, "pt"},
   transport : {Unset}, run : {Unset}]

ASSUME OneFileAsDocumentedSmall ==
  Layers!OneFileAsDocumented(SmallClis, SmallEnvs, SmallLocals, SmallProfiles)

ASSUME RelaunchSameSmall == Layers!RelaunchSame(SmallClis, SmallEnvs, SmallLocals)

-----------------------------------------------------------------------------
SmallRecords ==
  [entry : {"none"}, plugin : {"p"}, type : {"native", "abi", "process", "python"}, sha : {"v1"},
   state : {"valid"}, backends : {<<>>}, link : {"none", "jsonl-stdio", "tcp"}, runners : 0..1]

SmallFounds ==
  [{"d1", "d2", "d3"} ->
     [entry : {"none"}, plugin : {"p", "q"}, type : {"native", "abi", "process"}, sha : {"v1"},
      state : {"valid", "broken"}, backends : {<<"v1">>, <<"v1", "v2">>}, link : {"none"}, runners : {1}]]

ASSUME ScanSoundSmall ==
  ScanSound(SmallFounds, [e \in {"d1", "d2", "d3"} |-> IF e = "d3" THEN "v2" ELSE "v1"], SUBSET {"p"})

ASSUME RunnerHostedOnceSmall == RunnerHostedOnce(SmallRecords)
=============================================================================
