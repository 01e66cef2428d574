---------------------------- MODULE TypingProofs ----------------------------
(***************************************************************************)
(* Proofs about the typing indicator of module Typing, for every cap and   *)
(* every number of calls.                                                  *)
(***************************************************************************)
EXTENDS Typing, TLAPS

Live == {"notice", "sleep", "capped", "ended"}

\* A call starts one task at most, the one under way included.
Numbered ==
    /\ generation <= calls
    /\ call \in {"chunk", "more_off", "more_on", "more_start"} => generation < calls
    /\ \A g \in Gen : at[g] # "none" => g <= generation

\* Every task still in its loop, or out of it and not yet off the map, has been told
\* to stop or is the map's; the map names no other.
Known ==
    /\ \A g \in Gen : at[g] \in Live => cancelled[g] \/ entry = g
    /\ entry # 0 => at[entry] \in Live
    /\ call = "stop_off" => entry = 0

\* Someone is left to switch the indicator off.
SwitchedOff ==
    on => call = "more_start" \/ \E g \in Gen : at[g] \notin {"none", "over"}

\* A watch that could still report sees a silent session, or one whose reply broke off
\* after its beginning, unless what ends the silence is under way or has told the task
\* to stop.
WatchIsSilence ==
    \A g \in Gen :
        watch[g] /\ at[g] \in Live =>
            shown \in {"nothing", "part"} \/ call # "idle" \/ cancelled[g]

\* The inductive invariant.
TypingInv == TypeOK /\ Numbered /\ Known /\ SwitchedOff /\ WatchIsSilence
-----------------------------------------------------------------------------
\* Every step of the read loop and of the tasks keeps the invariant.
LEMMA TypingStep ==
    ASSUME TypingInv, [Next]_vars
    PROVE  TypingInv'
PROOF
  <2>0. TypeOK /\ Numbered /\ Known /\ SwitchedOff /\ WatchIsSilence
    BY DEF TypingInv
  <2> SUFFICES /\ TypeOK' /\ Numbered' /\ Known'
               /\ SwitchedOff' /\ WatchIsSilence'
    BY DEF TypingInv
  <2>1. CASE Acked
    <3>1. TypeOK'
      <4>1. /\ generation' \in 0..MaxCalls /\ entry' \in 0..generation'
            /\ calls' \in 0..MaxCalls
        BY <2>0, <2>1, TypingAssumption DEF Acked, Calling, typing_start, task, TypeOK, Numbered, Gen
      <4>2. /\ at' \in [Gen -> {"none", "notice", "sleep", "capped", "ended", "off", "over"}]
            /\ age' \in [Gen -> 0..TypingMax]
        BY <2>0, <2>1, TypingAssumption DEF Acked, Calling, typing_start, task, TypeOK, Gen
      <4>3. cancelled' \in [Gen -> BOOLEAN] /\ watch' \in [Gen -> BOOLEAN]
        BY <2>0, <2>1 DEF Acked, Calling, typing_start, task, TypeOK
      <4>4. call' \in {"idle", "chunk", "more_off", "more_on", "more_start", "stop", "stop_off"}
        BY <2>0, <2>1 DEF Acked, Calling, typing_start, task, TypeOK
      <4>5. on' \in BOOLEAN /\ reported' \in BOOLEAN /\ shown' \in {"nothing", "part", "something"}
        BY <2>0, <2>1 DEF Acked, Calling, typing_start, task, TypeOK
      <4> QED BY <4>1, <4>2, <4>3, <4>4, <4>5 DEF TypeOK
    <3>2. Numbered'
      BY <2>0, <2>1, TypingAssumption DEF Acked, Calling, typing_start, task, TypeOK, Numbered, Gen
    <3>3. Known'
      BY <2>0, <2>1, TypingAssumption DEF Acked, Calling, typing_start, task, TypeOK, Numbered, Known, Live, Gen
    <3>4. SwitchedOff'
      BY <2>0, <2>1, TypingAssumption DEF Acked, Calling, typing_start, task, TypeOK, Numbered, Known, SwitchedOff, Live, Gen
    <3>5. WatchIsSilence'
      BY <2>0, <2>1, TypingAssumption DEF Acked, Calling, typing_start, task, TypeOK, Numbered, Known, WatchIsSilence, Live, Gen
    <3> QED BY <3>1, <3>2, <3>3, <3>4, <3>5
  <2>2. CASE SendMore
    <3>1. TypeOK'
      <4>1. /\ generation' \in 0..MaxCalls /\ entry' \in 0..generation'
            /\ calls' \in 0..MaxCalls
        BY <2>0, <2>2, TypingAssumption DEF SendMore, Sending, Sent, Calling, task, TypeOK, Numbered, Gen
      <4>2. /\ at' \in [Gen -> {"none", "notice", "sleep", "capped", "ended", "off", "over"}]
            /\ age' \in [Gen -> 0..TypingMax]
        BY <2>0, <2>2, TypingAssumption DEF SendMore, Sending, Sent, Calling, task, TypeOK, Gen
      <4>3. cancelled' \in [Gen -> BOOLEAN] /\ watch' \in [Gen -> BOOLEAN]
        BY <2>0, <2>2 DEF SendMore, Sending, Sent, Calling, task, TypeOK
      <4>4. call' \in {"idle", "chunk", "more_off", "more_on", "more_start", "stop", "stop_off"}
        BY <2>0, <2>2 DEF SendMore, Sending, Sent, Calling, task, TypeOK
      <4>5. on' \in BOOLEAN /\ reported' \in BOOLEAN /\ shown' \in {"nothing", "part", "something"}
        BY <2>0, <2>2 DEF SendMore, Sending, Sent, Calling, task, TypeOK
      <4> QED BY <4>1, <4>2, <4>3, <4>4, <4>5 DEF TypeOK
    <3>2. Numbered'
      BY <2>0, <2>2, TypingAssumption DEF SendMore, Sending, Sent, Calling, task, TypeOK, Numbered, Gen
    <3>3. Known'
      BY <2>0, <2>2, TypingAssumption DEF SendMore, Sending, Sent, Calling, task, TypeOK, Numbered, Known, Live, Gen
    <3>4. SwitchedOff'
      BY <2>0, <2>2, TypingAssumption DEF SendMore, Sending, Sent, Calling, task, TypeOK, Numbered, Known, SwitchedOff, Live, Gen
    <3>5. WatchIsSilence'
      BY <2>0, <2>2, TypingAssumption DEF SendMore, Sending, Sent, Calling, task, TypeOK, Numbered, Known, WatchIsSilence, Live, Gen
    <3> QED BY <3>1, <3>2, <3>3, <3>4, <3>5
  <2>3. CASE MoreOff
    <3>1. TypeOK'
      BY <2>0, <2>3, TypingAssumption DEF MoreOff, task, TypeOK, Numbered, Gen
    <3>2. Numbered'
      BY <2>0, <2>3, TypingAssumption DEF MoreOff, task, TypeOK, Numbered, Gen
    <3>3. Known'
      BY <2>0, <2>3, TypingAssumption DEF MoreOff, task, TypeOK, Numbered, Known, Live, Gen
    <3>4. SwitchedOff'
      BY <2>0, <2>3, TypingAssumption DEF MoreOff, task, TypeOK, Numbered, Known, SwitchedOff, Live, Gen
    <3>5. WatchIsSilence'
      BY <2>0, <2>3, TypingAssumption DEF MoreOff, task, TypeOK, Numbered, Known, WatchIsSilence, Live, Gen
    <3> QED BY <3>1, <3>2, <3>3, <3>4, <3>5
  <2>4. CASE MoreOn
    <3>1. TypeOK'
      BY <2>0, <2>4, TypingAssumption DEF MoreOn, task, TypeOK, Numbered, Gen
    <3>2. Numbered'
      BY <2>0, <2>4, TypingAssumption DEF MoreOn, task, TypeOK, Numbered, Gen
    <3>3. Known'
      BY <2>0, <2>4, TypingAssumption DEF MoreOn, task, TypeOK, Numbered, Known, Live, Gen
    <3>4. SwitchedOff'
      BY <2>0, <2>4, TypingAssumption DEF MoreOn, task, TypeOK, Numbered, Known, SwitchedOff, Live, Gen
    <3>5. WatchIsSilence'
      BY <2>0, <2>4, TypingAssumption DEF MoreOn, task, TypeOK, Numbered, Known, WatchIsSilence, Live, Gen
    <3> QED BY <3>1, <3>2, <3>3, <3>4, <3>5
  <2>5. CASE MoreStart
    <3>1. TypeOK'
      <4>1. /\ generation' \in 0..MaxCalls /\ entry' \in 0..generation'
            /\ calls' \in 0..MaxCalls
        BY <2>0, <2>5, TypingAssumption DEF MoreStart, typing_start, task, TypeOK, Numbered, Gen
      <4>2. /\ at' \in [Gen -> {"none", "notice", "sleep", "capped", "ended", "off", "over"}]
            /\ age' \in [Gen -> 0..TypingMax]
        BY <2>0, <2>5, TypingAssumption DEF MoreStart, typing_start, task, TypeOK, Gen
      <4>3. cancelled' \in [Gen -> BOOLEAN] /\ watch' \in [Gen -> BOOLEAN]
        BY <2>0, <2>5 DEF MoreStart, typing_start, task, TypeOK
      <4>4. call' \in {"idle", "chunk", "more_off", "more_on", "more_start", "stop", "stop_off"}
        BY <2>0, <2>5 DEF MoreStart, typing_start, task, TypeOK
      <4>5. on' \in BOOLEAN /\ reported' \in BOOLEAN /\ shown' \in {"nothing", "part", "something"}
        BY <2>0, <2>5 DEF MoreStart, typing_start, task, TypeOK
      <4> QED BY <4>1, <4>2, <4>3, <4>4, <4>5 DEF TypeOK
    <3>2. Numbered'
      BY <2>0, <2>5, TypingAssumption DEF MoreStart, typing_start, task, TypeOK, Numbered, Gen
    <3>3. Known'
      BY <2>0, <2>5, TypingAssumption DEF MoreStart, typing_start, task, TypeOK, Numbered, Known, Live, Gen
    <3>4. SwitchedOff'
      <4>1. CASE entry # 0
        <5>1. entry \in Gen /\ at[entry] \in Live /\ at' = at
          BY <2>0, <2>5, <4>1, TypingAssumption DEF MoreStart, typing_start, task, TypeOK, Known, Gen
        <5> QED
          BY <5>1 DEF SwitchedOff, Live
      <4>2. CASE entry = 0
        <5>1. generation' \in Gen /\ at'[generation'] = "notice"
          BY <2>0, <2>5, <4>2, TypingAssumption DEF MoreStart, typing_start, TypeOK, Numbered, Gen
        <5> QED
          BY <5>1 DEF SwitchedOff
      <4> QED
        BY <4>1, <4>2
    <3>5. WatchIsSilence'
      BY <2>0, <2>5, TypingAssumption DEF MoreStart, typing_start, task, TypeOK, Numbered, Known, WatchIsSilence, Live, Gen
    <3> QED BY <3>1, <3>2, <3>3, <3>4, <3>5
  <2>6. CASE Typing
    <3>1. TypeOK'
      <4>1. /\ generation' \in 0..MaxCalls /\ entry' \in 0..generation'
            /\ calls' \in 0..MaxCalls
        BY <2>0, <2>6, TypingAssumption DEF Typing, Calling, typing_start, task, TypeOK, Numbered, Gen
      <4>2. /\ at' \in [Gen -> {"none", "notice", "sleep", "capped", "ended", "off", "over"}]
            /\ age' \in [Gen -> 0..TypingMax]
        BY <2>0, <2>6, TypingAssumption DEF Typing, Calling, typing_start, task, TypeOK, Gen
      <4>3. cancelled' \in [Gen -> BOOLEAN] /\ watch' \in [Gen -> BOOLEAN]
        BY <2>0, <2>6 DEF Typing, Calling, typing_start, task, TypeOK
      <4>4. call' \in {"idle", "chunk", "more_off", "more_on", "more_start", "stop", "stop_off"}
        BY <2>0, <2>6 DEF Typing, Calling, typing_start, task, TypeOK
      <4>5. on' \in BOOLEAN /\ reported' \in BOOLEAN /\ shown' \in {"nothing", "part", "something"}
        BY <2>0, <2>6 DEF Typing, Calling, typing_start, task, TypeOK
      <4> QED BY <4>1, <4>2, <4>3, <4>4, <4>5 DEF TypeOK
    <3>2. Numbered'
      BY <2>0, <2>6, TypingAssumption DEF Typing, Calling, typing_start, task, TypeOK, Numbered, Gen
    <3>3. Known'
      BY <2>0, <2>6, TypingAssumption DEF Typing, Calling, typing_start, task, TypeOK, Numbered, Known, Live, Gen
    <3>4. SwitchedOff'
      BY <2>0, <2>6, TypingAssumption DEF Typing, Calling, typing_start, task, TypeOK, Numbered, Known, SwitchedOff, Live, Gen
    <3>5. WatchIsSilence'
      BY <2>0, <2>6, TypingAssumption DEF Typing, Calling, typing_start, task, TypeOK, Numbered, Known, WatchIsSilence, Live, Gen
    <3> QED BY <3>1, <3>2, <3>3, <3>4, <3>5
  <2>7. CASE Send
    <3>1. TypeOK'
      <4>1. /\ generation' \in 0..MaxCalls /\ entry' \in 0..generation'
            /\ calls' \in 0..MaxCalls
        BY <2>0, <2>7, TypingAssumption DEF Send, Sending, Sent, Calling, task, TypeOK, Numbered, Gen
      <4>2. /\ at' \in [Gen -> {"none", "notice", "sleep", "capped", "ended", "off", "over"}]
            /\ age' \in [Gen -> 0..TypingMax]
        BY <2>0, <2>7, TypingAssumption DEF Send, Sending, Sent, Calling, task, TypeOK, Gen
      <4>3. cancelled' \in [Gen -> BOOLEAN] /\ watch' \in [Gen -> BOOLEAN]
        BY <2>0, <2>7 DEF Send, Sending, Sent, Calling, task, TypeOK
      <4>4. call' \in {"idle", "chunk", "more_off", "more_on", "more_start", "stop", "stop_off"}
        BY <2>0, <2>7 DEF Send, Sending, Sent, Calling, task, TypeOK
      <4>5. on' \in BOOLEAN /\ reported' \in BOOLEAN /\ shown' \in {"nothing", "part", "something"}
        BY <2>0, <2>7 DEF Send, Sending, Sent, Calling, task, TypeOK
      <4> QED BY <4>1, <4>2, <4>3, <4>4, <4>5 DEF TypeOK
    <3>2. Numbered'
      BY <2>0, <2>7, TypingAssumption DEF Send, Sending, Sent, Calling, task, TypeOK, Numbered, Gen
    <3>3. Known'
      BY <2>0, <2>7, TypingAssumption DEF Send, Sending, Sent, Calling, task, TypeOK, Numbered, Known, Live, Gen
    <3>4. SwitchedOff'
      BY <2>0, <2>7, TypingAssumption DEF Send, Sending, Sent, Calling, task, TypeOK, Numbered, Known, SwitchedOff, Live, Gen
    <3>5. WatchIsSilence'
      BY <2>0, <2>7, TypingAssumption DEF Send, Sending, Sent, Calling, task, TypeOK, Numbered, Known, WatchIsSilence, Live, Gen
    <3> QED BY <3>1, <3>2, <3>3, <3>4, <3>5
  <2>8. CASE Stop
    <3>1. TypeOK'
      <4>1. /\ generation' \in 0..MaxCalls /\ entry' \in 0..generation'
            /\ calls' \in 0..MaxCalls
        BY <2>0, <2>8, TypingAssumption DEF Stop, typing_stop, task, TypeOK, Numbered, Gen
      <4>2. /\ at' \in [Gen -> {"none", "notice", "sleep", "capped", "ended", "off", "over"}]
            /\ age' \in [Gen -> 0..TypingMax]
        BY <2>0, <2>8, TypingAssumption DEF Stop, typing_stop, task, TypeOK, Gen
      <4>3. cancelled' \in [Gen -> BOOLEAN] /\ watch' \in [Gen -> BOOLEAN]
        BY <2>0, <2>8 DEF Stop, typing_stop, task, TypeOK
      <4>4. call' \in {"idle", "chunk", "more_off", "more_on", "more_start", "stop", "stop_off"}
        BY <2>0, <2>8 DEF Stop, typing_stop, task, TypeOK
      <4>5. on' \in BOOLEAN /\ reported' \in BOOLEAN /\ shown' \in {"nothing", "part", "something"}
        BY <2>0, <2>8 DEF Stop, typing_stop, task, TypeOK
      <4> QED BY <4>1, <4>2, <4>3, <4>4, <4>5 DEF TypeOK
    <3>2. Numbered'
      BY <2>0, <2>8, TypingAssumption DEF Stop, typing_stop, task, TypeOK, Numbered, Gen
    <3>3. Known'
      BY <2>0, <2>8, TypingAssumption DEF Stop, typing_stop, task, TypeOK, Numbered, Known, Live, Gen
    <3>4. SwitchedOff'
      BY <2>0, <2>8, TypingAssumption DEF Stop, typing_stop, task, TypeOK, Numbered, Known, SwitchedOff, Live, Gen
    <3>5. WatchIsSilence'
      BY <2>0, <2>8, TypingAssumption DEF Stop, typing_stop, task, TypeOK, Numbered, Known, WatchIsSilence, Live, Gen
    <3> QED BY <3>1, <3>2, <3>3, <3>4, <3>5
  <2>9. CASE StopOff
    <3>1. TypeOK'
      BY <2>0, <2>9, TypingAssumption DEF StopOff, task, TypeOK, Numbered, Gen
    <3>2. Numbered'
      BY <2>0, <2>9, TypingAssumption DEF StopOff, task, TypeOK, Numbered, Gen
    <3>3. Known'
      BY <2>0, <2>9, TypingAssumption DEF StopOff, task, TypeOK, Numbered, Known, Live, Gen
    <3>4. SwitchedOff'
      BY <2>0, <2>9, TypingAssumption DEF StopOff, task, TypeOK, Numbered, Known, SwitchedOff, Live, Gen
    <3>5. WatchIsSilence'
      BY <2>0, <2>9, TypingAssumption DEF StopOff, task, TypeOK, Numbered, Known, WatchIsSilence, Live, Gen
    <3> QED BY <3>1, <3>2, <3>3, <3>4, <3>5
  <2>10. CASE Disconnect
    <3>1. TypeOK'
      <4>1. /\ generation' \in 0..MaxCalls /\ entry' \in 0..generation'
            /\ calls' \in 0..MaxCalls
        BY <2>0, <2>10, TypingAssumption DEF Disconnect, Calling, typing_stop, task, TypeOK, Numbered, Gen
      <4>2. /\ at' \in [Gen -> {"none", "notice", "sleep", "capped", "ended", "off", "over"}]
            /\ age' \in [Gen -> 0..TypingMax]
        BY <2>0, <2>10, TypingAssumption DEF Disconnect, Calling, typing_stop, task, TypeOK, Gen
      <4>3. cancelled' \in [Gen -> BOOLEAN] /\ watch' \in [Gen -> BOOLEAN]
        BY <2>0, <2>10 DEF Disconnect, Calling, typing_stop, task, TypeOK
      <4>4. call' \in {"idle", "chunk", "more_off", "more_on", "more_start", "stop", "stop_off"}
        BY <2>0, <2>10 DEF Disconnect, Calling, typing_stop, task, TypeOK
      <4>5. on' \in BOOLEAN /\ reported' \in BOOLEAN /\ shown' \in {"nothing", "part", "something"}
        BY <2>0, <2>10 DEF Disconnect, Calling, typing_stop, task, TypeOK
      <4> QED BY <4>1, <4>2, <4>3, <4>4, <4>5 DEF TypeOK
    <3>2. Numbered'
      BY <2>0, <2>10, TypingAssumption DEF Disconnect, Calling, typing_stop, task, TypeOK, Numbered, Gen
    <3>3. Known'
      BY <2>0, <2>10, TypingAssumption DEF Disconnect, Calling, typing_stop, task, TypeOK, Numbered, Known, Live, Gen
    <3>4. SwitchedOff'
      BY <2>0, <2>10, TypingAssumption DEF Disconnect, Calling, typing_stop, task, TypeOK, Numbered, Known, SwitchedOff, Live, Gen
    <3>5. WatchIsSilence'
      BY <2>0, <2>10, TypingAssumption DEF Disconnect, Calling, typing_stop, task, TypeOK, Numbered, Known, WatchIsSilence, Live, Gen
    <3> QED BY <3>1, <3>2, <3>3, <3>4, <3>5
  <2>11. CASE \E g \in Gen : Notice(g)
    <3>0. PICK g \in Gen : Notice(g)
      BY <2>11
    <3>1. TypeOK'
      BY <2>0, <3>0, TypingAssumption DEF Notice, task, TypeOK, Numbered, Gen
    <3>2. Numbered'
      BY <2>0, <3>0, TypingAssumption DEF Notice, task, TypeOK, Numbered, Gen
    <3>3. Known'
      BY <2>0, <3>0, TypingAssumption DEF Notice, task, TypeOK, Numbered, Known, Live, Gen
    <3>4. SwitchedOff'
      BY <2>0, <3>0, TypingAssumption DEF Notice, task, TypeOK, Numbered, Known, SwitchedOff, Live, Gen
    <3>5. WatchIsSilence'
      BY <2>0, <3>0, TypingAssumption DEF Notice, task, TypeOK, Numbered, Known, WatchIsSilence, Live, Gen
    <3> QED BY <3>1, <3>2, <3>3, <3>4, <3>5
  <2>12. CASE \E g \in Gen : Poll(g)
    <3>0. PICK g \in Gen : Poll(g)
      BY <2>12
    <3>1. TypeOK'
      BY <2>0, <3>0, TypingAssumption DEF Poll, task, TypeOK, Numbered, Gen
    <3>2. Numbered'
      BY <2>0, <3>0, TypingAssumption DEF Poll, task, TypeOK, Numbered, Gen
    <3>3. Known'
      BY <2>0, <3>0, TypingAssumption DEF Poll, task, TypeOK, Numbered, Known, Live, Gen
    <3>4. SwitchedOff'
      BY <2>0, <3>0, TypingAssumption DEF Poll, task, TypeOK, Numbered, Known, SwitchedOff, Live, Gen
    <3>5. WatchIsSilence'
      BY <2>0, <3>0, TypingAssumption DEF Poll, task, TypeOK, Numbered, Known, WatchIsSilence, Live, Gen
    <3> QED BY <3>1, <3>2, <3>3, <3>4, <3>5
  <2>13. CASE \E g \in Gen : Capped(g)
    <3>0. PICK g \in Gen : Capped(g)
      BY <2>13
    <3>1. TypeOK'
      BY <2>0, <3>0, TypingAssumption DEF Capped, task, TypeOK, Numbered, Gen
    <3>2. Numbered'
      BY <2>0, <3>0, TypingAssumption DEF Capped, task, TypeOK, Numbered, Gen
    <3>3. Known'
      BY <2>0, <3>0, TypingAssumption DEF Capped, task, TypeOK, Numbered, Known, Live, Gen
    <3>4. SwitchedOff'
      BY <2>0, <3>0, TypingAssumption DEF Capped, task, TypeOK, Numbered, Known, SwitchedOff, Live, Gen
    <3>5. WatchIsSilence'
      BY <2>0, <3>0, TypingAssumption DEF Capped, task, TypeOK, Numbered, Known, WatchIsSilence, Live, Gen
    <3> QED BY <3>1, <3>2, <3>3, <3>4, <3>5
  <2>14. CASE \E g \in Gen : RemoveEntry(g)
    <3>0. PICK g \in Gen : RemoveEntry(g)
      BY <2>14
    <3>1. TypeOK'
      BY <2>0, <3>0, TypingAssumption DEF RemoveEntry, task, TypeOK, Numbered, Gen
    <3>2. Numbered'
      BY <2>0, <3>0, TypingAssumption DEF RemoveEntry, task, TypeOK, Numbered, Gen
    <3>3. Known'
      BY <2>0, <3>0, TypingAssumption DEF RemoveEntry, task, TypeOK, Numbered, Known, Live, Gen
    <3>4. SwitchedOff'
      BY <2>0, <3>0, TypingAssumption DEF RemoveEntry, task, TypeOK, Numbered, Known, SwitchedOff, Live, Gen
    <3>5. WatchIsSilence'
      BY <2>0, <3>0, TypingAssumption DEF RemoveEntry, task, TypeOK, Numbered, Known, WatchIsSilence, Live, Gen
    <3> QED BY <3>1, <3>2, <3>3, <3>4, <3>5
  <2>15. CASE \E g \in Gen : LastNotice(g)
    <3>0. PICK g \in Gen : LastNotice(g)
      BY <2>15
    <3>1. TypeOK'
      BY <2>0, <3>0, TypingAssumption DEF LastNotice, task, TypeOK, Numbered, Gen
    <3>2. Numbered'
      BY <2>0, <3>0, TypingAssumption DEF LastNotice, task, TypeOK, Numbered, Gen
    <3>3. Known'
      BY <2>0, <3>0, TypingAssumption DEF LastNotice, task, TypeOK, Numbered, Known, Live, Gen
    <3>4. SwitchedOff'
      BY <2>0, <3>0, TypingAssumption DEF LastNotice, task, TypeOK, Numbered, Known, SwitchedOff, Live, Gen
    <3>5. WatchIsSilence'
      BY <2>0, <3>0, TypingAssumption DEF LastNotice, task, TypeOK, Numbered, Known, WatchIsSilence, Live, Gen
    <3> QED BY <3>1, <3>2, <3>3, <3>4, <3>5
  <2>16. CASE SendChunk
    <3>1. TypeOK'
      <4>1. /\ generation' \in 0..MaxCalls /\ entry' \in 0..generation'
            /\ calls' \in 0..MaxCalls
        BY <2>0, <2>16, TypingAssumption DEF SendChunk, Sending, Sent, Calling, task, TypeOK, Numbered, Gen
      <4>2. /\ at' \in [Gen -> {"none", "notice", "sleep", "capped", "ended", "off", "over"}]
            /\ age' \in [Gen -> 0..TypingMax]
        BY <2>0, <2>16, TypingAssumption DEF SendChunk, Sending, Sent, Calling, task, TypeOK, Gen
      <4>3. cancelled' \in [Gen -> BOOLEAN] /\ watch' \in [Gen -> BOOLEAN]
        BY <2>0, <2>16 DEF SendChunk, Sending, Sent, Calling, task, TypeOK
      <4>4. call' \in {"idle", "chunk", "more_off", "more_on", "more_start", "stop", "stop_off"}
        BY <2>0, <2>16 DEF SendChunk, Sending, Sent, Calling, task, TypeOK
      <4>5. on' \in BOOLEAN /\ reported' \in BOOLEAN /\ shown' \in {"nothing", "part", "something"}
        BY <2>0, <2>16 DEF SendChunk, Sending, Sent, Calling, task, TypeOK
      <4> QED BY <4>1, <4>2, <4>3, <4>4, <4>5 DEF TypeOK
    <3>2. Numbered'
      BY <2>0, <2>16, TypingAssumption DEF SendChunk, Sending, Sent, Calling, task, TypeOK, Numbered, Gen
    <3>3. Known'
      BY <2>0, <2>16, TypingAssumption DEF SendChunk, Sending, Sent, Calling, task, TypeOK, Numbered, Known, Live, Gen
    <3>4. SwitchedOff'
      BY <2>0, <2>16, TypingAssumption DEF SendChunk, Sending, Sent, Calling, task, TypeOK, Numbered, Known, SwitchedOff, Live, Gen
    <3>5. WatchIsSilence'
      BY <2>0, <2>16, TypingAssumption DEF SendChunk, Sending, Sent, Calling, task, TypeOK, Numbered, Known, WatchIsSilence, Live, Gen
    <3> QED BY <3>1, <3>2, <3>3, <3>4, <3>5
  <2>17. CASE RelateFails
    <3>1. TypeOK'
      <4>1. /\ generation' \in 0..MaxCalls /\ entry' \in 0..generation'
            /\ calls' \in 0..MaxCalls
        BY <2>0, <2>17, TypingAssumption DEF RelateFails, task, TypeOK, Numbered, Gen
      <4>2. /\ at' \in [Gen -> {"none", "notice", "sleep", "capped", "ended", "off", "over"}]
            /\ age' \in [Gen -> 0..TypingMax]
        BY <2>0, <2>17, TypingAssumption DEF RelateFails, task, TypeOK, Gen
      <4>3. cancelled' \in [Gen -> BOOLEAN] /\ watch' \in [Gen -> BOOLEAN]
        BY <2>0, <2>17 DEF RelateFails, task, TypeOK
      <4>4. call' \in {"idle", "chunk", "more_off", "more_on", "more_start", "stop", "stop_off"}
        BY <2>0, <2>17 DEF RelateFails, task, TypeOK
      <4>5. on' \in BOOLEAN /\ reported' \in BOOLEAN /\ shown' \in {"nothing", "part", "something"}
        BY <2>0, <2>17 DEF RelateFails, task, TypeOK
      <4> QED BY <4>1, <4>2, <4>3, <4>4, <4>5 DEF TypeOK
    <3>2. Numbered'
      BY <2>0, <2>17, TypingAssumption DEF RelateFails, task, TypeOK, Numbered, Gen
    <3>3. Known'
      BY <2>0, <2>17, TypingAssumption DEF RelateFails, task, TypeOK, Numbered, Known, Live, Gen
    <3>4. SwitchedOff'
      BY <2>0, <2>17, TypingAssumption DEF RelateFails, task, TypeOK, Numbered, Known, SwitchedOff, Live, Gen
    <3>5. WatchIsSilence'
      BY <2>0, <2>17, TypingAssumption DEF RelateFails, task, TypeOK, Numbered, Known, WatchIsSilence, Live, Gen
    <3> QED BY <3>1, <3>2, <3>3, <3>4, <3>5
  <2>18. CASE SendFails
    <3>1. TypeOK'
      <4>1. /\ generation' \in 0..MaxCalls /\ entry' \in 0..generation'
            /\ calls' \in 0..MaxCalls
        BY <2>0, <2>18, TypingAssumption DEF SendFails, Sending, Calling, task, TypeOK, Numbered, Gen
      <4>2. /\ at' \in [Gen -> {"none", "notice", "sleep", "capped", "ended", "off", "over"}]
            /\ age' \in [Gen -> 0..TypingMax]
        BY <2>0, <2>18, TypingAssumption DEF SendFails, Sending, Calling, task, TypeOK, Gen
      <4>3. cancelled' \in [Gen -> BOOLEAN] /\ watch' \in [Gen -> BOOLEAN]
        BY <2>0, <2>18 DEF SendFails, Sending, Calling, task, TypeOK
      <4>4. call' \in {"idle", "chunk", "more_off", "more_on", "more_start", "stop", "stop_off"}
        BY <2>0, <2>18 DEF SendFails, Sending, Calling, task, TypeOK
      <4>5. on' \in BOOLEAN /\ reported' \in BOOLEAN /\ shown' \in {"nothing", "part", "something"}
        BY <2>0, <2>18 DEF SendFails, Sending, Calling, task, TypeOK
      <4> QED BY <4>1, <4>2, <4>3, <4>4, <4>5 DEF TypeOK
    <3>2. Numbered'
      BY <2>0, <2>18, TypingAssumption DEF SendFails, Sending, Calling, task, TypeOK, Numbered, Gen
    <3>3. Known'
      BY <2>0, <2>18, TypingAssumption DEF SendFails, Sending, Calling, task, TypeOK, Numbered, Known, Live, Gen
    <3>4. SwitchedOff'
      BY <2>0, <2>18, TypingAssumption DEF SendFails, Sending, Calling, task, TypeOK, Numbered, Known, SwitchedOff, Live, Gen
    <3>5. WatchIsSilence'
      BY <2>0, <2>18, TypingAssumption DEF SendFails, Sending, Calling, task, TypeOK, Numbered, Known, WatchIsSilence, Live, Gen
    <3> QED BY <3>1, <3>2, <3>3, <3>4, <3>5
  <2>19. CASE UNCHANGED vars
    BY <2>0, <2>19 DEF vars, task, TypeOK, Numbered, Known, SwitchedOff, WatchIsSilence, Live, Gen
  <2> QED
    BY <2>1, <2>2, <2>3, <2>4, <2>5, <2>6, <2>7, <2>8, <2>9, <2>10, <2>11, <2>12, <2>13, <2>14, <2>15, <2>16, <2>17,
       <2>18, <2>19 DEF Next, ReadLoop, Task

\* The invariant holds of every state of every behaviour.
LEMMA TypingInvAlways == Spec => []TypingInv
PROOF
  <1>1. Init => TypingInv
    <2> SUFFICES ASSUME Init PROVE TypingInv
      OBVIOUS
    <2>1. generation \in 0..MaxCalls /\ entry \in 0..generation /\ calls \in 0..MaxCalls
      BY TypingAssumption DEF Init
    <2>2. TypeOK
      <3>1. at \in [Gen -> {"none", "notice", "sleep", "capped", "ended", "off", "over"}]
        BY DEF Init
      <3>2. age \in [Gen -> 0..TypingMax]
        BY TypingAssumption DEF Init
      <3>3. cancelled \in [Gen -> BOOLEAN] /\ watch \in [Gen -> BOOLEAN]
        BY DEF Init
      <3>4. on \in BOOLEAN /\ reported \in BOOLEAN /\ shown \in {"nothing", "part", "something"}
        BY DEF Init
      <3>5. call \in {"idle", "chunk", "more_off", "more_on", "more_start", "stop", "stop_off"}
        BY DEF Init
      <3> QED
        BY <2>1, <3>1, <3>2, <3>3, <3>4, <3>5 DEF TypeOK
    <2>3. Numbered /\ Known
      BY <2>2, TypingAssumption DEF Init, Numbered, Known, Live, Gen
    <2>4. SwitchedOff /\ WatchIsSilence
      BY DEF Init, SwitchedOff, WatchIsSilence, Live
    <2> QED
      BY <2>2, <2>3, <2>4 DEF TypingInv
  <1> QED
    BY <1>1, TypingStep, PTL DEF Spec

\* The state keeps its types: no task is numbered past the calls and none refreshes
\* longer than TYPING_MAX (typing_start and its loop, daemon.rs).
THEOREM TypingTypeCorrect == Spec => []TypeOK
PROOF
  <1>1. TypingInv => TypeOK
    BY DEF TypingInv
  <1> QED
    BY <1>1, TypingInvAlways, PTL

\* A room has one refresher that nothing told to stop, the one typing_stop reaches:
\* the generation check of an ending task protects the entry of its successor.
THEOREM OneRefresherAlways == Spec => []OneRefresher
PROOF
  <1>1. TypingInv => OneRefresher
    BY DEF TypingInv, Known, OneRefresher, Running, Live
  <1> QED
    BY <1>1, TypingInvAlways, PTL

\* Once the tasks are over and no call is under way the indicator is off, in whatever
\* order the notices of old and new tasks went out.
THEOREM QuietWhenOverAlways == Spec => []QuietWhenOver
PROOF
  <1>1. TypingInv => QuietWhenOver
    BY DEF TypingInv, SwitchedOff, QuietWhenOver
  <1> QED
    BY <1>1, TypingInvAlways, PTL

\* A task reports a silence only if there is one, or if what ends it races the cap, or
\* after a reply that broke off because its next message could not be related (do_reply,
\* outbound.rs): every other end of a command takes the watch away.
THEOREM ReportsAreSilence == Spec => ReportIsSilence
PROOF
  <1> DEFINE Honest ==
        ~reported /\ reported' =>
            \/ shown \in {"nothing", "part"}
            \/ call # "idle"
            \/ \E g \in Gen : at[g] = "capped" /\ cancelled[g]
  <1>1. TypingInv /\ [Next]_vars => [Honest]_vars
    <2> SUFFICES ASSUME TypingInv, Next, ~reported, reported'
                 PROVE  \/ shown \in {"nothing", "part"}
                        \/ call # "idle"
                        \/ \E g \in Gen : at[g] = "capped" /\ cancelled[g]
      OBVIOUS
    <2>1. CASE ReadLoop
      BY <2>1 DEF ReadLoop, Acked, SendChunk, RelateFails, SendMore, MoreOff, MoreOn, MoreStart, Typing,
                  Send, SendFails, Sent, Stop, StopOff, Disconnect
    <2>2. ASSUME NEW g \in Gen, Task(g)
          PROVE  at[g] = "capped" /\ watch[g]
      BY <2>2 DEF Task, Notice, Poll, Capped, RemoveEntry, LastNotice
    <2> QED
      BY <2>1, <2>2 DEF Next, TypingInv, WatchIsSilence, Live
  <1> QED
    BY <1>1, TypingInvAlways, PTL DEF Spec, ReportIsSilence
=============================================================================
