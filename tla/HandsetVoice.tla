----------------------------- MODULE HandsetVoice -----------------------------
(***************************************************************************)
(* The voice threads of the 2.4G handset (dzvoip/src/dz_voip.c):           *)
(* voice_uplink takes the microphones to the radio, through the vendor's   *)
(* engine, whose own thread plays what it makes of them; voice_downlink    *)
(* takes the radio to the speaker.  A device is "stopped" after an overrun *)
(* or underrun until it is prepared again.                                 *)
(***************************************************************************)

Device == {"rk_capture", "xy_playback", "xy_capture", "rk_playback"}

VARIABLES
  down, uplink, \* the threads: control points
  engine,       \* the engine's thread: "none", "idle", "fed", "again"
  pcm           \* per device: "closed", "runs", "stopped"

vars == <<down, uplink, engine, pcm>>

\* main() creates both threads, or has not been started ("none").
Init ==
  /\ \/ down = "open1" /\ uplink = "open1"
     \/ down = "none" /\ uplink = "none"
  /\ engine = "none" /\ pcm = [d \in Device |-> "closed"]

\* Any exit() ends every thread.
Exit ==
  /\ down' = "none" /\ uplink' = "none" /\ engine' = "none"
  /\ pcm' = [d \in Device |-> "closed"]

\* dz_set_params: every failure is an exit.
dz_set_params(d) ==
  pcm[d] = "closed" /\ pcm' = [pcm EXCEPT ![d] = "runs"]

-----------------------------------------------------------------------------
(* voice_downlink: hw:1,0 to "default" *)

DownGoto(a, b) == down = a /\ down' = b

DownOpen ==
  \/ /\ \/ DownGoto("open1", "open2") /\ dz_set_params("xy_capture")
        \/ DownGoto("open2", "read") /\ dz_set_params("rk_playback")
     /\ UNCHANGED <<uplink, engine>>
  \/ down \in {"open1", "open2"} /\ Exit

\* snd_pcm_readi: after an overrun it fails, and nobody prepares the device.
DownRead ==
  /\ DownGoto("read", IF pcm["xy_capture"] = "runs" THEN "write" ELSE "read")
  /\ UNCHANGED <<uplink, engine, pcm>>

\* snd_pcm_writei; after an underrun the device is prepared and the frame
\* written once more.
DownWrite ==
  /\ DownGoto("write", "read")
  /\ pcm' = [pcm EXCEPT !["rk_playback"] = "runs"]
  /\ UNCHANGED <<uplink, engine>>

-----------------------------------------------------------------------------
(* voice_uplink, and the engine *)

UpGoto(a, b) == uplink = a /\ uplink' = b

UpOpen ==
  \/ /\ \/ UpGoto("open1", "open2") /\ dz_set_params("rk_capture")
        \/ UpGoto("open2", "init") /\ dz_set_params("xy_playback")
     /\ UNCHANGED <<down, engine>>
  \/ uplink \in {"open1", "open2"} /\ Exit

\* Bug: the engine is created while the radio is still to be opened.
duilite_init_early ==
  \/ /\ UpGoto("open2", "open2") /\ engine' = "idle"
     /\ UNCHANGED <<down, pcm>>
  \/ /\ UpGoto("init", "read") /\ engine' = "idle"
     /\ UNCHANGED <<down, pcm>>

\* duilite_init: the engine is created and its callbacks registered, or the
\* assert fails.
duilite_init ==
  \/ /\ UpGoto("init", "read") /\ engine' = "idle"
     /\ UNCHANGED <<down, pcm>>
  \/ uplink = "init" /\ Exit

\* Bug: an overrun is reported and nothing else.
UpReadForgets ==
  /\ UpGoto("read", "feed")
  /\ UNCHANGED <<down, engine, pcm>>

\* snd_pcm_readi: after an overrun the device is prepared; the buffer, zeroed,
\* is fed all the same.
UpRead ==
  /\ UpGoto("read", "feed")
  /\ pcm' = [pcm EXCEPT !["rk_capture"] = "runs"]
  /\ UNCHANGED <<down, engine>>

\* duilite_feed
Feed ==
  /\ UpGoto("feed", "read")
  /\ engine' = IF engine = "idle" THEN "fed" ELSE engine
  /\ UNCHANGED <<down, pcm>>

\* beamforming_callback: 512 bytes are spread and written to the radio, other
\* lengths and messages are dropped.
beamforming_callback ==
  /\ engine = "fed"
  /\ \/ engine' = "idle" /\ UNCHANGED pcm
     \/ IF pcm["xy_playback"] = "runs" THEN engine' = "idle" /\ UNCHANGED pcm
        ELSE engine' = "again" /\ pcm' = [pcm EXCEPT !["xy_playback"] = "runs"]
  /\ UNCHANGED <<down, uplink>>

\* The frame is written once more after snd_pcm_prepare.
WriteAgain ==
  /\ engine = "again" /\ engine' = "idle"
  /\ UNCHANGED <<down, uplink, pcm>>

-----------------------------------------------------------------------------
(* The devices *)

\* An overrun or underrun: the thread came too late.
Xrun(d) ==
  /\ pcm[d] = "runs" /\ pcm' = [pcm EXCEPT ![d] = "stopped"]
  /\ UNCHANGED <<down, uplink, engine>>

Down == DownOpen \/ DownRead \/ DownWrite
Uplink == UpOpen \/ duilite_init \/ UpRead \/ Feed
Engine == beamforming_callback \/ WriteAgain

Next == Down \/ Uplink \/ Engine \/ \E d \in Device : Xrun(d)

\* The threads are scheduled and their calls return (a device that runs has
\* data).  Overruns may come at any time or never.
Fairness == WF_vars(Down) /\ WF_vars(Uplink) /\ WF_vars(Engine)

Spec == Init /\ [][Next]_vars
FairSpec == Spec /\ Fairness

-----------------------------------------------------------------------------
(* Properties *)

TypeOK ==
  /\ down \in {"none", "open1", "open2", "read", "write"}
  /\ uplink \in {"none", "open1", "open2", "init", "read", "feed"}
  /\ engine \in {"none", "idle", "fed", "again"}
  /\ pcm \in [Device -> {"closed", "runs", "stopped"}]

\* The engine's thread, which uses the globals of voice_uplink, finds the
\* device it writes to open, and no thread uses a device that is not
\* (dz_voip.c:193, 214, 300).
VoiceReady ==
  /\ engine # "none" => pcm["xy_playback"] # "closed"
  /\ uplink \in {"init", "read", "feed"} => pcm["rk_capture"] # "closed"
  /\ down \in {"read", "write"} =>
       pcm["xy_capture"] # "closed" /\ pcm["rk_playback"] # "closed"

VoiceInv == TypeOK /\ VoiceReady

\* Every device that stops comes back while its thread has something for it,
\* except the capture from the radio, which voice_downlink never prepares
\* after an overrun: the speaker is then silent for good (dz_voip.c:157-168).
Recovers ==
  \A d \in {"rk_capture", "rk_playback"} :
    pcm[d] = "stopped" ~> \/ pcm[d] # "stopped"
                          \/ d = "rk_playback" /\ pcm["xy_capture"] = "stopped"

=============================================================================
