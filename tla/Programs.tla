------------------------------- MODULE Programs -------------------------------
(***************************************************************************)
(* The programs of the repository that stand beside the phone's control    *)
(* connection and the firmware update, each with a module of its own: one  *)
(* of them is started, and runs as its module says.  They share nothing,   *)
(* so this module only puts them side by side, to be checked together; a   *)
(* variable carries its program's prefix.  Where a program's proofs have a *)
(* module of their own, which extends the program's, that one is named, so *)
(* that ProgramsProofs finds its lemmas here; TLC has no use for them.     *)
(***************************************************************************)

CONSTANTS
  Program,                  \* programs that may be started
  VoipSend, VoipRecv, Fd,   \* VoipAudio: clients of the two ports, numbers
  MaxClients,               \* VoipAudio: bound
  AecSend, AecRecv,         \* AecServer: clients of the two ports
  LinkConn, LinkFd, Pieces, \* UpdateLink: clients, numbers, pieces of a file
  ClientWire, ClientCmd,    \* MasterClient: bounds
  Top, First, Group, MaxJobs,  \* MixerKeys
  HandWire, HandRead,       \* Handset: bounds
  MaxPeriods,               \* FespSample: bound
  Byte, Nul, MaxLen, FinalNul, \* PcmSplit
  None

VARIABLES
  vo_up, vo_pcm, vo_phone, vo_peer, vo_backlog, vo_fdtab, vo_srv,
  vo_client_fd, vo_work, vo_fd, vo_pin, vo_mutex_audio, vo_broken,
  ae_up, ae_peer, ae_backlog, ae_srv, ae_client_fd, ae_work, ae_fd,
  ae_mutex_audio, ae_broken, ae_recv_buf, ae_into, ae_holds, ae_global_fd,
  ae_fespa, ae_send_buf, ae_engine, ae_heard,
  ul_peer, ul_sent, ul_got, ul_backlog, ul_fdtab, ul_connect_state,
  ul_client_fd, ul_acc, ul_new, ul_upd, ul_want, ul_pin, ul_head, ul_out,
  ul_file, ul_calm, ul_raced,
  cl_up, cl_conn, cl_recv, cl_send, cl_ctrl, cl_mutex_audio, cl_size, cl_wire,
  cl_recv_buf, cl_sent, cl_handled, cl_named, cl_mixed,
  mi_key, mi_volume, mi_micsta, mi_todo, mi_jobs, mi_mixer, mi_asked,
  mi_racing,
  ha_main, ha_uart, ha_wire, ha_chunk, ha_state_link, ha_stat_pair, ha_last,
  ha_lost,
  hv_down, hv_uplink, hv_engine, hv_pcm,
  de_main, de_at, de_threads, de_client, de_data,
  fe_main, fe_held, fe_engine, fe_left, fe_queued, fe_begun,
  sp_input, sp_ilen, sp_i, sp_output, sp_split

voip == <<vo_up, vo_pcm, vo_phone, vo_peer, vo_backlog, vo_fdtab, vo_srv,
          vo_client_fd, vo_work, vo_fd, vo_pin, vo_mutex_audio, vo_broken>>
aec == <<ae_up, ae_peer, ae_backlog, ae_srv, ae_client_fd, ae_work, ae_fd,
         ae_mutex_audio, ae_broken, ae_recv_buf, ae_into, ae_holds,
         ae_global_fd, ae_fespa, ae_send_buf, ae_engine, ae_heard>>
link == <<ul_peer, ul_sent, ul_got, ul_backlog, ul_fdtab, ul_connect_state,
          ul_client_fd, ul_acc, ul_new, ul_upd, ul_want, ul_pin, ul_head,
          ul_out, ul_file, ul_calm, ul_raced>>
client == <<cl_up, cl_conn, cl_recv, cl_send, cl_ctrl, cl_mutex_audio,
            cl_size, cl_wire, cl_recv_buf, cl_sent, cl_handled, cl_named,
            cl_mixed>>
mixer == <<mi_key, mi_volume, mi_micsta, mi_todo, mi_jobs, mi_mixer, mi_asked,
           mi_racing>>
hand == <<ha_main, ha_uart, ha_wire, ha_chunk, ha_state_link, ha_stat_pair,
          ha_last, ha_lost>>
voice == <<hv_down, hv_uplink, hv_engine, hv_pcm>>
demo == <<de_main, de_at, de_threads, de_client, de_data>>
fesp == <<fe_main, fe_held, fe_engine, fe_left, fe_queued, fe_begun>>
split == <<sp_input, sp_ilen, sp_i, sp_output, sp_split>>
vars == <<voip, aec, link, client, mixer, hand, voice, demo, fesp, split>>

\* The phone's audio streams.
Voip == INSTANCE VoipAudioProofs WITH
  up <- vo_up, pcm <- vo_pcm, phone <- vo_phone, peer <- vo_peer,
  backlog <- vo_backlog, fdtab <- vo_fdtab, srv <- vo_srv,
  client_fd <- vo_client_fd, work <- vo_work, fd <- vo_fd, pin <- vo_pin,
  mutex_audio <- vo_mutex_audio, broken <- vo_broken, SendConn <- VoipSend,
  RecvConn <- VoipRecv

\* The echo-cancelling audio server.
Aec == INSTANCE AecServerProofs WITH
  up <- ae_up, peer <- ae_peer, backlog <- ae_backlog, srv <- ae_srv,
  client_fd <- ae_client_fd, work <- ae_work, fd <- ae_fd,
  mutex_audio <- ae_mutex_audio, broken <- ae_broken, recv_buf <- ae_recv_buf,
  into <- ae_into, holds <- ae_holds, global_fd <- ae_global_fd,
  fespa <- ae_fespa, send_buf <- ae_send_buf, engine <- ae_engine,
  heard <- ae_heard, SendConn <- AecSend, RecvConn <- AecRecv

\* The connection of the update server.
Link == INSTANCE UpdateLinkProofs WITH
  peer <- ul_peer, sent <- ul_sent, got <- ul_got, backlog <- ul_backlog,
  fdtab <- ul_fdtab, connect_state <- ul_connect_state,
  client_fd <- ul_client_fd, acc <- ul_acc, new <- ul_new, upd <- ul_upd,
  want <- ul_want, pin <- ul_pin, head <- ul_head, out <- ul_out,
  file <- ul_file, calm <- ul_calm, raced <- ul_raced, Conn <- LinkConn,
  Fd <- LinkFd

\* The master's test client.
Client == INSTANCE MasterClient WITH
  up <- cl_up, conn <- cl_conn, recv <- cl_recv, send <- cl_send,
  ctrl <- cl_ctrl, mutex_audio <- cl_mutex_audio, size <- cl_size,
  wire <- cl_wire, recv_buf <- cl_recv_buf, sent <- cl_sent,
  handled <- cl_handled, named <- cl_named, mixed <- cl_mixed,
  MaxWire <- ClientWire, MaxCmd <- ClientCmd

\* The volume and microphone keys.
Mixer == INSTANCE MixerKeys WITH
  key <- mi_key, volume <- mi_volume, micsta <- mi_micsta, todo <- mi_todo,
  jobs <- mi_jobs, mixer <- mi_mixer, asked <- mi_asked, racing <- mi_racing,
  Unset <- None

\* The 2.4G handset's link.
Hand == INSTANCE Handset WITH
  main <- ha_main, uart <- ha_uart, wire <- ha_wire, chunk <- ha_chunk,
  state_link <- ha_state_link, stat_pair <- ha_stat_pair, last <- ha_last,
  lost <- ha_lost, MaxWire <- HandWire, MaxRead <- HandRead

\* The 2.4G handset's voice.
Voice == INSTANCE HandsetVoice WITH
  down <- hv_down, uplink <- hv_uplink, engine <- hv_engine, pcm <- hv_pcm

\* The test of the update server's connections.
Demo == INSTANCE LinkDemo WITH
  main <- de_main, at <- de_at, threads <- de_threads, client <- de_client,
  data <- de_data

\* The vendor engine's sample.
Fesp == INSTANCE FespSample WITH
  main <- fe_main, held <- fe_held, engine <- fe_engine, left <- fe_left,
  queued <- fe_queued, begun <- fe_begun

\* The spreading of samples.
Split == INSTANCE PcmSplitProofs WITH
  input <- sp_input, ilen <- sp_ilen, i <- sp_i, output <- sp_output,
  split <- sp_split, Old <- None, Ends <- FinalNul

\* What each module assumes of its constants.
ASSUME ProgramsAssumption ==
  /\ Program \subseteq {"Voip", "Aec", "Link", "Client", "Mixer",
                  "Hand", "Voice", "Demo", "Fesp", "Split"}
  /\ Voip!VoipAssumption
  /\ Aec!AecAssumption
  /\ Link!UpdateLinkAssumption
  /\ Client!ClientAssumption
  /\ Mixer!MixerAssumption
  /\ Hand!HandsetAssumption
  /\ Fesp!FespAssumption
  /\ Split!PcmAssumption

\* One of the programs is started.
Init ==
  \E p \in Program :
    /\ Voip!Init /\ (p = "Voip" <=> vo_up = "yes")
    /\ Aec!Init /\ (p = "Aec" <=> ae_up = "yes")
    /\ Link!Init /\ (p = "Link" <=> ul_acc # "exit")
    /\ Client!Init /\ (p = "Client" <=> cl_up = "yes")
    /\ Mixer!Init /\ (p = "Mixer" <=> mi_key # "off")
    /\ Hand!Init /\ (p = "Hand" <=> ha_main # "off")
    /\ Voice!Init /\ (p = "Voice" <=> hv_down # "none")
    /\ Demo!Init /\ (p = "Demo" <=> de_main # "off")
    /\ Fesp!Init /\ (p = "Fesp" <=> fe_main # "off")
    /\ Split!Init /\ (p = "Split" <=> sp_split # "uncalled")

VoipStep ==
  Voip!Next /\ UNCHANGED <<aec, link, client, mixer, hand, voice, demo, fesp, split>>
AecStep ==
  Aec!Next /\ UNCHANGED <<voip, link, client, mixer, hand, voice, demo, fesp, split>>
LinkStep ==
  Link!Next /\ UNCHANGED <<voip, aec, client, mixer, hand, voice, demo, fesp, split>>
ClientStep ==
  Client!Next /\ UNCHANGED <<voip, aec, link, mixer, hand, voice, demo, fesp, split>>
MixerStep ==
  Mixer!Next /\ UNCHANGED <<voip, aec, link, client, hand, voice, demo, fesp, split>>
HandStep ==
  Hand!Next /\ UNCHANGED <<voip, aec, link, client, mixer, voice, demo, fesp, split>>
VoiceStep ==
  Voice!Next /\ UNCHANGED <<voip, aec, link, client, mixer, hand, demo, fesp, split>>
DemoStep ==
  Demo!Next /\ UNCHANGED <<voip, aec, link, client, mixer, hand, voice, fesp, split>>
FespStep ==
  Fesp!Next /\ UNCHANGED <<voip, aec, link, client, mixer, hand, voice, demo, split>>
SplitStep ==
  Split!Next /\ UNCHANGED <<voip, aec, link, client, mixer, hand, voice, demo, fesp>>

Next == VoipStep \/ AecStep \/ LinkStep \/ ClientStep \/ MixerStep
        \/ HandStep \/ VoiceStep \/ DemoStep \/ FespStep \/ SplitStep

Spec == Init /\ [][Next]_vars

\* The threads are scheduled as their modules say.
FairServers == Spec /\ Voip!Fairness /\ Link!Fairness
FairOthers  == Spec /\ Aec!Fairness /\ Client!Fairness /\ Voice!Fairness
                    /\ Demo!Fairness

-----------------------------------------------------------------------------
(* Properties, each stated and explained in the program's module *)

\* No descriptor of the phone's audio servers is lost or closed by the other
\* server, no worker strays while its own connection is open, and two numbers
\* are enough for the two servers (voip.c:160, 179, 249, 262).
VoipInv == Voip!Inv /\ Voip!NumbersSuffice

\* The PCM devices of the phone and of the echo-cancelling server have one
\* user at a time, unless a starting server initialised the mutex in use
\* (voip.c:205, 388, 444; algotest dz_voip.c:75, 151, 561, 633).
PcmExclusive == Voip!PcmExclusive /\ Aec!PcmExclusive

\* A lone client of the echo-cancelling server plays its own fresh sound, and
\* the engine's thread finds what it needs (algotest dz_voip.c:558-584, 709-726).
AecInv == Aec!Inv

\* The update server's two threads leave no client stranded and no file closed
\* under its writer, unless a hand-over met a tear-down
\* (update_server.c:59-76, 153-161).
LinkInv == Link!Inv

\* What is written to the archive is in the order in which it was sent
\* (update_process.c:906-963).
FileOrder == Link!FileOrder

\* The master's client takes each command once and keeps its PCM devices to
\* one thread (dz_voip_client.c:249-338, 380-425).
ClientInv == Client!ClientInv

\* With no command running the mixer is as the program believes, unless keys
\* came too fast (key.c:27-85).
MixerInv == Mixer!MixerInv

\* state_link follows the dongle's reports (dzvoip events.c:192-223).
HandsetInv == Hand!HandsetInv

\* The handset's threads use open devices only (dzvoip dz_voip.c:139-253).
VoiceInv == Voice!VoiceInv

\* The vendor's sample gives back what it acquires and outlives its engine's
\* thread (test_fesp.c:79-252).
FespInv == Fesp!FespInv

\* One channel at 16 kHz is spread over two at 48 kHz, within bounds
\* (pcm_s16le_split.c:35-56).
SplitInv == Split!SplitInv

\* Every audio client of the phone gets a worker, or the phone exits.
VoipServed == Voip!Served

\* No call outlives a client of the phone's sending port (voip.c:160, 405).
SendDooms == Voip!SendDooms

\* A client of the echo-cancelling server hears something unless overtaken.
Heard == Aec!Heard

\* A client of the update server that sends is read from
\* (update_server.c:45-89).
UpdateHeard == Link!Heard

\* The reception of an archive ends (update_process.c:906-964).
TransferEnds == Link!TransferEnds

\* The master's client ends when the phone closes (dz_voip_client.c:318-338).
Ends == Client!Ends

\* The handset's devices come back after an overrun (dzvoip dz_voip.c:157-239).
Recovers == Voice!Recovers

\* What a client of the test of connections sends is read, unless main() is
\* held up (tcptest/main.c:60-176).
Turns == Demo!Turns

=============================================================================
