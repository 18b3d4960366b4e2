--------------------------- MODULE FirmwareUpdate ---------------------------
(***************************************************************************)
(* The firmware update of tcptest/update_process.c, with power cuts.  An   *)
(* archive on the SD card, put there by hand or received over the network, *)
(* is checked and unpacked; its script is run, or, when it holds images,   *)
(* the two configuration files are moved to the card, UPDATE_FLAG is set   *)
(* and the boot loader takes over.  At the first start of the new firmware *)
(* the files are moved back and the flag is cleared.                       *)
(* The caller is not in the repository: a start is taken to call           *)
(* Firmware_update_first_start, Start_Update_SD_file and then              *)
(* Update_Process_Thread.  The power may fail between any two steps; what  *)
(* a command wrote is on its medium when the command returns.              *)
(***************************************************************************)
EXTENDS Integers

CONSTANTS
  Version,       \* the archives, named by the version in their file name
  FirstVersion,  \* the version installed at first
  Failures,      \* what may fail: a subset of FailureKinds
  MaxCuts,       \* bound: power cuts
  NoArchive

\* "mv" a move of a configuration file, "env" access to the environment,
\* "card" finding the SD card, "script" tar or the archive's script.
FailureKinds == {"mv", "env", "card", "script"}

ASSUME UpdateAssumption ==
  /\ \A v \in Version \cup {FirstVersion} : v \in Nat /\ v < 65536
  /\ Failures \subseteq FailureKinds /\ MaxCuts \in Nat
  /\ NoArchive \notin Version

VARIABLES
  pc,          \* control point of the device
  cur, ver_status,  \* archive in hand, and what check_version says of it
  k,           \* progress of the two mv commands (see Move)
  root, card,  \* configuration files on the flash and on the card
  tar,         \* what is on the card under each archive's name
  sums,        \* the content whose sum is in md5.txt, if any
  dirs,        \* unpacked archives on the card
  update_flag, firmware_ver,   \* the environment
  kind,        \* what each archive holds
  cuts

hand  == <<cur, ver_status>>
conf  == <<root, card>>
files == <<tar, sums, dirs>>
env   == <<update_flag, firmware_ver>>
vars  == <<pc, hand, k, conf, files, env, kind, cuts>>

Config == 1..2   \* system.ini, access_auth
\* An archive with update.sh; with images for the boot loader; with neither, or
\* for another model; without the directory its name promises.
Kinds == {"script", "images", "refused", "nodir"}
\* No file, a complete one, an incomplete or corrupted one.
Content == {"none", "good", "bad"}

Pc == {"off", "boot", "first", "clean", "restore", "clear", "search", "verify",
       "thread", "recv", "sum", "check", "purge", "unpack", "look", "script",
       "save", "finish", "refuse", "discard", "backup", "arm", "drop", "dead"}

HasArchive == {"verify", "recv", "sum", "check", "purge", "unpack", "look", "script",
               "save", "finish", "refuse", "discard", "backup", "arm", "drop"}

Control ==
  /\ pc \in Pc
  /\ cur \in Version \cup {NoArchive} /\ ver_status \in -1..2
  /\ k \in 1..4
  /\ cuts \in 0..MaxCuts
  /\ pc \in HasArchive => cur \in Version

Media ==
  /\ root \in SUBSET Config /\ card \in SUBSET Config
  /\ tar \in [Version -> Content]
  /\ sums \in SUBSET (Version \X Content)
  /\ dirs \in SUBSET Version
  /\ update_flag \in {"0", "1"}
  /\ firmware_ver \in Version \cup {FirstVersion}
  /\ kind \in [Version -> Kinds]

TypeOK == Control /\ Media

Init ==
  /\ pc = "off" /\ cur = NoArchive /\ ver_status = 0 /\ k = 1
  /\ root = Config /\ card = {}
  /\ tar = [v \in Version |-> "none"] /\ sums = {} /\ dirs = {}
  /\ update_flag = "0" /\ firmware_ver = FirstVersion
  /\ kind \in [Version -> Kinds]
  /\ cuts = 0

-----------------------------------------------------------------------------
(* Steps and commands *)

May(failure) == failure \in Failures

Goto(a, b) == pc = a /\ pc' = b

Without(v) == [tar EXCEPT ![v] = "none"]

\* rm of the archive in hand, and of nothing else.
RmTar == tar' = Without(cur) /\ UNCHANGED <<sums, dirs>>

\* The two mv commands, file 1 then file 2, are four steps: k is 1 or 3 when a
\* file is to be copied, 2 or 4 when the copied one is to be unlinked.
FileOf(n) == IF n <= 2 THEN 1 ELSE 2
Copying   == k \in {1, 3}

Advance(here, there, n) ==
  IF n <= 4 THEN k' = n /\ Goto(here, here) ELSE k' = 1 /\ Goto(here, there)

\* Mutant: a copy that fails is followed by the removal all the same.
CopyUnchecked(here, there, from, to) ==
  /\ \/ FileOf(k) \in from /\ to' = to \cup {FileOf(k)}
     \/ (FileOf(k) \notin from \/ May("mv")) /\ UNCHANGED to
  /\ Advance(here, there, k + 1)

Copy(here, there, from, to) ==
  \/ /\ FileOf(k) \in from
     /\ to' = to \cup {FileOf(k)} /\ Advance(here, there, k + 1)
  \/ \* mv fails; the program takes no notice
     /\ FileOf(k) \notin from \/ May("mv")
     /\ UNCHANGED to /\ Advance(here, there, k + 2)

Unlink(here, there, from) ==
  /\ from' = from \ {FileOf(k)} \/ (May("mv") /\ UNCHANGED from)
  /\ Advance(here, there, k + 1)

Move(here, there, from, to) ==
  /\ \/ Copying /\ Copy(here, there, from, to) /\ UNCHANGED from
     \/ ~Copying /\ Unlink(here, there, from) /\ UNCHANGED to
  /\ UNCHANGED <<hand, files, env, kind, cuts>>

\* The versions are compared as 16-bit signed numbers; version 0 is installed
\* whatever there is, without being recorded.
Short(v) == IF v < 32768 THEN v ELSE v - 65536

\* Mutant: only the installed version itself is refused.
CompareOther(v) ==
  IF v = 0 THEN 1 ELSE IF Short(v) = Short(firmware_ver) THEN 0 ELSE 2

Compare(v) ==
  IF v = 0 THEN 1 ELSE IF Short(v) <= Short(firmware_ver) THEN 0 ELSE 2

\* What check_version may return: -1 when the environment cannot be read.
check_version(v) == {Compare(v)} \cup (IF May("env") THEN {-1} ELSE {})

-----------------------------------------------------------------------------
(* Power and the boot loader *)

PowerOn ==
  /\ Goto("off", "boot")
  /\ UNCHANGED <<hand, k, conf, files, env, kind, cuts>>

\* With the flag set and images on the card the boot loader writes them; a
\* root file system among them replaces the flash's files.
BootLoader ==
  /\ Goto("boot", "first")
  /\ \/ UNCHANGED root
     \/ update_flag = "1" /\ (\E v \in dirs : kind[v] = "images") /\ root' = {}
  /\ UNCHANGED <<hand, k, card, files, env, kind, cuts>>

\* What a command that removes several files may have removed so far.
PartlyRemoved ==
  \/ UNCHANGED files
  \/ pc \in {"clean", "purge"} /\ dirs' \in SUBSET dirs /\ UNCHANGED <<tar, sums>>
  \/ /\ pc \in {"finish", "refuse"} /\ dirs' = dirs \ {cur}
     /\ tar' \in {tar, Without(cur)} /\ UNCHANGED sums
  \/ pc \in {"drop", "discard"} /\ RmTar

PowerCut ==
  /\ pc # "off" /\ pc' = "off"
  /\ cuts' = cuts + 1 /\ cuts' <= MaxCuts
  /\ PartlyRemoved
  /\ cur' = NoArchive /\ ver_status' = 0 /\ k' = 1
  /\ UNCHANGED <<conf, env, kind>>

\* A device whose program has crashed is switched off in the end.
SwitchOff ==
  /\ Goto("dead", "off")
  /\ UNCHANGED <<hand, k, conf, files, env, kind, cuts>>

\* An archive and its md5.txt are put on the card by hand.
Insert(v) ==
  /\ pc = "off"
  /\ tar' = [tar EXCEPT ![v] = "good"] /\ sums' = {<<v, "good">>}
  /\ UNCHANGED <<pc, hand, k, conf, dirs, env, kind, cuts>>

-----------------------------------------------------------------------------
(* Firmware_update_first_start *)

\* Mutant: the unpacked images are not removed first.
FirstStartNoClean ==
  /\ \/ update_flag = "1" /\ Goto("first", "restore")
     \/ update_flag # "1" /\ Goto("first", "search")
  /\ UNCHANGED <<hand, k, conf, files, env, kind, cuts>>

FirstStart ==
  /\ \/ update_flag = "1" /\ Goto("first", "clean")
     \/ update_flag # "1" /\ Goto("first", "search")
     \/ (May("env") \/ May("card")) /\ Goto("first", "search")
  /\ UNCHANGED <<hand, k, conf, files, env, kind, cuts>>

\* Mutant: the flag is cleared before the files are moved back.
FirstCleanClears ==
  /\ Goto("clean", "clear") /\ dirs' = {}
  /\ UNCHANGED <<hand, k, conf, tar, sums, env, kind, cuts>>

FirstClean ==
  /\ Goto("clean", "restore") /\ dirs' = {}
  /\ UNCHANGED <<hand, k, conf, tar, sums, env, kind, cuts>>

FirstRestore == Move("restore", "clear", card, root)

FirstClear ==
  /\ Goto("clear", "search")
  /\ update_flag' = "0" \/ (May("env") /\ UNCHANGED update_flag)
  /\ UNCHANGED <<hand, k, conf, files, firmware_ver, kind, cuts>>

-----------------------------------------------------------------------------
(* Start_Update_SD_file: find an archive and compare it with md5.txt *)

SdNone ==
  /\ Goto("search", "thread")
  /\ \/ May("card") /\ UNCHANGED files
     \/ (\A v \in Version : tar[v] = "none") /\ sums' = {} /\ UNCHANGED <<tar, dirs>>
  /\ UNCHANGED <<hand, k, conf, env, kind, cuts>>

\* check_version's -1 counts as a valid version here.
SdFound(v) ==
  /\ pc = "search" /\ tar[v] # "none"
  /\ cur' = v
  /\ \/ /\ sums = {}
        /\ pc' = "thread" /\ tar' = Without(v) /\ UNCHANGED ver_status
     \/ /\ sums # {}
        /\ ver_status' \in check_version(v)
        /\ \/ ver_status' = 0 /\ pc' = "thread" /\ tar' = Without(v)
           \/ ver_status' # 0 /\ pc' = "verify" /\ UNCHANGED tar
  /\ UNCHANGED <<k, conf, sums, dirs, env, kind, cuts>>

SdVerify ==
  /\ pc = "verify"
  /\ pc' = IF <<cur, tar[cur]>> \in sums THEN "unpack" ELSE "discard"
  /\ UNCHANGED <<hand, k, conf, files, env, kind, cuts>>

-----------------------------------------------------------------------------
(* Update_Process_Thread and Check_update_file: receive an archive *)

\* fopen "w+": from here on the file is there, incomplete.
Upload(v) ==
  /\ Goto("thread", "recv")
  /\ cur' = v /\ tar' = [tar EXCEPT ![v] = "bad"]
  /\ UNCHANGED <<ver_status, k, conf, sums, dirs, env, kind, cuts>>

\* filename is not initialised and strncpy does not terminate it: the data may
\* go to a file of some other name, and the rest of the code finds what was
\* there under the right one.
UploadMisnamed(v) ==
  /\ Goto("thread", "sum") /\ cur' = v
  /\ UNCHANGED <<ver_status, k, conf, files, env, kind, cuts>>

RecvFails ==
  /\ Goto("recv", "thread") /\ RmTar
  /\ UNCHANGED <<hand, k, conf, env, kind, cuts>>

RecvDone ==
  /\ Goto("recv", "sum")
  /\ tar' \in {tar, [tar EXCEPT ![cur] = "good"]}
  /\ UNCHANGED <<hand, k, conf, sums, dirs, env, kind, cuts>>

\* A file under another name: memset(&file_info) clears the parameter and the
\* stack behind it, then file_info is used.
UploadBadName ==
  /\ pc = "thread" /\ pc' \in {"thread", "dead"}
  /\ UNCHANGED <<hand, k, conf, files, env, kind, cuts>>

\* md5sum of the archive, into the md5.txt that the next start reads.
CheckSum ==
  /\ Goto("sum", "check") /\ sums' = {<<cur, tar[cur]>>}
  /\ UNCHANGED <<hand, k, conf, tar, dirs, env, kind, cuts>>

\* The header's sum is that of the good content; with no archive md5.txt is
\* empty and cal_md5, not initialised, may hold anything.
CheckCompare ==
  /\ pc = "check"
  /\ \/ tar[cur] # "good" /\ pc' = "discard" /\ UNCHANGED ver_status
     \/ /\ tar[cur] # "bad"
        /\ ver_status' \in check_version(cur)
        /\ \/ ver_status' = 0  /\ pc' = "discard"
           \/ ver_status' = -1 /\ pc' = "thread"
           \/ ver_status' > 0  /\ pc' = "purge"
  /\ UNCHANGED <<cur, k, conf, files, env, kind, cuts>>

\* Mutant: only md5.txt is removed.
DiscardSum ==
  /\ Goto("discard", "thread") /\ sums' = {} /\ UNCHANGED <<tar, dirs>>
  /\ UNCHANGED <<hand, k, conf, env, kind, cuts>>

\* rm of the archive and md5.txt, the update being over.
Discard ==
  /\ Goto("discard", "thread")
  /\ tar' = Without(cur) /\ sums' = {} /\ UNCHANGED dirs
  /\ UNCHANGED <<hand, k, conf, env, kind, cuts>>

-----------------------------------------------------------------------------
(* Update_process, and the same code at the end of Start_Update_SD_file *)

Purge ==
  /\ Goto("purge", "unpack") /\ dirs' = {}
  /\ UNCHANGED <<hand, k, conf, tar, sums, env, kind, cuts>>

\* The exit status of tar is not looked at.
Unpack ==
  /\ pc = "unpack"
  /\ \/ /\ tar[cur] # "none" /\ pc' = "look"
        /\ dirs' = IF kind[cur] = "nodir" THEN dirs ELSE dirs \cup {cur}
     \/ tar[cur] # "good" /\ pc' = "look" /\ UNCHANGED dirs
     \/ May("script") /\ pc' \in {"look", "thread"} /\ UNCHANGED dirs
  /\ UNCHANGED <<hand, k, conf, tar, sums, env, kind, cuts>>

\* Mutant: the configuration files are not moved.
LookNoBackup ==
  /\ pc = "look" /\ UNCHANGED files
  /\ \/ cur \notin dirs /\ pc' = "thread"
     \/ cur \in dirs /\ kind[cur] = "script" /\ pc' = "script"
     \/ cur \in dirs /\ kind[cur] = "images" /\ pc' = "arm"
  /\ UNCHANGED <<hand, k, conf, env, kind, cuts>>

Look ==
  /\ pc = "look"
  /\ \/ cur \notin dirs /\ pc' = "thread" /\ RmTar
     \/ /\ cur \in dirs /\ UNCHANGED files
        /\ \/ kind[cur] = "script" /\ pc' = "script"
           \/ kind[cur] = "images" /\ pc' = "backup"
           \/ kind[cur] # "script" /\ (kind[cur] = "refused" \/ May("env"))
              /\ pc' = "refuse"
  /\ UNCHANGED <<hand, k, conf, env, kind, cuts>>

Script ==
  /\ Goto("script", "save") \/ (May("script") /\ Goto("script", "thread"))
  /\ UNCHANGED <<hand, k, conf, files, env, kind, cuts>>

SaveVersion ==
  /\ \/ ver_status # 2 /\ Goto("save", "finish") /\ UNCHANGED firmware_ver
     \/ ver_status = 2 /\ Goto("save", "finish") /\ firmware_ver' = cur
     \/ ver_status = 2 /\ May("env") /\ Goto("save", "thread") /\ UNCHANGED firmware_ver
  /\ UNCHANGED <<hand, k, conf, files, update_flag, kind, cuts>>

\* rm -rf of the directory, the archive and md5.txt.
RmAll == tar' = Without(cur) /\ sums' = {} /\ dirs' = dirs \ {cur}

Reboot == cur' = NoArchive /\ ver_status' = 0

Finish ==
  /\ Goto("finish", "off") /\ RmAll /\ Reboot
  /\ UNCHANGED <<k, conf, env, kind, cuts>>

Refuse ==
  /\ Goto("refuse", "thread") /\ RmAll
  /\ UNCHANGED <<hand, k, conf, env, kind, cuts>>

Backup == Move("backup", "arm", root, card)

\* Mutant: the flag is not set.
ArmForgets ==
  /\ Goto("arm", "drop")
  /\ UNCHANGED <<hand, k, conf, files, env, kind, cuts>>

Arm ==
  /\ \/ Goto("arm", "drop") /\ update_flag' = "1"
     \/ May("env") /\ Goto("arm", "thread") /\ UNCHANGED update_flag
  /\ UNCHANGED <<hand, k, conf, files, firmware_ver, kind, cuts>>

\* The directory stays for the boot loader.
Drop ==
  /\ Goto("drop", "off") /\ Reboot
  /\ tar' = Without(cur) /\ sums' = {} /\ UNCHANGED dirs
  /\ UNCHANGED <<k, conf, env, kind, cuts>>

-----------------------------------------------------------------------------
Power  == PowerOn \/ BootLoader
First  == FirstStart \/ FirstClean \/ FirstRestore \/ FirstClear
Sd     == SdNone \/ (\E v \in Version : SdFound(v)) \/ SdVerify
Recv   == RecvFails \/ RecvDone \/ CheckSum \/ CheckCompare \/ Discard
Update == \/ Purge \/ Unpack \/ Look \/ Script \/ SaveVersion
          \/ Finish \/ Refuse \/ Backup \/ Arm \/ Drop
Device == Power \/ First \/ Sd \/ Recv \/ Update \/ SwitchOff
Client == (\E v \in Version : Upload(v) \/ UploadMisnamed(v)) \/ UploadBadName

Next == Device \/ Client \/ PowerCut \/ (\E v \in Version : Insert(v))

Spec == Init /\ [][Next]_vars

\* The device goes on once it has been started and its owner switches it on
\* again; a transfer ends, with the data or with the time limit of recv.
FairSpec == Spec /\ WF_vars(Device)

-----------------------------------------------------------------------------
(* Safety *)

\* No configuration file is ever lost: whatever instant the power fails at, and
\* whatever the boot loader then writes over the flash, each of system.ini and
\* access_auth is on the flash or on the card.
Kept == Config \subseteq root \cup card

\* UPDATE_FLAG is set only when both files are on the card, and cleared only
\* when both are back on the flash and none is left behind.
Handover == [][/\ update_flag = "0" /\ update_flag' = "1" => card = Config
               /\ update_flag = "1" /\ update_flag' = "0" => root = Config /\ card = {}]_vars

\* Whatever fails, a configuration file is lost only to the boot loader, which
\* finds the flag set and images: no move loses one although its result is
\* ignored (update_process.c:172-177, 418-423, 720-725), nor does another step.
LostToBootLoader ==
  [][~(root \cup card \subseteq root' \cup card') =>
       /\ pc = "boot" /\ update_flag = "1"
       /\ \E v \in dirs : kind[v] = "images"]_vars

\* The recorded version goes down only from 8.0.0.0 on, whose 16 bits are a
\* negative number to check_version (update_process.c:87-108), through both
\* ways of receiving an archive, with every kind of failure.
VersionGrows == [][firmware_ver' < firmware_ver => firmware_ver >= 32768]_vars

\* No archive is unpacked that differs from what its sender summed.
OnlyVerified == pc = "unpack" => tar[cur] # "bad"

-----------------------------------------------------------------------------
(* The inductive invariant, with moves, environment and card that do not fail *)

Reliable == Failures \cap {"mv", "env", "card"} = {}

FlagPcs == {"drop", "off", "boot", "first", "clean", "restore", "clear"}

\* Between setting the flag and clearing it the device does nothing but hand
\* over and restore, and images lie on the card only beside both files.
Flagged ==
  /\ update_flag = "1" => pc \in FlagPcs
  /\ update_flag = "1" /\ dirs # {} => card = Config
  /\ pc \in {"drop", "clean", "restore", "clear"} => update_flag = "1"
  /\ pc \in {"restore", "clear"} => dirs = {}

\* How far a move has got, file by file.
Moved(from, to, n) ==
  /\ n >= 2 => 1 \in to
  /\ n >= 3 => 1 \notin from
  /\ n >= 4 => 2 \in to
  /\ n >= 5 => 2 \notin from

Progress ==
  /\ pc \notin {"restore", "backup"} => k = 1
  /\ pc = "restore" => Moved(card, root, k)
  /\ pc = "clear"   => Moved(card, root, 5)
  /\ pc = "backup"  => Moved(root, card, k)
  /\ pc = "arm"     => Moved(root, card, 5)

Inv == TypeOK /\ Kept /\ Flagged /\ Progress

-----------------------------------------------------------------------------
(* Liveness, when nothing fails but the power *)

\* A configuration file moved to the card comes back to the flash, however often
\* the power fails on the way.
Restored == \A f \in Config : f \in card ~> (f \in root /\ f \notin card)

\* No archive stays on the card: it is installed or removed.
Consumed == \A v \in Version : tar[v] # "none" ~> tar[v] = "none"
=============================================================================
