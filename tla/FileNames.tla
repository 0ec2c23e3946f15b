---------------------------- MODULE FileNames ----------------------------
(***************************************************************************)
(* GetOriginalFileName: for every process, the path of its image, then the *)
(* original file name of its version data (class CFileVersion).  Every     *)
(* call into Windows can fail.  A device name is a sequence of characters, *)
(* the path of an image a device name, a separator and the rest, which is  *)
(* left out.  Names are taken up to case, as _tcsnicmp takes them.         *)
(***************************************************************************)
EXTENDS Naturals, SequencesExt

CONSTANTS
  Processes,   (* how many processes the snapshot holds                    *)
  Drives,      (* GetLogicalDriveStrings, A: and B: not among them         *)
  DeviceOf,    (* drive -> QueryDosDevice                                  *)
  Volumes      (* the devices images can be on, without a drive or with    *)

Separator == "\\"

(* No device name ends in a separator.                                     *)
ASSUME FileAssumption ==
  /\ Processes \in Nat
  /\ DeviceOf \in Seq(Seq(STRING)) /\ Drives = Len(DeviceOf)
  /\ Volumes \subseteq Seq(STRING)
  /\ \A n \in 1 .. Drives :
       DeviceOf[n] # << >> => DeviceOf[n][Len(DeviceOf[n])] # Separator
NoDrive == 0      (* the search was given up                               *)

VARIABLES
  file_at,     (* the step of main and of the functions it calls           *)
  left,        (* processes left in the snapshot                           *)
  held,        (* "snapshot", "process", "version data"                    *)
  device,      (* of the image of the process                              *)
  drive,       (* i in DosPathToNtPath: the drive found, or one more       *)
  path         (* szProcessName: "empty", "drive", "device"                *)

files == <<file_at, left, held, device, drive, path>>

FilesInit ==
  /\ file_at = "start" /\ left = Processes /\ held = {}
  /\ device = << >> /\ drive = NoDrive /\ path = "empty"

GoesTo(step) == file_at' = step

(* Slip: a path that is not found leaves the process open.                 *)
FullPathDoneOpen ==
  GoesTo("open") /\ held' = IF path' = "empty" THEN held ELSE held \ {"process"}
(* GetProcessFullPath returns; it has closed the process by then.          *)
FullPathDone == GoesTo("open") /\ held' = held \ {"process"}

CreateToolhelp32Snapshot ==
  /\ file_at = "start"
  /\ \/ GoesTo("next") /\ held' = {"snapshot"}
     \/ GoesTo("ended") /\ UNCHANGED held
  /\ UNCHANGED <<left, device, drive, path>>

Process32Next ==
  /\ file_at = "next"
  /\ IF left = 0 THEN GoesTo("ended") /\ UNCHANGED <<left, path>>
                 ELSE GoesTo("OpenProcess") /\ left' = left - 1 /\ path' = "empty"
  /\ UNCHANGED <<held, device, drive>>

OpenProcess ==
  /\ file_at = "OpenProcess"
  /\ \/ GoesTo("image") /\ held' = held \cup {"process"}
     \/ GoesTo("open") /\ UNCHANGED held
  /\ UNCHANGED <<left, device, drive, path>>

GetProcessImageFileName ==
  /\ file_at = "image"
  /\ \/ /\ device' \in Volumes
        /\ drive' = 1 /\ GoesTo("GetLogicalDriveStrings")
        /\ UNCHANGED <<held, path>>
     \/ UNCHANGED <<device, drive, path>> /\ FullPathDone
  /\ UNCHANGED left

(* Slip: the last character of the device name is not compared.            *)
MatchesButOne(d) == IsPrefix(Front(d), Append(device, Separator))
(* _tcsnicmp(pszDosPath, szDevName, cchDevName) == 0                       *)
Matches(d) == IsPrefix(d, Append(device, Separator))

(* DosPathToNtPath: the drives, or the path as it is.                      *)
GetLogicalDriveStrings ==
  /\ file_at = "GetLogicalDriveStrings"
  /\ \/ GoesTo("drives") /\ UNCHANGED <<held, drive, path>>
     \/ drive' = NoDrive /\ path' = "device" /\ FullPathDone
  /\ UNCHANGED <<left, device>>

(* One drive of the loop, and its end.                                     *)
TryDrive ==
  /\ file_at = "drives"
  /\ \/ /\ drive <= Drives /\ Matches(DeviceOf[drive])
        /\ path' = "drive" /\ FullPathDone /\ UNCHANGED drive
     \/ /\ drive <= Drives /\ ~Matches(DeviceOf[drive])
        /\ drive' = drive + 1 /\ UNCHANGED <<file_at, held, path>>
     \/ /\ drive <= Drives                 (* QueryDosDevice fails        *)
        /\ drive' = NoDrive /\ UNCHANGED path /\ FullPathDone
     \/ /\ drive > Drives
        /\ path' = "device" /\ FullPathDone /\ UNCHANGED drive
  /\ UNCHANGED <<left, device>>

(* Open, GetOriginalFilename and the destructor.  An empty path is opened  *)
(* too, against the assertion at the beginning of Open, and found to have  *)
(* no version data.                                                        *)
GetFileVersionInfo ==
  /\ file_at = "open"
  /\ \/ path # "empty" /\ held' = held \cup {"version data"} /\ GoesTo("data")
     \/ GoesTo("next") /\ UNCHANGED held
  /\ UNCHANGED <<left, device, drive, path>>

(* Close, after a failure or at the end of the scope.                      *)
Close ==
  /\ file_at = "data"
  /\ held' = held \ {"version data"}
  /\ GoesTo("next")
  /\ UNCHANGED <<left, device, drive, path>>

FilesStep ==
  \/ CreateToolhelp32Snapshot \/ Process32Next \/ OpenProcess \/ GetProcessImageFileName
  \/ GetLogicalDriveStrings \/ TryDrive \/ GetFileVersionInfo \/ Close
FilesEnded == file_at = "ended"
--------------------------------------------------------------------------
(***************************************************************************)
(* OwnDriveUnlessShadowed: unless a call failed, an image whose device has *)
(* a drive letter gets a path on its own drive, or on an earlier drive     *)
(* whose device name is the beginning of its own (HarddiskVolume1 before   *)
(* HarddiskVolume10); and whenever there is such an earlier drive the path *)
(* is not on its own.  An image without a drive letter keeps its device    *)
(* name, unless some drive's device name is the beginning of its own.      *)
(***************************************************************************)
Suits(n) == DeviceOf[n] = device \/ IsStrictPrefix(DeviceOf[n], device)
OwnDriveUnlessShadowed ==
  file_at \in {"open", "data"} /\ drive # NoDrive =>
    /\ path = "drive"  => Suits(drive) /\ \A n \in 1 .. drive - 1 : ~Suits(n)
    /\ path = "device" => \A n \in 1 .. Drives : ~Suits(n)
==========================================================================
