------------------------------ MODULE FileTable ------------------------------
(***************************************************************************)
(* The kernel's table of open files: fs/file.c with the path parser of     *)
(* fs/pparser.c.  A path is [format, drive, file]: whether it has the form *)
(* d:/ or @:/ with a first part, the drive (Primary for @) and the file    *)
(* that the rest names.  A table is a function from descriptors to the     *)
(* file each one has open (the descriptor's private data), or NoFile.      *)
(***************************************************************************)
EXTENDS Integers, Sequences

CONSTANTS
    MaxFd,        \* VIOS_MAX_FILE_DESCRIPTORS
    Disks,        \* the disks: [filesystem, files], the first one has number 0
    PrimaryDisk,  \* primary_fs_disk, as a drive number, or NoDrive
    Primary,      \* the drive character @
    NoDrive, NoFile

ASSUME FileAssumption == MaxFd \in Nat \ {0}

NoFiles == [fd \in 1 .. MaxFd |-> NoFile]

(* pathparser_get_drive_by_path *)
DriveOf(path) == IF path.drive = Primary THEN PrimaryDisk ELSE path.drive

(* pathparser_parse: what it takes for a path. *)
Parses(path) == path.format /\ DriveOf(path) # NoDrive

(* The tests of fopen before it calls the file system: pathparser_parse,   *)
(* disk_get, disk->filesystem and file_get_mode_by_string.                 *)
Accepted(path, mode) ==
    /\ Parses(path)
    /\ DriveOf(path) < Len(Disks)
    /\ Disks[DriveOf(path) + 1].filesystem
    /\ mode \in {"r", "w", "a"}

(* The open of the file system: files are created for writing. *)
Opens(path, mode) ==
    path.file \in Disks[DriveOf(path) + 1].files \/ mode \in {"w", "a"}

FreeFds(t) == {fd \in 1 .. MaxFd : t[fd] = NoFile}

(* file_new_descriptor: the lowest free one. *)
file_new_descriptor(t) == CHOOSE fd \in FreeFds(t) : \A g \in FreeFds(t) : fd <= g

(* fopen, as the set of its outcomes.  Memory may run out for the path, or *)
(* the file system's pointer lie where ISERR takes it for an error: then 0 *)
(* is returned.  A file system that cannot open the file, for want of the  *)
(* file, of room or of memory, returns an error as a pointer, and the      *)
(* error path passes that pointer to close: the kernel stops.  When the    *)
(* table is full the file is closed again.  That the descriptor itself     *)
(* finds no memory, for which the code has no test, is left out.           *)
fopen(t, path, mode) ==
    LET fails   == [fd |-> 0, table |-> t, panic |-> "none"]
        stops   == [fails EXCEPT !.panic = "closed_an_error"]
        fd      == file_new_descriptor(t)
        success == [fd |-> fd, table |-> [t EXCEPT ![fd] = path.file], panic |-> "none"]
    IN  {fails} \cup
        (IF Accepted(path, mode) THEN {stops} ELSE {}) \cup
        (IF Accepted(path, mode) /\ Opens(path, mode) /\ FreeFds(t) # {} THEN {success} ELSE {})

(* file_get_descriptor finds one: the last descriptor of the table is      *)
(* handed out but never found again.                                       *)
file_get_descriptor(t, fd) == fd \in 1 .. MaxFd - 1 /\ t[fd] # NoFile

(* fclose; the close of FAT16 always succeeds. *)
fclose(t, fd) == IF file_get_descriptor(t, fd) THEN [t EXCEPT ![fd] = NoFile] ELSE t
=============================================================================
