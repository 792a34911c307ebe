------------------------------- MODULE Upload --------------------------------
(* Uploads (common/CommonServer.cpp, OnReceived): SENDFILENAME opens a file *)
(* for a client, SENDFILE appends a block or, empty, ends the upload,       *)
(* SENDFILE_CANCEL raises a flag that the next SENDFILE acts upon.  Each    *)
(* client has a CCommonServer of its own, which handles one request at a    *)
(* time and outlives its connection; the file system is what they share,    *)
(* call by call.  A FILE has a buffer that fwrite may leave blocks in.      *)
EXTENDS Naturals, Sequences, FiniteSets

CONSTANTS Client, Path,
          MaxUploads,  \* bound: SENDFILENAME requests of all clients
          MaxBlocks,   \* bound: blocks of an upload
          WriteFails,  \* whether the disk may be full
          MaxKept      \* bound: uploads for which a remove may fail

ASSUME UploadAssumption == /\ MaxUploads \in Nat /\ MaxBlocks \in Nat
                           /\ WriteFails \in BOOLEAN /\ MaxKept \in Nat
                           /\ "none" \notin Path

Up    == 1..MaxUploads
Block == Up \X (1..MaxBlocks)

VARIABLES at,       \* where the client's handler is; "idle" between requests
          fp,       \* m_fpSendFile: the file it writes, or 0 (NULL)
          cancel,   \* m_bIsSendFileCancel
          buffer,   \* blocks in the buffer of that FILE
          current,  \* the client's last upload (its path: m_pSendFilePath), or 0
          made,     \* the directory the paths lie in exists
          names,    \* the file each path names, or 0
          files,    \* contents; a file is named after the upload that creates it
          up        \* the uploads; but for "path", history

serverVars == <<at, fp, cancel, buffer, current>>
vars == <<serverVars, made, names, files, up>>

(* blocks handed to fwrite; how the upload ended; whether the path then     *)
(* named exactly these blocks, and nobody else was busy with the path;      *)
(* whether another client changed what the path names in between, a write   *)
(* did not reach the disk, or a remove of the upload left the file there.   *)
Unused == [path |-> "none", blocks |-> 0, end |-> "none", whole |-> FALSE,
           alone |-> FALSE, touched |-> FALSE, lost |-> FALSE, kept |-> FALSE]

Init == /\ at = [c \in Client |-> "idle"]
        /\ fp = [c \in Client |-> 0]
        /\ cancel = [c \in Client |-> FALSE]
        /\ buffer = [c \in Client |-> <<>>]
        /\ current = [c \in Client |-> 0]
        /\ made \in BOOLEAN
        /\ names = [p \in Path |-> 0]
        /\ files = [u \in Up |-> <<>>]
        /\ up = [u \in Up |-> Unused]

Begun == Cardinality({u \in Up : up[u].path # "none"})
Mine(c) == up[current[c]].path
Busy(c) == at[c] # "idle" \/ fp[c] # 0

Goes(c, place) == at' = [at EXCEPT ![c] = place]

(* The uploads of other clients that client c disturbs when it changes what *)
(* its path names.                                                          *)
Disturbed(c) ==
    {current[d] : d \in {d \in Client \ {c} :
        /\ Busy(d) /\ at[d] \notin {"dir", "mkdir", "remove"}
        /\ Mine(d) = Mine(c)}}

Names(c, f) ==
    /\ names' = [names EXCEPT ![Mine(c)] = f]
    /\ up' = [u \in Up |-> [up[u] EXCEPT !.touched = @ \/ u \in Disturbed(c)]]

-----------------------------------------------------------------------------
(* MSG_SENDFILENAME.                                                        *)

(* fclose writes what is in the buffer; if that fails nobody looks.         *)
Reaches(b) == IF WriteFails THEN 0..Len(b) ELSE {Len(b)}
Flush(c, b, n) ==
    files' = IF fp[c] = 0 THEN files
             ELSE [files EXCEPT ![fp[c]] = @ \o SubSeq(b, 1, n)]

(* The last file is closed if it still is open: its upload is not ended. *)
SendFileName(c, p) ==
    /\ at[c] = "idle"
    /\ Begun < MaxUploads
    /\ \E n \in Reaches(buffer[c]) : Flush(c, buffer[c], n)
    /\ fp' = [fp EXCEPT ![c] = 0]
    /\ buffer' = [buffer EXCEPT ![c] = <<>>]
    /\ cancel' = [cancel EXCEPT ![c] = FALSE]
    /\ current' = [current EXCEPT ![c] = Begun + 1]
    /\ up' = [up EXCEPT ![Begun + 1].path = p]
    /\ Goes(c, "dir")
    /\ UNCHANGED <<made, names>>

Refused(c) == Goes(c, "idle") /\ up' = [up EXCEPT ![current[c]].end = "refused"]

(* CreateDir: access, and mkdir when there is no directory.  It fails also  *)
(* when another client makes the directory in between.                      *)
Access(c) ==
    /\ at[c] = "dir"
    /\ Goes(c, IF made THEN "remove" ELSE "mkdir")
    /\ UNCHANGED <<fp, cancel, buffer, current, made, names, files, up>>

MkDir(c) ==
    /\ at[c] = "mkdir"
    /\ \/ Refused(c) /\ UNCHANGED made
       \/ ~made /\ made' = TRUE /\ Goes(c, "remove") /\ UNCHANGED up
    /\ UNCHANGED <<fp, cancel, buffer, current, names, files>>

(* remove: the handlers do not look at what it returns. *)
Kept == Cardinality({u \in Up : up[u].kept})
RemoveFailed(c) ==
    /\ names[Mine(c)] # 0 /\ (up[current[c]].kept \/ Kept < MaxKept)
    /\ up' = [up EXCEPT ![current[c]].kept = TRUE]
    /\ UNCHANGED names
RemoveFile(c) == Names(c, 0) \/ RemoveFailed(c)

RemoveOld(c) ==
    /\ at[c] = "remove"
    /\ RemoveFile(c)
    /\ Goes(c, "open")
    /\ UNCHANGED <<fp, cancel, buffer, current, made, files>>

(* fopen(path, "a"): a new file, or the one that was not removed or that    *)
(* somebody created meanwhile, to which the upload then appends.            *)
Open(c) ==
    /\ at[c] = "open"
    /\ \/ /\ fp' = [fp EXCEPT ![c] = IF names[Mine(c)] = 0 THEN current[c]
                                     ELSE names[Mine(c)]]
          /\ Names(c, fp'[c])
          /\ Goes(c, "idle")
       \/ Refused(c) /\ UNCHANGED <<fp, names>>
    /\ UNCHANGED <<cancel, buffer, current, made, files>>

-----------------------------------------------------------------------------
(* MSG_SENDFILE while m_fpSendFile is not NULL (otherwise it only prints),  *)
(* and MSG_SENDFILE_CANCEL.                                                 *)

Ready(c) == at[c] = "idle" /\ fp[c] # 0

(* A short write makes the server cancel the upload: the FILE is closed and *)
(* the path removed.                                                        *)
WriteShort(c, b) ==
    /\ WriteFails
    /\ \E n \in 0..Len(b) - 1 : Flush(c, b, n)
    /\ fp' = [fp EXCEPT ![c] = 0]
    /\ buffer' = [buffer EXCEPT ![c] = <<>>]
    /\ Goes(c, "unlink")

(* Bug seeded for the runs: a short write is not noticed. *)
SendFileUnchecked(c) ==
    /\ Ready(c) /\ ~cancel[c]
    /\ up[current[c]].blocks < MaxBlocks
    /\ LET k == up[current[c]].blocks + 1
           b == Append(buffer[c], <<current[c], k>>)
       IN /\ \/ buffer' = [buffer EXCEPT ![c] = b] /\ UNCHANGED files
             \/ buffer' = [buffer EXCEPT ![c] = <<>>] /\ \E n \in Reaches(b) : Flush(c, b, n)
          /\ up' = [up EXCEPT ![current[c]].blocks = k]
    /\ UNCHANGED <<at, fp, cancel, current, made, names>>

SendFile(c) ==
    /\ Ready(c) /\ ~cancel[c]
    /\ up[current[c]].blocks < MaxBlocks
    /\ LET k == up[current[c]].blocks + 1
           b == Append(buffer[c], <<current[c], k>>)
       IN \/ /\ \/ buffer' = [buffer EXCEPT ![c] = b] /\ UNCHANGED files
                \/ buffer' = [buffer EXCEPT ![c] = <<>>] /\ Flush(c, b, Len(b))
             /\ up' = [up EXCEPT ![current[c]].blocks = k]
             /\ UNCHANGED <<at, fp>>
          \/ /\ WriteShort(c, b)
             /\ up' = [up EXCEPT ![current[c]].blocks = k, ![current[c]].end = "failed"]
    /\ UNCHANGED <<cancel, current, made, names>>

Whole(c) ==
    /\ names[Mine(c)] = fp[c]
    /\ files'[fp[c]] = [k \in 1..up[current[c]].blocks |-> <<current[c], k>>]

Alone(c) == \A d \in Client \ {c} : Busy(d) => Mine(d) # Mine(c)

(* Bug seeded for the runs: the pointer to the closed FILE is kept. *)
EndKeepsFile(c) ==
    /\ Ready(c) /\ ~cancel[c]
    /\ \E n \in Reaches(buffer[c]) :
         /\ Flush(c, buffer[c], n)
         /\ up' = [up EXCEPT ![current[c]].end = "finished",
                     ![current[c]].whole = Whole(c), ![current[c]].alone = Alone(c),
                     ![current[c]].lost = n < Len(buffer[c])]
    /\ buffer' = [buffer EXCEPT ![c] = <<>>]
    /\ UNCHANGED <<at, fp, cancel, current, made, names>>

(* The empty block. *)
SendFileEnd(c) ==
    /\ Ready(c) /\ ~cancel[c]
    /\ \E n \in Reaches(buffer[c]) :
         /\ Flush(c, buffer[c], n)
         /\ up' = [up EXCEPT ![current[c]].end = "finished",
                     ![current[c]].whole = Whole(c), ![current[c]].alone = Alone(c),
                     ![current[c]].lost = n < Len(buffer[c])]
    /\ fp' = [fp EXCEPT ![c] = 0]
    /\ buffer' = [buffer EXCEPT ![c] = <<>>]
    /\ UNCHANGED <<at, cancel, current, made, names>>

(* Bug seeded for the runs: the file is closed but not removed. *)
CancelledNotRemoved(c) ==
    /\ Ready(c) /\ cancel[c]
    /\ \E n \in Reaches(buffer[c]) : Flush(c, buffer[c], n)
    /\ fp' = [fp EXCEPT ![c] = 0]
    /\ buffer' = [buffer EXCEPT ![c] = <<>>]
    /\ up' = [up EXCEPT ![current[c]].end = "cancelled"]
    /\ UNCHANGED <<at, cancel, current, made, names>>

(* Any block after a cancel. *)
SendFileCancelled(c) ==
    /\ Ready(c) /\ cancel[c]
    /\ \E n \in Reaches(buffer[c]) : Flush(c, buffer[c], n)
    /\ fp' = [fp EXCEPT ![c] = 0]
    /\ buffer' = [buffer EXCEPT ![c] = <<>>]
    /\ up' = [up EXCEPT ![current[c]].end = "cancelled"]
    /\ Goes(c, "unlink")
    /\ UNCHANGED <<cancel, current, made, names>>

(* remove(m_pSendFilePath): whatever the path names by now. *)
Unlink(c) ==
    /\ at[c] = "unlink"
    /\ RemoveFile(c)
    /\ Goes(c, "idle")
    /\ UNCHANGED <<fp, cancel, buffer, current, made, files>>

SendFileCancel(c) ==
    /\ at[c] = "idle" /\ ~cancel[c]
    /\ cancel' = [cancel EXCEPT ![c] = TRUE]
    /\ UNCHANGED <<at, fp, buffer, current, made, names, files, up>>

-----------------------------------------------------------------------------
Next == \E c \in Client :
          \/ \E p \in Path : SendFileName(c, p)
          \/ Access(c) \/ MkDir(c) \/ RemoveOld(c) \/ Open(c)
          \/ SendFile(c) \/ SendFileEnd(c) \/ SendFileCancelled(c) \/ Unlink(c)
          \/ SendFileCancel(c)

Spec == Init /\ [][Next]_vars

-----------------------------------------------------------------------------
(* Types; a file holds blocks of the uploads. *)
UploadRecord == [path : Path \cup {"none"}, blocks : 0..MaxBlocks,
                 end : {"none", "refused", "failed", "finished", "cancelled"},
                 whole : BOOLEAN, alone : BOOLEAN, touched : BOOLEAN, lost : BOOLEAN,
                 kept : BOOLEAN]
TypeOK ==
    /\ at \in [Client -> {"idle", "dir", "mkdir", "remove", "open", "unlink"}]
    /\ fp \in [Client -> 0..MaxUploads] /\ current \in [Client -> 0..MaxUploads]
    /\ cancel \in [Client -> BOOLEAN] /\ made \in BOOLEAN
    /\ buffer \in [Client -> Seq(Block)] /\ files \in [Up -> Seq(Block)]
    /\ names \in [Path -> 0..MaxUploads]
    /\ up \in [Up -> UploadRecord]

(* When an upload ends, its path names a file with exactly its blocks, in   *)
(* order, whatever the path named before and whatever other clients do with *)
(* files they opened earlier, unless another client changed what the path   *)
(* names in the meantime, the last write of fclose failed unnoticed, or the *)
(* file that was there could not be removed (CommonServer.cpp:1159).        *)
FinishedIsWhole ==
    \A u \in Up : (/\ up[u].end = "finished"
                   /\ ~up[u].touched /\ ~up[u].lost /\ ~up[u].kept) => up[u].whole

(* Once a cancelled or failed upload has been dealt with no path names the  *)
(* file it created, also when another client wrote to the same path, unless *)
(* a remove failed for it (CommonServer.cpp:1055, 1073).                    *)
CancelledIsRemoved ==
    \A u \in Up :
       up[u].end \in {"cancelled", "failed"} /\ ~up[u].kept =>
          \/ \E c \in Client : current[c] = u /\ at[c] = "unlink"
          \/ \A p \in Path : names[p] # u

(* A finished file stays as it is until a new upload of its path removes    *)
(* it: no block and no cancel that is still to be acted upon, of its own    *)
(* client or of another, appends to it or removes it, unless that other     *)
(* client had been busy with the path when the upload ended, or found that  *)
(* it could not remove the file.                                            *)
Replaces(c, p) == Mine(c) = p /\ (at[c] = "remove" \/ up[current[c]].kept)

FinishedStays ==
    [][\A p \in Path : \A u \in Up :
          /\ names[p] = u /\ (names'[p] # u \/ files'[u] # files[u])
          /\ up[u].end = "finished" /\ up[u].alone
          => \E c \in Client : current[c] # 0 /\ Replaces(c, p)]_vars
=============================================================================
