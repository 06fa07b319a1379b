------------------------------- MODULE DirEntry -------------------------------
(***************************************************************************)
(* The buffer of one directory listing (dceCreate, dceWriteEntry,          *)
(* dceAdjust, dceDelete of dircache.c) as its two users drive it: the SMB2 *)
(* listing starts with room for Smb2Size files because it does not know    *)
(* how many will come, the SMB1 listing knows the number and writes        *)
(* exactly as many.  Sizes are counted in smbwrp_fileinfo structures.      *)
(***************************************************************************)
EXTENDS Integers

CONSTANTS
    Smb2Size,       \* first allocation of list_files_smb2 (128)
    MaxFiles        \* bound: files in one directory

ASSUME SizesAssumption == Smb2Size \in Nat /\ Smb2Size >= 2 /\ MaxFiles \in Nat

VARIABLES
    serialized,         \* the build: TRUE when the plugin mutex lets one request
                        \* at a time through (LIBSMB_THREAD_SAFE = 0)
    stage,              \* "none", "filling", "listed"
    cInfos,             \* files stored
    cInfosAllocated,    \* what the entry believes it has room for
    block,              \* room in the memory block aInfos points to; Dangling when freed
    fInvalid,           \* a file was left out
    cFiles,             \* room the listing started with
    toCome,             \* SMB1: files still to be written; SMB2: Unknown
    seen                \* ghost: files the listing was given

entryVars == <<serialized, stage, cInfos, cInfosAllocated, block, fInvalid, cFiles, toCome, seen>>

Dangling == -1
Unknown == -1

EntryInit == /\ serialized \in BOOLEAN
             /\ stage = "none"
             /\ cInfos = 0 /\ cInfosAllocated = 0 /\ block = Dangling
             /\ fInvalid = FALSE
             /\ cFiles = 0 /\ toCome = Unknown /\ seen = 0

\* dceCreate for n files, of which the caller has promised p.
Create(n, p) == /\ stage = "none"
                /\ stage' = "filling"
                /\ cInfos' = 0 /\ cInfosAllocated' = n /\ block' = n
                /\ fInvalid' = FALSE
                /\ cFiles' = n /\ toCome' = p /\ seen' = 0

CreateSmb2 == Create(Smb2Size, Unknown)
CreateSmb1 == \E n \in 0 .. MaxFiles : Create(n, n)

\* dcWriteBegin finds the directory's entry on the list, which takes another
\* request that has listed the same directory in between: dceClear, and the
\* number of files asked for is not looked at.
Reuse == /\ ~serialized
         /\ stage = "listed"
         /\ stage' = "filling"
         /\ cInfos' = 0
         /\ cFiles' = cInfosAllocated
         /\ toCome' \in {Unknown} \cup 0 .. MaxFiles
         /\ seen' = 0
         /\ UNCHANGED <<cInfosAllocated, block, fInvalid>>

-------------------------------------------------------------------------------
(* dceWriteEntry.                                                          *)

\* "50% increase of the buffer, but at least 1 more."
Grown(n) == n + n \div 2 + 1

NextFile == /\ stage = "filling" /\ seen < MaxFiles /\ toCome # 0
            /\ seen' = seen + 1
            /\ toCome' = IF toCome = Unknown THEN Unknown ELSE toCome - 1

\* Mutant: room is asked for one file late.
NeedsRoomLate == cInfos > cInfosAllocated

NeedsRoom == cInfos >= cInfosAllocated

WriteFits == /\ NextFile
             /\ ~NeedsRoom
             /\ cInfos' = cInfos + 1
             /\ UNCHANGED <<stage, cInfosAllocated, block, fInvalid, cFiles>>

GrowAndWrite == /\ NextFile
                /\ NeedsRoom
                /\ cInfosAllocated' = Grown(cInfosAllocated)
                /\ block' = Grown(cInfosAllocated)
                /\ cInfos' = cInfos + 1
                /\ UNCHANGED <<stage, fInvalid, cFiles>>

\* Mutant: a failed realloc does not mark the entry.
GrowFailsSilently == /\ NextFile
                     /\ NeedsRoom
                     /\ UNCHANGED <<stage, cInfos, cInfosAllocated, block, fInvalid, cFiles>>

GrowFails == /\ NextFile
             /\ NeedsRoom
             /\ fInvalid' = TRUE
             /\ UNCHANGED <<stage, cInfos, cInfosAllocated, block, cFiles>>

-------------------------------------------------------------------------------
(* dircache_write_end: dceAdjust, then the list; or dceDelete.             *)

Finished == stage = "filling" /\ toCome \in {Unknown, 0}

cFree == cInfosAllocated - cInfos
TooBig == cFree > cInfos \div 2

\* "Make the free space 2 times smaller."
Adjusted == cInfos + cFree \div 2

EndAsIs == /\ Finished /\ ~fInvalid /\ ~TooBig
           /\ stage' = "listed"
           /\ UNCHANGED <<cInfos, cInfosAllocated, block, fInvalid, cFiles, toCome, seen>>

EndAdjusted == /\ Finished /\ ~fInvalid /\ TooBig
               /\ stage' = "listed"
               /\ cInfosAllocated' = Adjusted
               /\ block' = Adjusted
               /\ UNCHANGED <<cInfos, fInvalid, cFiles, toCome, seen>>

\* A realloc that fails keeps the old block, unless it was asked for size 0,
\* which frees it.
EndNotAdjusted == /\ Finished /\ ~fInvalid /\ TooBig
                  /\ stage' = "listed"
                  /\ block' = IF Adjusted = 0 THEN Dangling ELSE block
                  /\ UNCHANGED <<cInfos, cInfosAllocated, fInvalid, cFiles, toCome, seen>>

Blank == /\ stage' = "none"
         /\ cInfos' = 0 /\ cInfosAllocated' = 0 /\ block' = Dangling
         /\ fInvalid' = FALSE
         /\ cFiles' = 0 /\ toCome' = Unknown /\ seen' = 0

EndInvalid == Finished /\ fInvalid /\ Blank

\* Expiry, eviction, invalidation or deletion of the cache.
Delete == stage = "listed" /\ Blank

EntryNext == /\ \/ CreateSmb2 \/ CreateSmb1 \/ Reuse
                \/ WriteFits \/ GrowAndWrite \/ GrowFails
                \/ EndAsIs \/ EndAdjusted \/ EndNotAdjusted \/ EndInvalid
                \/ Delete
             /\ UNCHANGED serialized

EntrySpec == EntryInit /\ [][EntryNext]_entryVars

-------------------------------------------------------------------------------
(* Properties.                                                             *)

\* dceWriteEntry stores behind the last file and dcRead reads the first cInfos
\* ones: neither leaves the memory block, which is the one the entry believes
\* it has, whatever reallocs failed on the way and whatever dceAdjust gave
\* back.  In particular dceAdjust never asks realloc for 0 bytes, which would
\* leave a freed buffer behind.  That needs the plugin mutex: an entry with room
\* for one file that is filled again with none is adjusted to nothing.
BufferInBounds ==
    serialized /\ stage # "none" => /\ block = cInfosAllocated
                                    /\ cInfos <= block

\* What can be served has every file it was given: a listing that lost one to
\* a failed realloc is marked, and never gets into the cache.
CompleteOrInvalid ==
    stage # "none" => cInfos = seen \/ (fInvalid /\ stage = "filling")
===============================================================================
