------------------------------- MODULE Resource -------------------------------
(***************************************************************************)
(* Resources of ndpsmb.c: the properties a Resource is mounted with        *)
(* (initResource, NdpMountResource), the names of workgroup, server and    *)
(* share that pathparser takes from a path and stores in it, the session   *)
(* of its connection, moves inside its share, and the size of its disk.    *)
(*                                                                         *)
(* A name is a sequence of letters, since NdpMove and pathparser compare   *)
(* names by prefix; a path is the sequence of its components.  One         *)
(* connection uses a Resource here; Session has several.                   *)
(***************************************************************************)
EXTENDS Integers, SequencesExt

CONSTANTS
    Slots,      \* Resources the host may hold
    Letters, Sep, \* characters of names, and the backslash
    Upper,      \* the upper case of every letter
    Asked,      \* properties the user may give
    Paths,      \* paths of requests, without empty components
    Disks,      \* what servers say: block size, total, available
    Passwords,  \* passwords, as sequences of bytes
    K,          \* stands for 1024
    SectorWord, \* stands for 2^16: cbSector is an unsigned short
    UnitWord,   \* stands for 2^32: cUnit is an unsigned long
    MaxRefused  \* bound: mounts that are refused

ASSUME LettersAssumption == Sep \notin Letters /\ Upper \in [Letters -> Letters]
ASSUME PathsAssumption == Paths \subseteq Seq(Seq(Letters) \ {<<>>})
ASSUME AskedAssumption == \A p \in Asked : /\ p.names \in [1 .. 3 -> Seq(Letters)]
                                          /\ p.user \in Seq(Letters)
ASSUME DisksAssumption == \A d \in Disks : /\ d.bsize \in Nat \ {0}
                                          /\ d.total \in Nat /\ d.avail \in Nat
ASSUME PasswordsAssumption == Passwords \subseteq Seq(1 .. 255)
ASSUME WidthsAssumption == /\ K \in Nat \ {0} /\ MaxRefused \in Nat
                           /\ SectorWord \in Nat \ {0} /\ UnitWord \in Nat \ {0, 1}

VARIABLES
    res,        \* the Resources, NoResource in an unused slot
    cli,        \* the names that the session of its connection was made with
    caches,     \* how many directory caches exist
    refused,    \* ghost: how many mounts were refused
    last        \* ghost: the last call

resVars == <<res, cli, caches, refused, last>>

NoResource == [level |-> -1]
NoSession == <<>>
Absent == -1
Mounted(s) == res[s] # NoResource

ResInit == /\ res = [s \in Slots |-> NoResource]
           /\ cli = [s \in Slots |-> NoSession]
           /\ caches = 0 /\ refused = 0
           /\ last = [op |-> "none"]

\* One request at a time (plugin mutex).
Calling == last.op = "none"
Return == ~Calling /\ last' = [op |-> "none"] /\ UNCHANGED <<res, cli, caches, refused>>

-------------------------------------------------------------------------------
(* Mounting.                                                               *)

\* Mutant: the value is stored before it is compared.
SettingUnchecked(asked, limit, default) == IF asked = Absent THEN default ELSE asked

\* A value that is absent or too large leaves what memset or initResource set.
Setting(asked, limit, default) == IF asked \in 0 .. limit THEN asked ELSE default

\* The last of WORKGROUP, SERVER and SHARE that is given.
Level(names) == Max({0} \cup {i \in 1 .. 3 : names[i] # <<>>})

\* Every query overwrites rc: what CLD, the last property, leaves is returned.
InitRefuses(p) == p.cld \notin 0 .. 96

initResource(p, pdc) ==
    [level |-> Level(p.names), names |-> p.names, user |-> p.user,
     easupport |-> Setting(p.easupport, 1, 1),
     cachetimeout |-> Setting(p.cto, 600, 0),
     cachedepth |-> Setting(p.cld, 96, 0),
     pdc |-> pdc, asked |-> p, parsed |-> FALSE]

\* dcCreate may find no memory: the Resource has no cache then.
Mount(s, p) ==
    /\ Calling /\ ~Mounted(s) /\ ~InitRefuses(p)
    /\ \E pdc \in BOOLEAN :
         /\ res' = [res EXCEPT ![s] = initResource(p, pdc)]
         /\ caches' = caches + (IF pdc THEN 1 ELSE 0)
    /\ last' = [op |-> "mount"]
    /\ UNCHANGED <<cli, refused>>

\* initResource refuses the properties, or checkMountResource (not on the main
\* thread) the share: the Resource is freed, its cache is not.
MountRefused(p, share_away) ==
    /\ Calling /\ refused < MaxRefused
    /\ InitRefuses(p) \/ share_away
    /\ refused' = refused + 1
    /\ caches' \in {caches, caches + 1}
    /\ last' = [op |-> "refused"]
    /\ UNCHANGED <<res, cli>>

\* Mutant: the Resource is freed without its cache.
FreeKeepsCache(s) ==
    /\ Calling /\ Mounted(s) /\ cli[s] = NoSession
    /\ res' = [res EXCEPT ![s] = NoResource]
    /\ last' = [op |-> "free"]
    /\ UNCHANGED <<cli, caches, refused>>

\* The host frees the connection first.
Free(s) ==
    /\ Calling /\ Mounted(s) /\ cli[s] = NoSession
    /\ res' = [res EXCEPT ![s] = NoResource]
    /\ caches' = caches - (IF res[s].pdc THEN 1 ELSE 0)
    /\ last' = [op |-> "free"]
    /\ UNCHANGED <<cli, refused>>

CreateConnection(s) ==
    /\ Calling /\ Mounted(s) /\ cli[s] = NoSession
    /\ cli' \in {cli, [cli EXCEPT ![s] = res[s].names]}   \* smbwrp_connect may fail
    /\ last' = [op |-> "connect"]
    /\ UNCHANGED <<res, caches, refused>>

FreeConnection(s) ==
    /\ Calling /\ cli[s] # NoSession
    /\ cli' = [cli EXCEPT ![s] = NoSession]
    /\ last' = [op |-> "disconnect"]
    /\ UNCHANGED <<res, caches, refused>>

-------------------------------------------------------------------------------
(* pathparser.                                                             *)

Fold(name) == [i \in DOMAIN name |-> Upper[name[i]]]
SameName(a, b) == Fold(a) = Fold(b)

\* The component that names field i (1 workgroup, 2 server, 3 share), empty
\* when the path ends before it.
Component(r, path, i) ==
    IF i - r.level \in 1 .. Len(path) THEN path[i - r.level] ELSE <<>>

\* Mutant: the lengths are not compared.
DiffersPrefix(name, component) ==
    component = <<>> \/ ~IsPrefix(Fold(component), Fold(name))

Differs(name, component) ==
    \/ Len(name) # Len(component)
    \/ component = <<>>
    \/ Fold(name) # Fold(component)

Switches(r, path) ==
    \E i \in r.level + 1 .. 3 : Differs(r.names[i], Component(r, path, i))

NewNames(r, path) ==
    [i \in 1 .. 3 |-> IF i > r.level /\ Differs(r.names[i], Component(r, path, i))
                      THEN Component(r, path, i) ELSE r.names[i]]

\* What is left of the path behind the components that name the share.
Rest(r, path) == SubSeq(path, 4 - r.level, Len(path))

Requesting(s) == Calling /\ cli[s] # NoSession

\* A path that names another share is tried on a copy; when it connects, the
\* copy and the new session replace the Resource's.
Parsed(s, path) ==
    LET names == NewNames(res[s], path)
    IN  /\ res' = [res EXCEPT ![s].names = names,
                              ![s].parsed = @ \/ Switches(res[s], path)]
        /\ cli' = [cli EXCEPT ![s] = IF Switches(res[s], path) THEN names ELSE @]

pathparser(s, path) ==
    /\ Requesting(s)
    /\ Parsed(s, path)
    /\ last' = [op |-> "parse", slot |-> s, path |-> path, rest |-> Rest(res[s], path)]
    /\ UNCHANGED <<caches, refused>>

\* Mutant: the names are written to the Resource and not to a copy.
ParseRefusedInPlace(s, path) ==
    /\ Requesting(s)
    /\ Switches(res[s], path)
    /\ res' = [res EXCEPT ![s].names = NewNames(res[s], path)]
    /\ last' = [op |-> "refused"]
    /\ UNCHANGED <<cli, caches, refused>>

\* The new connection fails and the old one stays.
ParseRefused(s, path) ==
    /\ Requesting(s)
    /\ Switches(res[s], path)
    /\ last' = [op |-> "refused"]
    /\ UNCHANGED <<res, cli, caches, refused>>

\* The name by which a program tests for long names is not parsed.
iftestpath(s) ==
    /\ Requesting(s)
    /\ last' = [op |-> "testpath"]
    /\ UNCHANGED <<res, cli, caches, refused>>

-------------------------------------------------------------------------------
(* NdpMove and NdpRsrcCompare.                                             *)

\* A path as the host writes it, from its leading backslash on.
Chars(path) == FlattenSeq([i \in DOMAIN path |-> <<Sep>> \o path[i]])
FoldChars(c) == [i \in DOMAIN c |-> IF c[i] = Sep THEN Sep ELSE Upper[c[i]]]

\* l1 - l2: characters in front of what pathparser leaves of the source.
Prefix(r, src) == Len(Chars(src)) - Len(Chars(Rest(r, src)))

\* Mutant: the prefixes are not compared.
AcrossNever(r, src, dst) == FALSE

\* ERROR_WRITE_PROTECT: the destination does not begin as the source does.
Across(r, src, dst) ==
    SubSeq(FoldChars(Chars(src)), 1, Prefix(r, src))
        # SubSeq(FoldChars(Chars(dst)), 1, Min({Prefix(r, src), Len(Chars(dst))}))

\* The new name that the server is told: p = szDst + l1 - l2 + 1, or szDst.
NewName(r, src, dst) ==
    IF Prefix(r, src) > 0
    THEN SubSeq(Chars(dst), Prefix(r, src) + 2, Len(Chars(dst)))
    ELSE Chars(dst)

\* Both paths name something inside a share.
Move(s, src, dst) ==
    /\ Requesting(s)
    /\ Rest(res[s], src) # <<>> /\ Rest(res[s], dst) # <<>>
    /\ Parsed(s, src)
    /\ last' = IF Across(res[s], src, dst) THEN [op |-> "writeprotect"]
               ELSE [op |-> "move", slot |-> s, src |-> src, dst |-> dst,
                     name |-> NewName(res[s], src, dst)]
    /\ UNCHANGED <<caches, refused>>

\* Mutant: share_name is not compared.
RsrcCompareServers(q, r) ==
    SameName(q.user, r.user) /\ \A i \in 1 .. 2 : SameName(q.names[i], r.names[i])

RsrcCompare(q, r) ==
    SameName(q.user, r.user) /\ \A i \in 1 .. 3 : SameName(q.names[i], r.names[i])

-------------------------------------------------------------------------------
(* smbwrp_dskattr.                                                         *)

\* ceil of an integer quotient: the quotient.
Scale(d) == d.total \div (UnitWord - 1)

\* Mutant: the sectors are not scaled as the units are.
SectorUnscaled(d) ==
    (IF d.bsize >= SectorWord THEN d.bsize \div K ELSE d.bsize) % SectorWord

Sector(d) == (IF d.bsize >= SectorWord THEN d.bsize \div K
              ELSE IF d.total >= UnitWord THEN d.bsize * Scale(d)
              ELSE d.bsize) % SectorWord

Units(d, n) == (IF d.bsize >= SectorWord THEN n * K
                ELSE IF d.total >= UnitWord THEN n \div Scale(d)
                ELSE n) % UnitWord

\* A session of its own; without one the host gets an error.
QueryFSAllocate(d) ==
    /\ Calling /\ \E s \in Slots : Mounted(s)
    /\ last' \in {[op |-> "refused"],
                  [op |-> "disk", disk |-> d, cbSector |-> Sector(d),
                   cUnit |-> Units(d, d.total), cUnitAvail |-> Units(d, d.avail)]}
    /\ UNCHANGED <<res, cli, caches, refused>>

-------------------------------------------------------------------------------
(* The property SPASSWORD, which a mount writes and a later mount reads.   *)

\* Mutant: ten is a digit.
tohexLate(b) == IF b % 16 <= 10 THEN (b % 16) + 48 ELSE (b % 16) - 10 + 65

tohex(b) == IF b % 16 <= 9 THEN (b % 16) + 48 ELSE (b % 16) - 10 + 65

fromhex(c) == IF c \in 48 .. 57 THEN c - 48
              ELSE IF c \in 65 .. 70 THEN c - 65 + 10
              ELSE IF c \in 97 .. 102 THEN c - 97 + 10 ELSE 0

\* Two digits for a byte, the high one first.
encryptPassword(plain) ==
    [j \in 1 .. 2 * Len(plain) |->
        LET byte == plain[(j + 1) \div 2]
        IN  tohex(IF j % 2 = 1 THEN byte \div 16 ELSE byte)]

\* The two reads of a byte are unsequenced: either may be the first.
decryptPassword(crypt, inOrder) ==
    LET high(i) == crypt[IF inOrder THEN 2 * i - 1 ELSE 2 * i]
        low(i) == crypt[IF inOrder THEN 2 * i ELSE 2 * i - 1]
    IN  [i \in 1 .. Len(crypt) \div 2 |-> (fromhex(high(i)) * 16 + fromhex(low(i))) % 256]

StorePassword(plain) ==
    /\ Calling
    /\ \E inOrder \in BOOLEAN :
         last' = [op |-> "password", plain |-> plain, inOrder |-> inOrder,
                  back |-> decryptPassword(encryptPassword(plain), inOrder)]
    /\ UNCHANGED <<res, cli, caches, refused>>

-------------------------------------------------------------------------------
ResNext ==
    \/ Return
    \/ \E p \in Asked : \/ \E share_away \in BOOLEAN : MountRefused(p, share_away)
                        \/ \E s \in Slots : Mount(s, p)
    \/ \E s \in Slots : \/ Free(s) \/ CreateConnection(s) \/ FreeConnection(s)
                        \/ iftestpath(s)
                        \/ \E p \in Paths : pathparser(s, p) \/ ParseRefused(s, p)
                        \/ \E src, dst \in Paths : Move(s, src, dst)
    \/ \E d \in Disks : QueryFSAllocate(d)
    \/ \E plain \in Passwords : StorePassword(plain)

ResSpec == ResInit /\ [][ResNext]_resVars

-------------------------------------------------------------------------------
(* Properties.                                                             *)

\* Resources hold three names and values in their ranges, and a user who asked
\* for too large a value got the default, for the cache timeout no caching.
\* Only the number of cached listings is never replaced: a bad one refuses the
\* mount.
SettingsInRange ==
    \A s \in Slots : Mounted(s) =>
        LET r == res[s]
        IN  /\ r.level \in 0 .. 3 /\ Len(r.names) = 3
            /\ r.easupport \in 0 .. 1
            /\ r.easupport # r.asked.easupport => r.easupport = 1
            /\ r.cachetimeout \in 0 .. 600
            /\ r.cachetimeout # r.asked.cto => r.cachetimeout = 0
            /\ r.cachedepth \in 0 .. 96 /\ r.cachedepth = r.asked.cld

\* The names in a Resource are those its session was connected with, also
\* after a switch to another share was refused: a later reconnection, which
\* reads the Resource, comes back to the same share.
ResourceMatchesSession ==
    \A s \in Slots : cli[s] # NoSession => Mounted(s) /\ cli[s] = res[s].names

\* A path that pathparser accepts is served by a session to the workgroup,
\* server and share that its first components name, and those of the mount.
ParsedShare ==
    last.op = "parse" =>
        LET r == res[last.slot]
            named == SubSeq(r.asked.names, 1, r.level)
                       \o SubSeq(last.path, 1, Min({3 - r.level, Len(last.path)}))
        IN  \A i \in 1 .. 3 :
                SameName(cli[last.slot][i], IF i <= Len(named) THEN named[i] ELSE <<>>)

\* A move stays on the share of its source and gets the name that the
\* destination has on it.  One case is an exception: a destination on a share
\* (or a share of a server) whose name is longer and begins like the source's.
MoveWithinShare ==
    last.op = "move" =>
        LET r == res[last.slot]
            from == Component(r, last.src, 3)
            to == Component(r, last.dst, 3)
            fromNames == Front(SubSeq(last.src, 1, 3 - r.level))
            toNames == Front(SubSeq(last.dst, 1, 3 - r.level))
        IN  IF r.level = 3
            THEN last.name = Chars(last.dst)
            ELSE /\ FoldChars(Chars(fromNames)) = FoldChars(Chars(toNames))
                 /\ \/ /\ SameName(from, to)
                       /\ last.name = Tail(Chars(Rest(r, last.dst)))
                    \/ Len(to) > Len(from) /\ IsPrefix(Fold(from), Fold(to))

\* Every directory cache belongs to a Resource, but for those that refused
\* mounts left behind.
CachesAccounted ==
    caches - Cardinality({s \in Slots : Mounted(s) /\ res[s].pdc}) \in 0 .. refused

\* Resources that were mounted at different levels compare equal only after a
\* path has written the missing names into one of them.
EqualOnlyByParsing ==
    \A s, t \in Slots :
        /\ Mounted(s) /\ Mounted(t)
        /\ res[s].level # res[t].level
        /\ RsrcCompare(res[s], res[t])
        => res[s].parsed \/ res[t].parsed

\* What the three branches can express: large blocks that 1024 divides, with
\* units that fit after the multiplication; small blocks with units that fit;
\* and, since the quotient is not rounded up, of the totals from 2^32 on only
\* those close to a multiple of 2^32 - 1.
Expressible(d) ==
    IF d.bsize >= SectorWord
    THEN d.total * K < UnitWord /\ d.bsize % K = 0 /\ d.bsize < K * SectorWord
    ELSE d.total >= UnitWord => /\ d.total % (UnitWord - 1) < Scale(d)
                                /\ d.bsize * Scale(d) < SectorWord

\* The host is never told of more space than there is, and of less only where
\* the numbers are not expressible or by the rounding of one scaled unit.
DiskSizeTold ==
    last.op = "disk" =>
        LET d == last.disk
            told == last.cUnit * last.cbSector
        IN  /\ told <= d.total * d.bsize
            /\ last.cUnitAvail * last.cbSector <= d.avail * d.bsize
            /\ Expressible(d) => d.total * d.bsize - told < d.bsize * Max({1, Scale(d)})

\* The password that a mount has stored is the one that the next mount reads,
\* if the compiler reads the two digits of a byte in order; otherwise every
\* byte has its halves swapped.
PasswordKept ==
    last.op = "password" =>
        last.back = IF last.inOrder THEN last.plain
                    ELSE [i \in DOMAIN last.plain |->
                            (last.plain[i] % 16) * 16 + (last.plain[i] \div 16)]
===============================================================================
