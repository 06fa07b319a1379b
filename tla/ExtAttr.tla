-------------------------------- MODULE ExtAttr --------------------------------
(***************************************************************************)
(* Extended attributes of a file: the walk over the host's packed list     *)
(* when EAs are set (helperEASet, NdpFileEASet), the list built from the   *)
(* server's answer (unilistea) and the selection copied into the host's    *)
(* buffer (buildFEALIST), with the sizes that all of them count in bytes.  *)
(*                                                                         *)
(* An EA's name is a sequence of characters, its value is told by its      *)
(* length, and length 0 deletes it.  A list built by unilistea fits the 64 *)
(* KB of its buffer, which is what OS/2 allows a file.                     *)
(***************************************************************************)
EXTENDS Integers, SequencesExt

CONSTANTS
    EaNames,    \* EA names, in the order the server lists them
    Values,     \* lengths of values
    MaxValue,   \* stands for 0xFFFF: cbValue is an unsigned short
    SetLists,   \* what the host sets: sequences of EAs
    GetLists,   \* what the host asks for: sequences of names, <<>> for all
    Rooms,      \* sizes of the host's buffers
    Behind      \* sizes of what may lie behind the host's list, read as an EA

ASSUME NamesAssumption == /\ EaNames \in Seq(ToSet(EaNames))
                          /\ \A n \in ToSet(EaNames) : n \in Seq(ToSet(n))
ASSUME ValuesAssumption == Values \subseteq Nat /\ 0 \in Values /\ MaxValue \in Nat
ASSUME RoomsAssumption == Rooms \subseteq Nat /\ Behind \subseteq Nat \ {0}
ASSUME ListsAssumption ==
    SetLists \subseteq Seq([name : ToSet(EaNames), value : {v \in Values : v <= MaxValue}])
                         \ {<<>>}

VARIABLES
    eas,        \* server: length of the value of every EA, 0 when it has none
    easupport,  \* property "ea support"
    reply       \* ghost: the last call and its answer

eaVars == <<eas, easupport, reply>>

-------------------------------------------------------------------------------
(* Sizes and lists.                                                        *)

Header == 4     \* sizeof(cbList), and sizeof(FEA): flags and two lengths

\* FEA, name, null, value.
FeaSize(ea) == Header + Len(ea.name) + 1 + ea.value

Bytes(s) ==
    LET upto[i \in 0 .. Len(s)] == IF i = 0 THEN 0 ELSE upto[i - 1] + FeaSize(s[i])
    IN  upto[Len(s)]

\* cbList of a list.
ListSize(s) == Header + Bytes(s)

\* unilistea: gotsize.
GotSize(s) == ListSize(s)

\* The walks over a list that copy the EAs in the set kept behind one another.
Among(s, kept) ==
    LET upto[i \in 0 .. Len(s)] ==
          IF i = 0 THEN <<>>
          ELSE IF s[i] \in kept THEN Append(upto[i - 1], s[i]) ELSE upto[i - 1]
    IN  upto[Len(s)]

\* unilistea: the server's list without values too long for cbValue.
Listed ==
    LET all == [i \in 1 .. Len(EaNames) |-> [name |-> EaNames[i], value |-> eas[EaNames[i]]]]
    IN  Among(all, {ea \in ToSet(all) : ea.value \in 1 .. MaxValue})

EaInit ==
    /\ eas = [n \in ToSet(EaNames) |-> 0]
    /\ easupport \in BOOLEAN
    /\ reply = [op |-> "none"]

\* One request at a time (plugin mutex).
Calling == reply.op = "none" /\ easupport

\* The host has read the answer.
Returned == /\ reply.op # "none"
            /\ reply' = [op |-> "none"]
            /\ UNCHANGED <<eas, easupport>>

\* No EA support, no list, no file information, no memory for the buffer, or no
\* open file.
Rejected == /\ reply.op = "none"
            /\ reply' = [op |-> "rejected"]
            /\ UNCHANGED <<eas, easupport>>

-------------------------------------------------------------------------------
(* Setting.                                                                *)

\* The bytes counted after k EAs were set.  The loop steps to the next EA before
\* it adds its size, so it counts the second to the (k+1)-st; behind the end of
\* the list it finds sizes g.
Done(list, g, k) ==
    LET next == SubSeq(list, 2, Min({k + 1, Len(list)}))
    IN  Header + Bytes(next) + g * Max({0, k + 1 - Len(list)})

\* while (done < cbList): how many EAs are set if the server accepts all.
Turns(list, g) ==
    Min({k \in 1 .. ListSize(list) : Done(list, g, k) >= ListSize(list)})

\* The EAs of the list, one after the other.
Effect(list) ==
    LET after[i \in 0 .. Len(list)] ==
          IF i = 0 THEN eas ELSE [after[i - 1] EXCEPT ![list[i].name] = list[i].value]
    IN  after[Len(list)]

\* smbopen only logs the result of NdpFileEASet.
SetReply(by, list, g, k) ==
    reply' = [op |-> "set", by |-> by, list |-> list, behind |-> g, refused |-> k,
              rc |-> IF k = 0 \/ by = "create" THEN "NO_ERROR"
                     ELSE IF by = "path" THEN "EAS_NOT_SUPPORTED" ELSE "ERROR"]

\* Mutant: no break after an error; the result is that of the last call.
SetGoesOn(by, list, g) ==
    /\ Calling
    /\ \E k \in 0 .. Len(list) :
         /\ eas' = Effect(IF k = 0 THEN list ELSE RemoveAt(list, k))
         /\ SetReply(by, list, g, IF k = Len(list) THEN k ELSE 0)
    /\ UNCHANGED easupport

\* All that the walk comes to is accepted, or the k-th is refused and ends it.
\* What is set from behind the list is no EA of the file's.
Set(by, list, g) ==
    /\ Calling
    /\ \E k \in 0 .. Turns(list, g) :
         /\ LET last == IF k = 0 THEN Turns(list, g) ELSE k - 1
            IN  eas' = Effect(SubSeq(list, 1, Min({last, Len(list)})))
         /\ SetReply(by, list, g, k)
    /\ UNCHANGED easupport

-------------------------------------------------------------------------------
(* Querying.                                                               *)

\* Mutant: the name is compared as far as the file's own name goes.
WantedShorter(ea, gea) ==
    gea = <<>> \/ \E i \in 1 .. Len(gea) : IsPrefix(ea.name, gea[i])

\* fsphStrNCmp looks at as many characters as the requested name has.
Wanted(ea, gea) ==
    gea = <<>> \/ \E i \in 1 .. Len(gea) : IsPrefix(gea[i], ea.name)

Selected(gea) == Among(Listed, {ea \in ToSet(Listed) : Wanted(ea, gea)})

\* ddone <= dsize, after the i-th EA was added.
Fits(s, i, room) == ListSize(SubSeq(s, 1, i)) <= room

\* buildFEALIST copies what fits and goes on counting.
Copied(s, room) == LET fitting == {i \in 1 .. Len(s) : Fits(s, i, room)}
                   IN  SubSeq(s, 1, Cardinality(fitting))

Overflows(s, room) == ListSize(s) > room /\ room > Header

\* NdpEAQuery turns every error into ERROR_EAS_NOT_SUPPORTED.
QueryRc(by, rc) ==
    IF by = "path" /\ rc # "NO_ERROR" THEN "EAS_NOT_SUPPORTED" ELSE rc

Query(by, gea, room) ==
    /\ Calling
    /\ LET s == Selected(gea)
       IN  reply' = [op |-> "query", by |-> by, asked |-> gea, room |-> room,
                     found |-> TRUE, got |-> Copied(s, room),
                     cbList |-> ListSize(s),
                     rc |-> QueryRc(by, IF Overflows(s, room) THEN "BUFFER_OVERFLOW"
                                        ELSE "NO_ERROR")]
    /\ UNCHANGED <<eas, easupport>>

\* smbwrp_listea fails: "not found" makes an empty list, the other errors stay
\* errors, and a buffer overflow (ENOBUFS) comes with unilistea's cbList of 0.
QueryFails(by) ==
    /\ Calling
    /\ \E rc \in {"NO_ERROR", "EAS_NOT_SUPPORTED", "BUFFER_OVERFLOW"} :
         reply' = [op |-> "query", by |-> by, rc |-> QueryRc(by, rc), found |-> FALSE,
                   got |-> <<>>, cbList |-> IF rc = "NO_ERROR" THEN Header ELSE 0]
    /\ UNCHANGED <<eas, easupport>>

Size(by) ==
    /\ Calling
    /\ reply' = [op |-> "size", rc |-> "NO_ERROR", found |-> TRUE,
                 cbList |-> GotSize(Listed)]
    /\ UNCHANGED <<eas, easupport>>

\* cbList of an empty list after "not found", 0 after another error, and 0 for
\* an entry of smbwrp_special_add, whose easize is not -1 on the first call.
SizeUnknown(by) ==
    /\ Calling
    /\ \E rc \in {"NO_ERROR", "EAS_NOT_SUPPORTED"}, n \in {0, Header} :
         reply' = [op |-> "size", rc |-> rc, found |-> FALSE, cbList |-> n]
    /\ UNCHANGED <<eas, easupport>>

-------------------------------------------------------------------------------
\* Another client changes an EA.
OtherSets(n, v) == /\ reply.op = "none"
                   /\ eas' = [eas EXCEPT ![n] = v]
                   /\ UNCHANGED <<easupport, reply>>

EaNext ==
    \/ Rejected \/ Returned
    \/ \E by \in {"path", "handle", "create"}, list \in SetLists, g \in Behind :
         Set(by, list, g)
    \/ \E by \in {"path", "handle"} :
         \/ \E gea \in GetLists, room \in Rooms : Query(by, gea, room)
         \/ QueryFails(by) \/ Size(by) \/ SizeUnknown(by)
    \/ \E n \in ToSet(EaNames), v \in Values : OtherSets(n, v)

EaSpec == EaInit /\ [][EaNext]_eaVars

-------------------------------------------------------------------------------
(* Properties.                                                             *)

\* The server has a length for every name, and a query reports at least the
\* size of an empty list.
EaTypeOK == /\ eas \in [ToSet(EaNames) -> Values]
            /\ easupport \in BOOLEAN
            /\ reply.op \in {"none", "rejected", "set", "query", "size"}
            /\ reply.op = "query" /\ reply.found => reply.cbList >= Header

\* Of the EAs that a call set, the last one of a name is the name's value; a name
\* that was not set keeps what it had.
LastWins(list, n, before, after) ==
    LET set == {i \in 1 .. Len(list) : list[i].name = n}
    IN  after = IF set = {} THEN before ELSE list[Max(set)].value

\* A set that succeeds has set every EA of the list, in order; one that fails
\* has set those in front of the one refused and nothing behind it, although
\* the walk counts the sizes of the wrong EAs.  It never stops in front of the
\* last EA, and reads behind the list only when what lies there looks smaller
\* than the first EA: only then can a set fail all of whose EAs were accepted.
\* The EAs of a file that is being created may be missing although the create
\* succeeds.
SetInOrder ==
    [][reply'.op = "set" /\ reply.op = "none" =>
         LET list == reply'.list
             k == reply'.refused
             told == reply'.rc = "NO_ERROR" /\ reply'.by # "create"
             accepted == IF k = 0 \/ told THEN list
                         ELSE SubSeq(list, 1, IF k > Len(list) THEN Len(list) ELSE k - 1)
         IN  /\ \A n \in ToSet(EaNames) : LastWins(accepted, n, eas[n], eas'[n])
             /\ k > Len(list) => reply'.behind < FeaSize(list[1])]_eaVars

\* With room enough a query returns the EAs that were asked for and exist, and
\* besides them only EAs whose names begin with a name asked for; cbList is the
\* size of the list that is there.
Complete ==
    /\ \A i \in 1 .. Len(Listed) :
         reply.asked = <<>> \/ Contains(reply.asked, Listed[i].name)
             => Contains(reply.got, Listed[i])
    /\ \A i \in 1 .. Len(reply.got) :
         /\ Contains(Listed, reply.got[i])
         /\ reply.asked = <<>> \/ \E j \in 1 .. Len(reply.asked) :
                                    IsPrefix(reply.asked[j], reply.got[i].name)
    /\ reply.cbList = ListSize(reply.got)

\* A query is complete, or the host is told that its list was cut short: by
\* ERROR_BUFFER_OVERFLOW with the size to come back with over a handle, by
\* ERROR_EAS_NOT_SUPPORTED over a path.  Nothing is stored behind the host's
\* buffer, and a buffer of the size that the size call reports is enough.
QueryAnswered ==
    /\ EaTypeOK
    /\ reply.op = "query" /\ reply.found =>
         /\ reply.rc = "NO_ERROR" /\ reply.room > Header => Complete
         /\ reply.got # <<>> => ListSize(reply.got) <= reply.room
         /\ reply.room > Header /\ ListSize(reply.got) < reply.cbList
              => /\ reply.rc # "NO_ERROR"
                 /\ Len(Copied(Selected(reply.asked), reply.cbList))
                      = Len(Selected(reply.asked))
    /\ reply.op = "size" /\ reply.found =>
         \A gea \in GetLists : ~Overflows(Selected(gea), reply.cbList)
===============================================================================
