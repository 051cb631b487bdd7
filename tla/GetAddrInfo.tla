---------------------------- MODULE GetAddrInfo ----------------------------
(***************************************************************************)
(* getaddrinfo of src/unpv13e/libgai: the hostname is looked up in one or  *)
(* two families, each address becomes an addrinfo, the service clones and  *)
(* fills them.  Any allocation may fail; what the resolver and the service *)
(* database answer is free.                                                *)
(*                                                                         *)
(* gaHeap counts the blocks allocated and not freed: an addrinfo, its      *)
(* address, a name.                                                        *)
(***************************************************************************)
EXTENDS Integers, SequencesExt

CONSTANTS
    GaCalls,    \* the calls: records of host, serv, flags, family and socktype
    GaMax       \* bound: how many addresses a lookup returns at most

VARIABLES
    gaArg,          \* the call
    gaSvc,          \* the socket types its service name is known for
    gaRes,          \* the family _res.options makes gethostbyname ask for
    gaAt,           \* where the call is
    gaSearch,       \* the entries of search[] to come
    gaLeft,         \* addresses of the last answer without an addrinfo
    gaFound,        \* every address to be returned, in order
    gaList,         \* the list at aihead
    gaCanon,        \* canon
    gaTypes, gaPos, \* ga_port: the socket types to come, the entry of the list
    gaNfound,       \* nfound
    gaHeap, gaPath, \* blocks; whether the path of a local socket is there
    gaRet           \* what is returned

gaVars == <<gaArg, gaSvc, gaRes, gaAt, gaSearch, gaLeft, gaFound, gaList, gaCanon, gaTypes, gaPos,
            gaNfound, gaHeap, gaPath, gaRet>>

\* An earlier call may have left either value in _res.options.
GaInit ==
    /\ gaArg \in GaCalls /\ gaRes \in {"INET", "INET6"}
    /\ gaSvc \in IF gaArg.serv = "name" THEN SUBSET {"STREAM", "DGRAM"} ELSE {{}}
    /\ gaAt = "entry" /\ gaSearch = <<>> /\ gaLeft = <<>> /\ gaFound = <<>> /\ gaList = <<>>
    /\ gaCanon = "null" /\ gaTypes = <<>> /\ gaPos = 0 /\ gaNfound = 0
    /\ gaHeap = 0 /\ gaPath = "there" /\ gaRet = "none"

GaHas(flag) == flag \in gaArg.flags
GaLiteral(h) == IF h \in {"v4", "0.0.0.0"} THEN "INET" ELSE IF h \in {"v6", "0::0", "0::1"} THEN "INET6" ELSE "name"

\* The call goes on at to, or fails with rc and frees the list.
GaGo(to) == gaAt' = to /\ UNCHANGED gaRet
GaError(rc) == gaAt' = "bad" /\ gaRet' = rc
GaThen(rc, to) == IF rc = "ok" THEN GaGo(to) ELSE GaError(rc)

(***************************************************************************)
(* What calloc makes of building an entry: the outcomes, with the list,    *)
(* the blocks allocated and the result.                                    *)
(***************************************************************************)
GaOutcome(list, blocks, rc) == [list |-> list, blocks |-> blocks, rc |-> rc]
GaEntry(addr, family, socktype) ==
    [addr |-> addr, family |-> family, socktype |-> socktype, flags |-> IF socktype = "0" THEN {"CLONE"} ELSE {},
     port |-> "0", canon |-> "null"]
GaBare(e) == [e EXCEPT !.addr = "null"]

\* The addrinfo is linked before its address is allocated; a path may be too long.
ga_aistruct(list, e) ==
    {GaOutcome(list, 0, "MEMORY"), GaOutcome(Append(list, GaBare(e)), 1, "MEMORY"),
     GaOutcome(Append(list, e), 2, "ok")}
    \cup IF e.family = "LOCAL" THEN {GaOutcome(Append(list, GaBare(e)), 1, "SERVICE")} ELSE {}

\* Mutant: the clone is linked last.
ga_clone_late(list, i) ==
    {GaOutcome(list, 0, "MEMORY"), GaOutcome(list, 1, "MEMORY"),
     GaOutcome(InsertAt(list, i + 1, [list[i] EXCEPT !.flags = {}, !.canon = "null"]), 2, "ok")}

ga_clone(list, i) ==
    LET new == [list[i] EXCEPT !.flags = {}, !.canon = "null"]
    IN  {GaOutcome(list, 0, "MEMORY"), GaOutcome(InsertAt(list, i + 1, GaBare(new)), 1, "MEMORY"),
         GaOutcome(InsertAt(list, i + 1, new), 2, "ok")}

GaBlocks(list) ==
    FoldSeq(LAMBDA e, n : n + 1 + (IF e.addr = "null" THEN 0 ELSE 1) + (IF e.canon = "null" THEN 0 ELSE 1),
            0, list)

freeaddrinfo == gaHeap' = gaHeap - GaBlocks(gaList) /\ gaList' = <<>>

(***************************************************************************)
(* The beginning: ga_echeck, ga_unix or ga_nsearch.                        *)
(***************************************************************************)
ga_echeck ==
    LET known == IF gaArg.family = "LOCAL" THEN {"0", "STREAM", "DGRAM"} ELSE {"0", "STREAM", "DGRAM", "RAW"}
    IN  IF gaArg.flags \ {"PASSIVE", "CANONNAME"} # {} THEN "BADFLAGS"
        ELSE IF gaArg.host = "null" /\ gaArg.serv = "null" THEN "NONAME"
        ELSE IF gaArg.family = "UNSPEC" THEN "ok"
        ELSE IF gaArg.family = "other" THEN "FAMILY"
        ELSE IF gaArg.socktype \notin known THEN "SOCKTYPE" ELSE "ok"

\* IPv6 first if the family is left open; no entry at all for a local family.
ga_nsearch ==
    LET host(f) == IF gaArg.host # "null" THEN gaArg.host
                   ELSE IF GaHas("PASSIVE") THEN IF f = "INET" THEN "0.0.0.0" ELSE "0::0"
                   ELSE IF f = "INET" THEN "localhost" ELSE "0::1"
        wanted == SelectSeq(<<"INET6", "INET">>, LAMBDA f : gaArg.family \in {"UNSPEC", f})
    IN  [i \in DOMAIN wanted |-> [host |-> host(wanted[i]), family |-> wanted[i]]]

GaEnter ==
    /\ gaAt = "entry"
    /\ IF ga_echeck # "ok" THEN GaError(ga_echeck) /\ UNCHANGED gaSearch
       ELSE IF gaArg.host = "/local" /\ gaArg.serv = "path" THEN GaGo("unix") /\ UNCHANGED gaSearch
       ELSE gaSearch' = ga_nsearch /\ GaGo(IF ga_nsearch = <<>> THEN "err_quit" ELSE "search")
    /\ UNCHANGED <<gaArg, gaSvc, gaRes, gaLeft, gaFound, gaList, gaCanon, gaTypes, gaPos, gaNfound, gaHeap, gaPath>>

\* ga_unix: an entry for each socket type, then the name; an error returns at once.
GaUnixTypes == IF gaArg.socktype = "0" THEN <<"STREAM", "DGRAM">> ELSE <<gaArg.socktype>>

GaReturn(rc) == gaAt' = "returned" /\ gaRet' = rc

ga_unix ==
    /\ gaAt = "unix"
    /\ \/ /\ gaArg.family \notin {"UNSPEC", "LOCAL"} /\ GaReturn("ADDRFAMILY")
          /\ UNCHANGED <<gaList, gaHeap, gaPath>>
       \/ /\ gaArg.family \in {"UNSPEC", "LOCAL"} /\ Len(gaList) < Len(GaUnixTypes)
          /\ \E o \in ga_aistruct(gaList, GaEntry("path", "LOCAL", GaUnixTypes[Len(gaList) + 1])) :
                /\ gaList' = o.list /\ gaHeap' = gaHeap + o.blocks
                /\ gaPath' = IF o.rc = "ok" /\ GaHas("PASSIVE") THEN "gone" ELSE gaPath
                /\ IF o.rc = "ok" THEN GaGo("unix") ELSE GaReturn(o.rc)
       \/ /\ Len(gaList) = Len(GaUnixTypes) /\ GaHas("CANONNAME")
          /\ \E rc \in {"ok", "SYSTEM", "MEMORY"} :
                /\ GaReturn(rc) /\ gaHeap' = IF rc = "ok" THEN gaHeap + 1 ELSE gaHeap
                /\ gaList' = IF rc = "ok" THEN [gaList EXCEPT ![1].canon = "name"] ELSE gaList
          /\ UNCHANGED gaPath
       \/ /\ Len(gaList) = Len(GaUnixTypes) /\ ~GaHas("CANONNAME")
          /\ GaReturn("ok") /\ UNCHANGED <<gaList, gaHeap, gaPath>>
    /\ UNCHANGED <<gaArg, gaSvc, gaRes, gaSearch, gaLeft, gaFound, gaCanon, gaTypes, gaPos, gaNfound>>

(***************************************************************************)
(* The loop over search[].                                                 *)
(***************************************************************************)
GaTurn == Head(gaSearch)
GaSingle == Len(ga_nsearch) = 1

\* An address in text: ignored in the turn of the other family.
GaText ==
    LET family == GaLiteral(GaTurn.host)
    IN  /\ gaAt = "search" /\ gaSearch # <<>> /\ family # "name"
        /\ \/ /\ gaArg.family \notin {"UNSPEC", family}
              /\ GaError("ADDRFAMILY") /\ UNCHANGED <<gaSearch, gaLeft, gaFound>>
           \/ /\ gaArg.family \in {"UNSPEC", family} /\ GaTurn.family # family
              /\ gaSearch' = Tail(gaSearch) /\ GaGo("search") /\ UNCHANGED <<gaLeft, gaFound>>
           \/ /\ gaArg.family \in {"UNSPEC", family} /\ GaTurn.family = family
              /\ gaLeft' = <<[addr |-> GaTurn.host, family |-> family]>> /\ gaFound' = gaFound \o gaLeft'
              /\ GaGo("struct") /\ UNCHANGED gaSearch
        /\ UNCHANGED <<gaArg, gaSvc, gaRes, gaList, gaCanon, gaTypes, gaPos, gaNfound, gaHeap, gaPath>>

\* gethostbyname2 names the family; gethostbyname takes it from _res.options.
GaAsks == IF GaSingle /\ GaTurn.family = "INET6" THEN "INET6" ELSE "INET"
GaAnswerFamily == IF GaSingle THEN gaRes' ELSE GaTurn.family

\* The lookup fails: another turn may succeed, but with one turn the call fails.
GaUnknown ==
    /\ gaAt = "search" /\ gaSearch # <<>> /\ GaLiteral(GaTurn.host) = "name"
    /\ gaRes' = GaAsks
    /\ IF GaSingle THEN /\ \E rc \in {"NONAME", "AGAIN", "FAIL", "NODATA"} : GaError(rc)
                        /\ UNCHANGED gaSearch
                   ELSE gaSearch' = Tail(gaSearch) /\ GaGo("search")
    /\ UNCHANGED <<gaArg, gaSvc, gaLeft, gaFound, gaList, gaCanon, gaTypes, gaPos, gaNfound, gaHeap, gaPath>>

\* The lookup succeeds; the canonical name is saved the first time.
GaKnown ==
    /\ gaAt = "search" /\ gaSearch # <<>> /\ GaLiteral(GaTurn.host) = "name"
    /\ gaRes' = GaAsks
    /\ IF gaArg.family \notin {"UNSPEC", GaAnswerFamily}
       THEN GaError("ADDRFAMILY") /\ UNCHANGED <<gaLeft, gaFound, gaCanon, gaHeap>>
       ELSE \E n \in 1 .. GaMax, rc \in {"ok", "MEMORY"} :
            /\ gaLeft' = [i \in 1 .. n |-> [addr |-> ToString(i), family |-> GaAnswerFamily]]
            /\ gaFound' = gaFound \o gaLeft' /\ GaThen(rc, "struct")
            /\ IF gaArg.host # "null" /\ GaHas("CANONNAME") /\ gaCanon = "null"
               THEN IF rc = "ok" THEN gaCanon' = "saved" /\ gaHeap' = gaHeap + 1
                                 ELSE UNCHANGED <<gaCanon, gaHeap>>
               ELSE rc = "ok" /\ UNCHANGED <<gaCanon, gaHeap>>
    /\ UNCHANGED <<gaArg, gaSvc, gaSearch, gaList, gaTypes, gaPos, gaNfound, gaPath>>

\* One addrinfo for each address, then the next turn.
GaStruct ==
    /\ gaAt = "struct"
    /\ IF gaLeft = <<>>
       THEN gaSearch' = Tail(gaSearch) /\ GaGo("search") /\ UNCHANGED <<gaLeft, gaList, gaHeap>>
       ELSE /\ \E o \in ga_aistruct(gaList, GaEntry(Head(gaLeft).addr, Head(gaLeft).family, gaArg.socktype)) :
                /\ gaList' = o.list /\ gaHeap' = gaHeap + o.blocks /\ GaThen(o.rc, "struct")
            /\ gaLeft' = Tail(gaLeft) /\ UNCHANGED gaSearch
    /\ UNCHANGED <<gaArg, gaSvc, gaRes, gaFound, gaCanon, gaTypes, gaPos, gaNfound, gaPath>>

(***************************************************************************)
(* The canonical name, then ga_serv and ga_port.                           *)
(***************************************************************************)
GaName ==
    /\ gaAt = "search" /\ gaSearch = <<>>
    /\ IF gaList = <<>> THEN GaError("NONAME") /\ UNCHANGED <<gaList, gaCanon, gaHeap>>
       ELSE IF gaArg.host # "null" /\ GaHas("CANONNAME")
       THEN /\ gaCanon' = "null"
            /\ \/ /\ gaList' = [gaList EXCEPT ![1].canon = "name"]
                  /\ gaHeap' = IF gaCanon = "saved" THEN gaHeap ELSE gaHeap + 1
                  /\ GaGo("serv")
               \/ gaCanon = "null" /\ GaError("MEMORY") /\ UNCHANGED <<gaList, gaHeap>>
       ELSE GaGo("serv") /\ UNCHANGED <<gaList, gaCanon, gaHeap>>
    /\ UNCHANGED <<gaArg, gaSvc, gaRes, gaSearch, gaLeft, gaFound, gaTypes, gaPos, gaNfound, gaPath>>

\* The socket types ga_serv calls ga_port for.
GaServTypes ==
    LET open == gaArg.socktype = "0"
    IN  IF gaArg.serv = "number" THEN IF open THEN <<"STREAM", "DGRAM">> ELSE <<gaArg.socktype>>
        ELSE SelectSeq(<<"STREAM", "DGRAM">>, LAMBDA t : (open \/ gaArg.socktype = t) /\ t \in gaSvc)
GaPort(t) == IF gaArg.serv = "number" THEN "number" ELSE t

ga_serv ==
    /\ gaAt = "serv"
    /\ IF gaArg.serv = "null" THEN gaAt' = "returned" /\ gaRet' = "ok" /\ UNCHANGED <<gaTypes, gaPos>>
       ELSE GaGo("port") /\ gaTypes' = GaServTypes /\ gaPos' = 1
    /\ UNCHANGED <<gaArg, gaSvc, gaRes, gaSearch, gaLeft, gaFound, gaList, gaCanon, gaNfound, gaHeap, gaPath>>

GaFill(list, i, t) == [list EXCEPT ![i].socktype = t, ![i].port = GaPort(t)]

GaMustClone(e) == e.flags = {"CLONE"} /\ e.socktype # "0"

\* ga_port at one entry: cloned if it has a socket type already, skipped if it has
\* another one and may not be cloned.
ga_port ==
    LET e == gaList[gaPos]
        t == Head(gaTypes)
    IN  /\ gaAt = "port" /\ gaTypes # <<>> /\ gaPos <= Len(gaList)
        /\ \/ /\ GaMustClone(e)
              /\ \E o \in ga_clone(gaList, gaPos) :
                    /\ gaHeap' = gaHeap + o.blocks /\ GaThen(o.rc, "port")
                    /\ gaList' = IF o.rc = "ok" THEN GaFill(o.list, gaPos + 1, t) ELSE o.list
              /\ gaPos' = gaPos + 2 /\ gaNfound' = gaNfound + 1
           \/ /\ ~GaMustClone(e) /\ (e.flags = {"CLONE"} \/ e.socktype = t)
              /\ gaList' = GaFill(gaList, gaPos, t)
              /\ gaPos' = gaPos + 1 /\ gaNfound' = gaNfound + 1 /\ GaGo("port") /\ UNCHANGED gaHeap
           \/ /\ e.flags = {} /\ e.socktype # t
              /\ gaPos' = gaPos + 1 /\ GaGo("port") /\ UNCHANGED <<gaList, gaNfound, gaHeap>>
        /\ UNCHANGED <<gaArg, gaSvc, gaRes, gaSearch, gaLeft, gaFound, gaCanon, gaTypes, gaPath>>

\* The end of the list, and of ga_serv.
GaPortEnds ==
    /\ gaAt = "port" /\ (gaTypes = <<>> \/ gaPos > Len(gaList))
    /\ \/ /\ gaTypes # <<>> /\ gaTypes' = Tail(gaTypes) /\ gaPos' = 1 /\ GaGo("port")
       \/ /\ gaTypes = <<>> /\ UNCHANGED <<gaTypes, gaPos>>
          /\ IF gaNfound > 0 THEN gaAt' = "returned" /\ gaRet' = "ok"
             ELSE GaError(IF gaArg.socktype = "0" THEN "NONAME" ELSE "SERVICE")
    /\ UNCHANGED <<gaArg, gaSvc, gaRes, gaSearch, gaLeft, gaFound, gaList, gaCanon, gaNfound, gaHeap, gaPath>>

GaBad ==
    /\ gaAt = "bad" /\ gaAt' = "returned" /\ freeaddrinfo
    /\ UNCHANGED <<gaArg, gaSvc, gaRes, gaSearch, gaLeft, gaFound, gaCanon, gaTypes, gaPos, gaNfound, gaPath, gaRet>>

getaddrinfo ==
    \/ GaEnter \/ ga_unix \/ GaText \/ GaUnknown \/ GaKnown \/ GaStruct
    \/ GaName \/ ga_serv \/ ga_port \/ GaPortEnds \/ GaBad

GaSpec == GaInit /\ [][getaddrinfo]_gaVars

(***************************************************************************)
(* Properties.                                                             *)
(***************************************************************************)
GaOk == gaAt = "returned" /\ gaRet = "ok"

\* The socket types returned for each address: those of the service, or the caller's.
GaWanted ==
    IF gaArg.serv = "null" THEN <<gaArg.socktype>>
    ELSE GaServTypes

\* A call that succeeds returns, for each address in the order of the answers, an entry
\* for each socket type that the service has, with the port of that type: the list that
\* the comment in ga_port.c draws up, whatever was cloned on the way.
GaReturnsAll ==
    GaOk /\ gaArg.serv # "path" =>
        LET n == Len(GaWanted)
        IN  /\ Len(gaList) = n * Len(gaFound)
            /\ \A i \in DOMAIN gaFound : \A k \in 1 .. n :
                LET e == gaList[(i - 1) * n + k]
                IN  /\ e.addr = gaFound[i].addr /\ e.family = gaFound[i].family
                    /\ e.socktype = GaWanted[k]
                    /\ e.port = IF gaArg.serv = "null" THEN "0" ELSE GaPort(GaWanted[k])

\* "free any alloc'ed memory": a call that fails leaves at most the canonical name that
\* was saved and not yet handed over; ga_unix, which does not go to bad, may leave its
\* entries.  A call that succeeds holds what it returns and no more.
GaFreesOnError ==
    gaAt = "returned" =>
        /\ gaRet = "ok" => gaHeap = GaBlocks(gaList)
        /\ gaRet # "ok" => gaHeap = GaBlocks(gaList) + (IF gaCanon = "saved" THEN 1 ELSE 0)
        /\ gaRet # "ok" /\ gaList # <<>> => gaArg.host = "/local"

\* A name is never refused for the family of its addresses, whatever an earlier call has
\* left in _res.options: only an address in text, or a local path, has the wrong one.
GaFamilyAsked ==
    gaRet = "ADDRFAMILY" => gaArg.host \in {"v4", "v6", "/local"}

\* With the family left open one family is enough: that nothing is known is said only if
\* neither lookup has found an address, or the service is not known.
GaOneFamilyEnough ==
    gaRet \in {"NONAME", "AGAIN", "FAIL", "NODATA"} => gaFound = <<>> \/ GaServTypes = <<>>

\* The canonical name belongs to the first entry and no other, clones included:
\* freeaddrinfo frees it once.
GaOneName == \A i \in DOMAIN gaList : gaList[i].canon # "null" => i = 1

\* getaddrinfo whatever allocations and look-ups fail: GaReturnsAll, GaFreesOnError,
\* GaFamilyAsked, GaOneFamilyEnough and GaOneName.
GaSound == GaReturnsAll /\ GaFreesOnError /\ GaFamilyAsked /\ GaOneFamilyEnough /\ GaOneName
=============================================================================
