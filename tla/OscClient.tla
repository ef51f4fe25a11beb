----------------------------- MODULE OscClient -----------------------------
(***************************************************************************)
(* A program that builds OpenSoundControl packets with the library of      *)
(* OscClientOps (libOSC/OSC-client.c): it calls the procedures of          *)
(* OSC-client.h in any order the header's "basic model" allows, and writes *)
(* arguments only after an address.  What the program has said so far is   *)
(* recorded beside the buffer, to compare it with the packet.              *)
(*                                                                         *)
(* A careful client stops at the first error and resets the buffer; a      *)
(* careless one goes on.  OSC_closeAllBundles is a loop over               *)
(* OSC_closeBundle, one step for each round.                               *)
(***************************************************************************)
EXTENDS OscClientOps, FiniteSets

CONSTANTS
    Careful,        \* the client resets the buffer after an error
    Times,          \* time tags
    Names,          \* addresses
    Types,          \* type strings, with their comma
    Firsts,         \* first bytes of numbers
    FloatLists,     \* first bytes of the arguments of OSC_writeFloatArgs
    Strings,        \* string arguments
    DeepestTry,     \* bound on the bundleDepth of careless clients
    LongestTalk     \* bound on what they say

(* What the program passes to the library.                                 *)
ArgumentsAssumption ==
    /\ Careful \in BOOLEAN
    /\ Times \subseteq Int
    /\ Names \union Types \union Strings \subseteq Seq(STRING)
    /\ \A s \in Names \union Types \union Strings : \A i \in DOMAIN s : s[i] # Nul
    /\ \A types \in Types : types # <<>> /\ types[1] = ","
    /\ Firsts \subseteq STRING /\ FloatLists \subseteq Seq(Firsts)

VARIABLES
    b,          \* the OSCbuf
    err,        \* result of the last call
    closing,    \* OSC_closeAllBundles is running
    stray,      \* a size was patched through a pointer that was never set
    said,       \* the successful calls since the last reset, as tokens
    messages    \* the typed messages among them, with the types given

clientVars == <<b, err, closing, stray, said, messages>>

ClientInit ==
    /\ b = Empty /\ err = 0 /\ closing = FALSE /\ stray = FALSE
    /\ said = <<>> /\ messages = <<>>

Bytes == Firsts \union {Nul}

\* The program can make another call.
Idle == ~closing /\ ~stray
Ready ==
    /\ Idle
    /\ Careful => err = 0
    /\ b.bundleDepth <= DeepestTry /\ Len(said) <= LongestTalk

(* A call has returned r, and has said tokens if it was successful.        *)
Returned(r, tokens) ==
    /\ b' = r.buf /\ err' = r.err
    /\ said' = IF r.err = 0 THEN said \o tokens ELSE said
    /\ UNCHANGED <<closing, stray>>

\* Arguments of these types were added to the current message.
Given(types) ==
    messages' =
        IF err' = 0 /\ messages # <<>> /\ b.typeStringPtr # 0
        THEN [messages EXCEPT ![Len(messages)].given = @ \o types]
        ELSE messages

OpenBundle(tt, stale) ==
    /\ Ready
    /\ Returned(OSC_openBundle(b, tt, stale), OpenToken(tt))
    /\ UNCHANGED messages

CloseBundle(stale) ==
    LET r == OSC_closeBundle(b, stale)
    IN  /\ Ready
        /\ b' = r.buf /\ err' = r.err
        /\ said' = IF r.err = 0 THEN said \o CloseToken ELSE said
        /\ stray' = (r.err = 0 /\ Stray(b))
        /\ UNCHANGED <<closing, messages>>

CloseAllBundles(stale) ==
    LET r == IF b.bundleDepth = 0 THEN Returns(b, 6)
             ELSE CheckTypeTag(b, Nul, stale)
    IN  /\ Ready
        /\ b' = r.buf /\ err' = r.err
        /\ closing' = (r.err = 0)
        /\ UNCHANGED <<stray, said, messages>>

\* The loop looks at the depth only.
CloseAllStep(stale) ==
    /\ closing /\ ~stray
    /\ IF b.bundleDepth > 0
       THEN LET r == OSC_closeBundle(b, stale)
            IN  /\ b' = r.buf
                /\ said' = IF r.err = 0 THEN said \o CloseToken ELSE said
                /\ stray' = (r.err = 0 /\ Stray(b))
                /\ UNCHANGED closing
       ELSE /\ b' = [b EXCEPT !.typeStringPtr = 0]
            /\ closing' = FALSE
            /\ UNCHANGED <<said, stray>>
    /\ UNCHANGED <<err, messages>>

WriteAddress(name, stale) ==
    /\ Ready
    /\ Returned(OSC_writeAddress(b, name, stale), MessageToken \o OSC_padString(name))
    /\ UNCHANGED messages

WriteAddressAndTypes(name, types, stale) ==
    /\ Ready
    /\ Returned(OSC_writeAddressAndTypes(b, name, types, stale),
                MessageToken \o OSC_padString(name) \o OSC_padString(types))
    /\ messages' = IF err' = 0
                   THEN Append(messages, [types |-> types, given |-> <<",">>])
                   ELSE messages

InMessage == b.state \in {ONE_MSG_ARGS, GET_ARGS}

WriteIntArg(type, first, stale) ==
    /\ Ready /\ InMessage
    /\ Returned(OSC_writeIntArg(b, type, first, stale), <<Word(first)>>)
    /\ Given(<<type>>)

WriteFloatArgs(firsts, stale) ==
    /\ Ready /\ InMessage
    /\ Returned(OSC_writeFloatArgs(b, firsts, stale),
                [i \in DOMAIN firsts |-> Word(firsts[i])])
    /\ Given([i \in DOMAIN firsts |-> "f"])

WriteStringArg(s, stale) ==
    /\ Ready /\ InMessage
    /\ Returned(OSC_writeStringArg(b, s, stale),
                IF b.gettingFirstUntypedArg /\ s # <<>> /\ s[1] = ","
                THEN OSC_padStringWithAnExtraStupidComma(s) ELSE OSC_padString(s))
    /\ Given(<<"s">>)

ChangeTimestamp(tt) ==
    LET r == ChangeOutermostTimestamp(b, tt)
    IN  /\ Ready
        /\ b' = r.buf /\ err' = r.err
        /\ said' = IF r.err = 0 THEN OpenToken(tt) \o Tail(said) ELSE said
        /\ UNCHANGED <<closing, stray, messages>>

ResetBuffer ==
    /\ Idle
    /\ b' = OSC_resetBuffer(b)
    /\ err' = 0 /\ said' = <<>> /\ messages' = <<>>
    /\ UNCHANGED <<closing, stray>>

ClientNext ==
    \/ \E stale \in Bytes :
        \/ \E tt \in Times : OpenBundle(tt, stale)
        \/ CloseBundle(stale)
        \/ CloseAllBundles(stale)
        \/ CloseAllStep(stale)
        \/ \E name \in Names :
            \/ WriteAddress(name, stale)
            \/ \E types \in Types : WriteAddressAndTypes(name, types, stale)
        \/ \E first \in Firsts, type \in {"i", "f"} : WriteIntArg(type, first, stale)
        \/ \E firsts \in FloatLists : WriteFloatArgs(firsts, stale)
        \/ \E s \in Strings : WriteStringArg(s, stale)
    \/ \E tt \in Times : ChangeTimestamp(tt)
    \/ ResetBuffer

ClientSpec == ClientInit /\ [][ClientNext]_clientVars

-----------------------------------------------------------------------------
HowMany(token) == Cardinality({i \in DOMAIN said : said[i].is = token})

(* The packet fits into the buffer, and the pointers of the OSCbuf lie in  *)
(* it, also for a client that goes on after errors (CheckOverflow,         *)
(* OSC-client.c).                                                          *)
StaysInBuffer == InBuffer(b)

(* As long as the client resets the buffer after an error, no call patches *)
(* a count through a pointer that was never set (OSC_openBundle,           *)
(* OSC_closeBundle).                                                       *)
NothingStray == Careful => ~stray

(* The bundleDepth is "How many sub-sub-bundles are we in now?", after a   *)
(* refused OSC_openBundle too.                                             *)
DepthIsTrue == b.bundleDepth = HowMany("open") - HowMany("close")

(* After calls that all succeeded the depth is right: no call opens or     *)
(* closes a bundle by half.                                                *)
DepthCounts == err = 0 => DepthIsTrue

(* A finished bundle holds no typed message that lacks an argument or has  *)
(* one of another type (CheckTypeTag).                                     *)
BundlesKeepTheirTypes ==
    b.state = DONE /\ err = 0 =>
        \A i \in DOMAIN messages : messages[i].given = messages[i].types
=============================================================================
