------------------------------ MODULE UrlOutput ------------------------------
(***************************************************************************)
(* urlOutput of internal/tunnel/process.go: looks for the tunnel's address in *)
(* what cloudflared prints, which arrives in chunks of any size, and keeps    *)
(* only the end of it.  An address is a sequence of characters of Addresses   *)
(* (in the code, what urlPattern matches) at which the text ends, or which a   *)
(* character follows that is not part of a word.                              *)
(***************************************************************************)
EXTENDS Sequences, FiniteSetsExt, Integers

CONSTANTS
    Characters,
    WordCharacters, \* those that must not follow an address: letters, digits, "_"
    Addresses,      \* what the pattern matches
    Limit,          \* 8192: the buffer is cut when it is longer
    Keep,           \* 4096: what a cut leaves of it
    MaxChunk,       \* bound: characters in one Write
    MaxPrinted      \* bound: characters in all

\* a stands in s from its i-th character on.
Stands(a, s, i) == i + Len(a) - 1 <= Len(s) /\ \A k \in 1..Len(a) : s[i + k - 1] = a[k]

ASSUME SizesAssumption == Keep \in Nat /\ Limit \in Nat /\ Keep < Limit

\* No address is part of another: it begins with "https://", ends with the domain, and
\* has neither in between.  A name of the domain has at most 63 characters.
ASSUME AddressAssumption ==
    /\ Addresses \subseteq Seq(Characters)
    /\ \A a \in Addresses : Len(a) \in 1..(Keep + 1)
    /\ \A a, b \in Addresses : \A i \in 1..Len(b) : Stands(a, b, i) => a = b

VARIABLES
    buffer, sent,
    found,      \* all that went into the channel
    printed     \* history: all that cloudflared has printed
outputVars == <<buffer, sent, found, printed>>

Init == buffer = <<>> /\ sent = FALSE /\ found = <<>> /\ printed = <<>>

\* urlPattern at the i-th character: an address, and no word goes on after it.
MatchesAt(a, s, i) ==
    Stands(a, s, i) /\ (i + Len(a) <= Len(s) => s[i + Len(a)] \notin WordCharacters)

\* urlPattern.FindString: the leftmost match, or nothing.
Matches(s) == {i \in 1..Len(s) : \E a \in Addresses : MatchesAt(a, s, i)}
FindString(s) ==
    IF Matches(s) = {} THEN <<>>
    ELSE CHOOSE a \in Addresses : MatchesAt(a, s, Min(Matches(s)))

Cut(s) == IF Len(s) > Limit THEN SubSeq(s, Len(s) - Keep + 1, Len(s)) ELSE s

\* Mutant of Write: cuts before it searches.
WriteCutFirst(b) ==
    LET text == Cut(buffer \o b) IN
    /\ printed' = printed \o b
    /\ IF sent \/ FindString(text) = <<>>
       THEN buffer' = (IF sent THEN buffer ELSE text) /\ UNCHANGED <<sent, found>>
       ELSE sent' = TRUE /\ found' = Append(found, FindString(text)) /\ buffer' = <<>>

Write(b) ==
    LET text == buffer \o b IN
    /\ printed' = printed \o b
    /\ \/ sent /\ UNCHANGED <<buffer, sent, found>>
       \/ /\ ~sent /\ FindString(text) # <<>>
          /\ found' = Append(found, FindString(text))
          /\ sent' = TRUE /\ buffer' = <<>>
       \/ /\ ~sent /\ FindString(text) = <<>>
          /\ buffer' = Cut(text)
          /\ UNCHANGED <<sent, found>>

Chunks == UNION {[1..n -> Characters] : n \in 1..MaxChunk}

Next == \E b \in Chunks : Len(printed) + Len(b) <= MaxPrinted /\ Write(b)

Spec == Init /\ [][Next]_outputVars

-----------------------------------------------------------------------------
\* However the output is cut into chunks, nothing goes into the channel as long as no
\* address is complete, and then, once, the first that is (lines 120 to 130).  If a
\* chunk ended right after it, a word may go on there in the next.
FirstAddressFound ==
    IF found = <<>> THEN Matches(printed) = {}
    ELSE /\ Len(found) = 1 /\ found[1] \in Addresses
         /\ \E i \in 1..Len(printed) :
                /\ Stands(found[1], printed, i)
                /\ \A j \in Matches(printed) : i <= j
=============================================================================
