----------------------------- MODULE HostsFile -----------------------------
(***************************************************************************)
(* dns::HostsFileCache (src/io/dns/HostsFileCache.cpp): a name is looked   *)
(* up by reading the hosts file through a buffer of BufSize characters.    *)
(*                                                                         *)
(* The buffer is a window on the file: m_used_buffer is fill - pos.  One   *)
(* action is one turn of the loop of parse_and_collect(): what is left is  *)
(* moved to the front and File::read fills the rest, so that the window is *)
(* full or ends with the file; then the state decides.  A file is a        *)
(* sequence of characters: Blank (a space or a tab), NewLine, Hash, Nul    *)
(* and those of Ips and names, which are one character each.               *)
(***************************************************************************)
EXTENDS Naturals, SequencesExt, FiniteSetsExt

CONSTANTS
  Files,    \* the contents hosts files may have
  Sought,   \* names that are looked up
  Rooms,    \* sizes of the span `out`
  MaxFqdn,  \* FQDN_MAX_OCTET_LEN, 255
  BufSize   \* the size of m_buffer, 511

ASSUME HostsFileAssumption ==
  /\ BufSize \in Nat \ {0} /\ MaxFqdn \in Nat
  /\ Files \cup Sought \subseteq Seq(STRING) /\ Rooms \subseteq Nat

VARIABLES
  reading,  \* where the call is
  file,     \* contents of the file
  sought,   \* the name, in lower case
  room,     \* the size of `out` at the call
  pos,      \* first character of the file in the used part of the buffer
  fill,     \* first character of the file behind the buffer
  state,    \* HostsFileParser::m_state
  lineAddr, \* the address of the line, or NoIp
  found     \* what has been written to `out`

hostsVars == <<reading, file, sought, room, pos, fill, state, lineAddr, found>>

Blank == " "
NewLine == "/"
Hash == "#"
Nul == "0"
NoIp == "none"
Ips == {"1", "2"}

(* dns::detail::to_lower *)
ToLower(c) == IF c = "A" THEN "a" ELSE c
LowerChars(s) == [i \in DOMAIN s |-> ToLower(s[i])]

HostsInit ==
  /\ reading = "idle"
  /\ file = <<>> /\ sought = <<>> /\ room = 0
  /\ pos = 1 /\ fill = 1
  /\ state = "AT_IP" /\ lineAddr = NoIp /\ found = <<>>

(* HostsFileCache::pull(): the file is opened and read for the first time,  *)
(* unless the name is too long to be one.                                   *)
Pull(text, name, n) ==
  /\ reading = "idle"
  /\ reading' = IF Len(name) > MaxFqdn THEN "done" ELSE "loop"
  /\ file' = text /\ sought' = LowerChars(name) /\ room' = n
  /\ fill' = Min({BufSize, Len(text)}) + 1
  /\ UNCHANGED <<pos, state, lineAddr, found>>

(* File::open or a read fails, or a frame cannot be allocated. *)
ReadFails ==
  /\ reading = "loop"
  /\ reading' = "failed"
  /\ UNCHANGED <<file, sought, room, pos, fill, state, lineAddr, found>>

-----------------------------------------------------------------------------
Used == fill - pos

(* while (!out.empty() && self.m_used_buffer != 0) *)
Loops == Len(found) < room /\ Used # 0

(* Mutant: nothing is read while there is something left. *)
NotRefilled == fill

(* shift_buffer_to_left() and read_to_free_buffer() *)
Refilled == Min({pos + BufSize, Len(file) + 1})

(* The first character from i on that is not in cs, or the end. *)
SkipAll(i, end, cs) == CHOOSE j \in i .. end :
                         /\ \A k \in i .. j - 1 : file[k] \in cs
                         /\ j = end \/ file[j] \notin cs

(* skip_ws() *)
SkipWs(end) == SkipAll(pos, end, {Blank})

(* find_next_ws(): the array that holds the delimiters ends in a Nul. *)
Delimiters == {Blank, Hash, NewLine, Nul}
FindNextWs(i, end) == CHOOSE j \in i .. end :
                        /\ \A k \in i .. j - 1 : file[k] \notin Delimiters
                        /\ j = end \/ file[j] \in Delimiters

(* The buffer ends at `it`, or one of cs is there. *)
EndsAt(it, end, cs) == IF it = end THEN TRUE ELSE file[it] \in cs

(* IP::parse() *)
ParseIp(token) == IF Len(token) = 1 /\ token[1] \in Ips THEN token[1] ELSE NoIp

AtIp ==
  /\ reading = "loop" /\ Loops /\ state = "AT_IP"
  /\ fill' = Refilled
  /\ LET from == SkipWs(fill')
         it == FindNextWs(from, fill')
         ip == ParseIp(SubSeq(file, from, it - 1))
     IN /\ pos' = it
        /\ lineAddr' = IF EndsAt(it, fill', {Hash, NewLine}) THEN NoIp ELSE ip
        /\ state' = IF lineAddr' # NoIp THEN "AT_NAME" ELSE "SKIPPING_LINE"
  /\ UNCHANGED <<reading, file, sought, room, found>>

(* Mutant: the end of the line does not end the list of names. *)
StayAtName(c) == "AT_NAME"

(* What follows the name at which c is. *)
AfterName(c) == IF c = NewLine THEN "SKIPPING_LINE" ELSE "AT_NAME"

AtName ==
  /\ reading = "loop" /\ Loops /\ state = "AT_NAME"
  /\ fill' = Refilled
  /\ LET from == SkipWs(fill')
         it == FindNextWs(from, fill')
     IN /\ pos' = it
        /\ IF EndsAt(it, fill', {Hash})
             THEN state' = "SKIPPING_LINE" /\ UNCHANGED found
             ELSE /\ found' = IF LowerChars(SubSeq(file, from, it - 1)) = sought
                               THEN Append(found, lineAddr) ELSE found
                  /\ state' = AfterName(file[it])
  /\ UNCHANGED <<reading, file, sought, room, lineAddr>>

(* skip_line(): the line feed too, or one character more than there are     *)
(* when there is none and the buffer is not full.  adwance() asserts that   *)
(* this does not happen.                                                    *)
SkipLine ==
  /\ reading = "loop" /\ Loops /\ state = "SKIPPING_LINE"
  /\ fill' = Refilled
  /\ LET it == SkipAll(pos, fill', ToSet(file) \ {NewLine})
         n == Min({BufSize, it - pos + 1})
     IN /\ state' = IF it # fill' THEN "AT_IP" ELSE state
        /\ IF n <= fill' - pos
             THEN pos' = pos + n /\ UNCHANGED reading
             ELSE reading' = "overrun" /\ UNCHANGED pos
  /\ UNCHANGED <<file, sought, room, lineAddr, found>>

LookupReturns ==
  /\ reading = "loop" /\ ~Loops
  /\ reading' = "done"
  /\ UNCHANGED <<file, sought, room, pos, fill, state, lineAddr, found>>

HostsTurn == AtIp \/ AtName \/ SkipLine \/ LookupReturns

HostsNext ==
  \/ reading = "idle" /\ \E text \in Files, name \in Sought, n \in Rooms : Pull(text, name, n)
  \/ ReadFails
  \/ HostsTurn

HostsSpec == HostsInit /\ [][HostsNext]_hostsVars

-----------------------------------------------------------------------------
(* The line of the character at i: where it starts, and its line feed. *)
LineStart(i) == Max({1} \cup {j + 1 : j \in {k \in 1 .. i - 1 : file[k] = NewLine}})
LineEnd(i) == Min({k \in i .. Len(file) : file[k] = NewLine})

(* Files that every line of is ended and fits the buffer, without a Nul. *)
Ordinary ==
  /\ Nul \notin ToSet(file)
  /\ file # <<>> => Last(file) = NewLine
  /\ \A i \in DOMAIN file : LineEnd(i) - LineStart(i) + 1 < BufSize

(* Where words start in a file, and where they end. *)
IsWord(i, j) ==
  /\ \A k \in i .. j : file[k] \notin Delimiters
  /\ i = 1 \/ file[i - 1] \in Delimiters
  /\ file[j + 1] \in Delimiters
Words(from, to) == {w \in (from .. to) \X (from .. to) : w[1] <= w[2] /\ IsWord(w[1], w[2])}

(* The first of some words. *)
FirstOf(words) == CHOOSE v \in words : \A u \in words : v[1] <= u[1]

(* What the first word before w in its line is parsed to. *)
AddressOf(w) ==
  LET before == Words(LineStart(w[1]), w[1] - 1)
      first == FirstOf(before)
  IN IF before = {} THEN NoIp ELSE ParseIp(SubSeq(file, first[1], first[2]))

(* A word gives the sought name an address: the first word of its line is   *)
(* one, there is no comment sign before it nor right behind it.             *)
Gives(w) ==
  LET start == LineStart(w[1])
  IN /\ AddressOf(w) # NoIp
     /\ \A k \in start .. w[2] + 1 : file[k] # Hash
     /\ LowerChars(SubSeq(file, w[1], w[2])) = sought

Given == {w \in Words(1, Len(file)) : Gives(w)}

(* A lookup gives the addresses of exactly the lines that name what is      *)
(* sought, in the order of the file and as many as there is room for,       *)
(* wherever the window cuts lines and words; and never skips more than it   *)
(* has read.  This holds for files whose lines all end and fit the buffer:  *)
(* the last line is lost, or skipped beyond what was read, when it has no   *)
(* line feed, and a line that fills the buffer ends the search.  A name has *)
(* characters: without any it would be found behind a blank at the end of a *)
(* line.                                                                    *)
HostsExact ==
  Ordinary /\ Len(sought) \in 1 .. MaxFqdn /\ reading \in {"done", "overrun"} =>
    LET given == Given
        rank(w) == Cardinality({v \in given : v[1] <= w[1]})
    IN /\ reading = "done"
       /\ Len(found) = Min({room, Cardinality(given)})
       /\ \A w \in given : rank(w) <= room => found[rank(w)] = AddressOf(w)

(* A lookup ends, one way or the other, in every file without a Nul: at a   *)
(* Nul between names the loop finds an empty name again and again.          *)
HostsEnds == (reading = "loop" /\ Nul \notin ToSet(file)) ~> reading \in {"done", "failed", "overrun"}
=============================================================================
