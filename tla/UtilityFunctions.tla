-------------------------- MODULE UtilityFunctions --------------------------
(***************************************************************************)
(* Searching and copying.                                                  *)
(*                                                                         *)
(* SL_Utility_StringSearcher::search, which compares the head of the       *)
(* pattern as one integer of Width bytes, sixteen places in a row, and     *)
(* SL_Utility_KMPStringSearcher.  The text is the first str_len bytes of   *)
(* text_memory; places count from 0.  Line numbers refer to                *)
(* include/SL_Utility_StringSearcher.h.                                    *)
(*                                                                         *)
(* SL_Utility_Memory::memcpy and memclear, in the form they have on other  *)
(* systems than Windows: words of eight bytes, 32 in a row while more than *)
(* 256 bytes are left, then a switch with one case for each number that    *)
(* is left, and at most one word each of four, two and one byte at the     *)
(* end.  Line numbers refer to src/SL_Utility_Memory.cpp.                  *)
(***************************************************************************)
EXTENDS Integers, Sequences

CONSTANTS Memories,     \* what the text_memory from the text's start on may hold
          TextLengths,      \* lengths of the text
          Patterns      \* what is searched

VARIABLES text_memory, str_len, pattern,
          place,        \* where search is: i
          found,        \* what search returned: a place, NotFound, Running or Idle
          next_, i, j,  \* the KMP searcher's table, and its place in the text and the pattern
          kmp           \* what the KMP searcher returned

searchVars == <<text_memory, str_len, pattern, place, found, next_, i, j, kmp>>

NotFound == -1
Running  == -2
Idle     == -3

Least(S) == CHOOSE x \in S : \A y \in S : x <= y

(* The widest integer the pattern has room for.                            *)
Width == LET len == Len(pattern)
         IN  IF len >= 8 THEN 8 ELSE IF len >= 4 THEN 4 ELSE IF len >= 2 THEN 2 ELSE 1

Matches(p, from, to) == \A k \in from .. to : text_memory[p + k + 1] = pattern[k + 1]
HeadMatches(p) == Matches(p, 0, Width - 1)
Occurs(p)      == Matches(p, 0, Len(pattern) - 1)

SearchInit ==
    /\ text_memory = << >> /\ str_len = 0 /\ pattern = << >>
    /\ place = 0 /\ found = Idle
    /\ next_ = << >> /\ i = 0 /\ j = 0 /\ kmp = Idle

(* The searchers are called with the same arguments.                       *)
BeginSearch(m, l, p) ==
    /\ found = Idle
    /\ text_memory' = m /\ str_len' = l /\ pattern' = p
    /\ found' = IF l < Len(p) THEN NotFound ELSE Running
    /\ kmp' = Running
    /\ UNCHANGED <<place, next_, i, j>>

(* Mutated form of Compared: the last place is left out.                   *)
Compared_OneShort(p) ==
    LET rows == p + 16 * ((str_len - p) \div 16)
    IN  {q \in p .. str_len - 1 : q < rows \/ q + Width < str_len}

(* The places whose heads are compared from p on: all those in rows of     *)
(* sixteen, past the last the head has room at, and then up to that.       *)
Compared(p) ==
    LET rows == p + 16 * ((str_len - p) \div 16)
    IN  {q \in p .. str_len - 1 : q < rows \/ q + Width <= str_len}

(* A head that matches is the result if it is the whole pattern ...        *)
Search ==
    /\ found = Running
    /\ LET heads == {q \in Compared(place) : HeadMatches(q)}
           p     == Least(heads)
       IN  \/ /\ heads = {}
              /\ found' = NotFound /\ UNCHANGED place
           \/ /\ heads # {} /\ Len(pattern) = Width
              /\ found' = p /\ UNCHANGED place
           \/ /\ heads # {} /\ Len(pattern) > Width
              /\ \/ p + Width >= str_len /\ found' = NotFound /\ UNCHANGED place
                 \/ /\ p + Width < str_len /\ Occurs(p)
                    /\ found' = IF p + Len(pattern) <= str_len THEN p ELSE NotFound
                    /\ UNCHANGED place
                 \/ /\ p + Width < str_len /\ ~Occurs(p)   \* ... else it goes on behind it
                    /\ place' = p + Width + 1 /\ UNCHANGED found
    /\ UNCHANGED <<text_memory, str_len, pattern, next_, i, j, kmp>>

-----------------------------------------------------------------------------
(* while (j > 0 && c != pattern[j]) j = next_[j - 1], with the table t.    *)
Fallen(t, c, from) ==
    LET fall[k \in 0 .. Len(pattern)] ==
            IF k = 0 \/ (k < Len(pattern) /\ c = pattern[k + 1]) THEN k ELSE fall[t[k]]
    IN  fall[from]

Matched(k, c) == IF c = pattern[k + 1] THEN k + 1 ELSE k

KmpInit ==
    /\ kmp = Running /\ next_ = << >>
    /\ LET table[m \in 1 .. Len(pattern)] ==
               IF m = 1 THEN <<0>>
               ELSE LET t == table[m - 1]
                        c == pattern[m]
                    IN  Append(t, Matched(Fallen(t, c, t[m - 1]), c))
       IN  next_' = table[Len(pattern)]
    /\ UNCHANGED <<text_memory, str_len, pattern, place, found, i, j, kmp>>

(* Mutated form of KmpStep: one fallback at most.                          *)
KmpStep_OneFallback ==
    /\ next_ # << >> /\ kmp = Running
    /\ \/ /\ i = str_len
          /\ kmp' = NotFound /\ UNCHANGED <<i, j>>
       \/ /\ i < str_len
          /\ LET c == text_memory[i + 1]
                 k == IF j > 0 /\ c # pattern[j + 1] THEN next_[j] ELSE j
             IN  j' = Matched(k, c)
          /\ i' = i + 1
          /\ kmp' = IF j' = Len(pattern) THEN i - j' + 1 ELSE Running
    /\ UNCHANGED <<text_memory, str_len, pattern, place, found, next_>>

KmpStep ==
    /\ next_ # << >> /\ kmp = Running
    /\ \/ /\ i = str_len
          /\ kmp' = NotFound /\ UNCHANGED <<i, j>>
       \/ /\ i < str_len
          /\ j' = Matched(Fallen(next_, text_memory[i + 1], j), text_memory[i + 1])
          /\ i' = i + 1
          /\ kmp' = IF j' = Len(pattern) THEN i - j' + 1 ELSE Running
    /\ UNCHANGED <<text_memory, str_len, pattern, place, found, next_>>

SearchNext ==
    \/ \E m \in Memories, l \in TextLengths, p \in Patterns : BeginSearch(m, l, p)
    \/ Search \/ KmpInit \/ KmpStep

SearchSpec == SearchInit /\ [][SearchNext]_searchVars

-----------------------------------------------------------------------------
Occurrences == {p \in 0 .. str_len - Len(pattern) : Occurs(p)}
First == IF Occurrences = {} THEN NotFound ELSE Least(Occurrences)

(* A head that matches without the rest hides occurrences that start in    *)
(* it or right behind it (line 117); in a text of whole rows heads are     *)
(* compared beyond its end (lines 103 to 122).                             *)
Hides(p)  == ~Occurs(p) /\ HeadMatches(p) /\ p < First
Overreads == \E p \in Compared(0) : p + Width > str_len /\ HeadMatches(p)

(* search: what it returns is an occurrence, and the first one, unless     *)
(* part of the pattern came before it or after the text's end; the KMP     *)
(* searcher always returns the first one.                                  *)
SearchTrue ==
    /\ found >= 0 => Occurs(found)
    /\ found \notin {Idle, Running} /\ ~Overreads =>
          /\ found >= 0 => found \in Occurrences
          /\ (\A p \in 0 .. str_len - Width : ~Hides(p)) => found = First
    /\ kmp \notin {Idle, Running} => kmp = First

-----------------------------------------------------------------------------
(* SL_Utility_Memory.                                                      *)
CONSTANTS CopyLengths,      \* how many bytes are copied or cleared
          Distances     \* how far behind dest src begins

VARIABLES op,           \* "memcpy", "memclear", or "none"
          length, distance,
          memory,       \* the bytes from dest on
          before,       \* history: what they were
          n,            \* bytes left, as rows go by
          todo,         \* the words of this row, or of the switch's case
          at            \* dest_64, from dest on

memoryVars == <<op, length, distance, memory, before, n, todo, at>>

MemoryInit ==
    /\ op = "none" /\ length = 0 /\ distance = 0
    /\ memory = << >> /\ before = << >>
    /\ n = 0 /\ todo = << >> /\ at = 0

BeginMemory(o, l, d) ==
    /\ op = "none"
    /\ op' = o /\ length' = l /\ distance' = d
    /\ memory' = [k \in 1 .. l + d + 8 |-> k] /\ before' = memory'
    /\ n' = l /\ todo' = << >> /\ at' = 0

(* MOD0 to MOD7, word by word: one read of so many bytes, one write.       *)
CopyWord ==
    /\ op = "memcpy" /\ todo # << >>
    /\ memory' = [k \in DOMAIN memory |->
                     IF k - 1 \in at .. at + Head(todo) - 1 THEN memory[k + distance]
                     ELSE memory[k]]
    /\ at' = at + Head(todo) /\ todo' = Tail(todo)
    /\ UNCHANGED <<op, length, distance, before, n>>

ClearWord ==
    /\ op = "memclear" /\ todo # << >>
    /\ memory' = [k \in DOMAIN memory |->
                     IF k - 1 \in at .. at + Head(todo) - 1 THEN 0 ELSE memory[k]]
    /\ at' = at + Head(todo) /\ todo' = Tail(todo)
    /\ UNCHANGED <<op, length, distance, before, n>>

Words(k) == [w \in 1 .. k |-> 8]

(* Mutated form of Rest: of seven bytes the last is forgotten.             *)
Rest_NoByte(k) ==
    (IF k >= 4 THEN <<4>> ELSE << >>) \o (IF k % 4 >= 2 THEN <<2>> ELSE << >>)
       \o (IF k \in {1, 3, 5} THEN <<1>> ELSE << >>)

(* MOD1 to MOD7: what is left after the words.                             *)
Rest(k) ==
    (IF k >= 4 THEN <<4>> ELSE << >>) \o (IF k % 4 >= 2 THEN <<2>> ELSE << >>)
       \o (IF k % 2 = 1 THEN <<1>> ELSE << >>)

(* The loop's body, of each function.                                      *)
Row(o) ==
    /\ op = o /\ todo = << >> /\ n > 256
    /\ todo' = Words(32) /\ n' = n - 256
    /\ UNCHANGED <<op, length, distance, memory, before, at>>

CopyRow  == Row("memcpy")
ClearRow == Row("memclear")

(* The switch of each function: case n.                                    *)
Case(o) ==
    /\ op = o /\ todo = << >> /\ n \in 1 .. 256
    /\ todo' = Words(n \div 8) \o Rest(n % 8) /\ n' = 0
    /\ UNCHANGED <<op, length, distance, memory, before, at>>

CopyCase  == Case("memcpy")
ClearCase == Case("memclear")

MemoryNext ==
    \/ \E l \in CopyLengths, d \in Distances : BeginMemory("memcpy", l, d) \/ BeginMemory("memclear", l, d)
    \/ CopyRow \/ CopyCase \/ CopyWord
    \/ ClearRow \/ ClearCase \/ ClearWord

MemorySpec == MemoryInit /\ [][MemoryNext]_memoryVars

-----------------------------------------------------------------------------
(* memcpy, memclear: each byte of the length is written, with the one at   *)
(* its place in src as that was when memcpy was called - also if the two   *)
(* overlap, as dest is before src here - and no byte behind them.          *)
WholeLength ==
    op # "none" /\ n = 0 /\ todo = << >> =>
       \A k \in DOMAIN memory :
          memory[k] = IF k > length THEN before[k]
                      ELSE IF op = "memclear" THEN 0 ELSE before[k + distance]
=============================================================================
