-------------------------------- MODULE Users --------------------------------
(***************************************************************************)
(* The lists of uses that values keep of the instructions that have them   *)
(* as operands (User.cpp), and the replacement of operands (add() and      *)
(* replace() in Instruction.cpp).  Comparison of values is structural, a   *)
(* removal from a list leaves its length, and replaceAllUsesWith()         *)
(* iterates over a list while it changes it.                               *)
(*                                                                         *)
(* Abstractions.  Instructions are numbered in the order they are made in  *)
(* and are the only users; they are unary or binary and live as long as    *)
(* the program.  A step that uses an empty pointer, or a reference to an   *)
(* instruction that was not made after all, is undefined behaviour: the    *)
(* model goes on no further.                                               *)
(***************************************************************************)
EXTENDS Naturals, Sequences

CONSTANTS
  Kind,       \* class and type of an instruction
  Unary,      \* those of unary instructions; the others are binary
  Constant,   \* values that are no users
  Empty,      \* a pointer that has been moved from, or was null
  Dangling,   \* a use by an instruction whose constructor threw
  MaxMade,    \* bound on the instructions
  MaxUses     \* bound: what only New makes a list that is not empty longer than

ASSUME UsersAssumption ==
  /\ Unary \subseteq Kind /\ MaxMade \in Nat /\ MaxUses \in Nat
  /\ Empty \notin Constant /\ Dangling \notin Constant /\ Empty # Dangling
  /\ \A value \in Constant \cup {Empty, Dangling} : value \notin Nat

VARIABLES
  kind,      \* of an instruction
  operands,  \* m_operands of an instruction
  uses,      \* m_uses of an instruction
  loop,      \* replaceAllUsesWith() that is going on
  undefined  \* an empty pointer or a dangling reference has been used

usersVars == << kind, operands, uses, loop, undefined >>

Instruction == DOMAIN kind
Idle == [def |-> Empty]
Alive(use) == use \notin {Empty, Dangling}

\* Value::operator==, which no instruction refines.
Same(v, w) == v = w \/ (v \in Instruction /\ w \in Instruction /\ kind[v] = kind[w])

-----------------------------------------------------------------------------
(* Lists of uses *)

\* Of a value that is no user nothing is kept.
SetUse(lists, value, user) ==
  IF value \in DOMAIN lists THEN [lists EXCEPT ![value] = Append(@, user)] ELSE lists

\* Mutant of Matches: uses are told apart by instruction.
MatchesObject(use, user) == use = user

Matches(use, user) == Same(use, user)

\* The uses that are kept, in their order.
Kept(list, user) ==
  LET kept[i \in 0 .. Len(list)] ==
        IF i = 0 THEN << >>
        ELSE IF Matches(list[i], user) THEN kept[i - 1] ELSE Append(kept[i - 1], list[i])
  IN kept[Len(list)]

\* Mutant of RemoveUse: the list is cut to the uses that are kept.
RemoveUseErasing(list, user) == Kept(list, user)

\* remove_if() without erase(): the uses that are kept move to the front, which leaves
\* empty pointers behind; what it need not move over stays.
RemoveUse(list, user) ==
  LET kept == Kept(list, user)
  IN [i \in DOMAIN list |->
        IF i <= Len(kept) THEN kept[i] ELSE IF Matches(list[i], user) THEN list[i] ELSE Empty]

-----------------------------------------------------------------------------
(* Operations *)

UsersInit ==
  /\ kind = << >>
  /\ operands = << >>
  /\ uses = << >>
  /\ loop = Idle
  /\ undefined = FALSE

Operands(class) == [1 .. (IF class \in Unary THEN 1 ELSE 2) -> Instruction \cup Constant]

New(class, values) ==
  LET user == Len(kind) + 1
      first == SetUse(uses, values[1], user)
      used == IF class \in Unary THEN first ELSE SetUse(first, values[2], user)
  IN /\ kind' = Append(kind, class)
     /\ operands' = Append(operands, values)
     /\ uses' = Append(used, << >>)
     /\ UNCHANGED << loop, undefined >>

\* add() throws of the second operand: the first one keeps the use.
NewThrows(lhs) ==
  /\ uses' = SetUse(uses, lhs, Dangling)
  /\ UNCHANGED << kind, operands, loop, undefined >>

\* Mutant of Replaced: the first operand that matches is replaced.
ReplacedFirst(list, from, to) ==
  [i \in DOMAIN list |->
     IF Same(list[i], from) /\ ~\E j \in 1 .. i - 1 : Same(list[j], from) THEN to ELSE list[i]]

Replaced(list, from, to) == [i \in DOMAIN list |-> IF Same(list[i], from) THEN to ELSE list[i]]

\* Instruction::replace(): operands, then the uses of from, then those of to.
Replace(user, from, to) ==
  /\ operands' = [operands EXCEPT ![user] = Replaced(@, from, to)]
  /\ IF from \in Instruction /\ \E i \in DOMAIN uses[from] : ~Alive(uses[from][i])
       THEN undefined' = TRUE /\ UNCHANGED uses
       ELSE LET removed == IF from \in Instruction
                             THEN [uses EXCEPT ![from] = RemoveUse(@, user)] ELSE uses
            IN uses' = SetUse(removed, to, user) /\ UNCHANGED undefined
  /\ UNCHANGED kind

\* All of the list can be read and is of one structure.
Uniform(list) ==
  \A i, j \in DOMAIN list : Alive(list[i]) /\ Alive(list[j]) /\ Same(list[i], list[j])

ReplaceAllUsesWith(def, to) ==
  /\ loop' = [def |-> def, to |-> to, at |-> 1, uniform |-> Uniform(uses[def])]
  /\ UNCHANGED << kind, operands, uses, undefined >>

\* The next use of the list, as it is by now.
ReplaceUse ==
  /\ loop # Idle /\ loop.at <= Len(uses[loop.def])
  /\ LET use == uses[loop.def][loop.at]
     IN IF Alive(use)
          THEN Replace(use, loop.def, loop.to)
          ELSE undefined' = TRUE /\ UNCHANGED << kind, operands, uses >>
  /\ loop' = [loop EXCEPT !.at = @ + 1]

Return ==
  /\ loop # Idle /\ loop.at > Len(uses[loop.def])
  /\ loop' = Idle
  /\ UNCHANGED << kind, operands, uses, undefined >>

\* A client that calls replace() itself does so of an instruction no other use looks like.
Distinct(user, from) ==
  from \in Instruction =>
    \A i \in DOMAIN uses[from] : uses[from][i] = user \/ ~Same(uses[from][i], user)

Uses(user, value) == \E i \in DOMAIN operands[user] : operands[user][i] = value

\* A value is made before the instructions that use it, and n more uses of it may be added.
Before(to, user) == to \in Instruction => to < user
Room(to, n) == to \in Instruction => uses[to] = << >> \/ Len(uses[to]) + n <= MaxUses

UsersNext ==
  /\ ~undefined
  /\ \/ /\ loop = Idle
        /\ \/ /\ Len(kind) < MaxMade
              /\ \E class \in Kind : \E values \in Operands(class) : New(class, values)
           \/ \E lhs \in Instruction : Room(lhs, 1) /\ NewThrows(lhs)
           \/ \E user \in Instruction, to \in Instruction \cup Constant : \E i \in DOMAIN operands[user] :
                /\ to # operands[user][i] /\ Before(to, user) /\ Room(to, 1)
                /\ Distinct(user, operands[user][i])
                /\ Replace(user, operands[user][i], to) /\ UNCHANGED loop
           \/ \E def \in Instruction, to \in Instruction \cup Constant :
                /\ def # to /\ Room(to, Len(uses[def]))
                /\ \A user \in Instruction : Uses(user, def) => Before(to, user)
                /\ ReplaceAllUsesWith(def, to)
     \/ ReplaceUse
     \/ Return

UsersSpec == UsersInit /\ [][UsersNext]_usersVars

-----------------------------------------------------------------------------
(* Properties *)

\* An instruction that has a value for an operand is among the uses of the value,
\* whenever no replacement is going on, though the lists lose and keep uses by structure.
UsesComplete ==
  ~undefined /\ loop = Idle =>
    \A user \in Instruction : \A i \in DOMAIN operands[user] :
      operands[user][i] \in Instruction => \E j \in DOMAIN uses[operands[user][i]] :
                                             uses[operands[user][i]][j] = user

\* When replaceAllUsesWith() returns, no instruction has the value for an operand: the
\* list it iterates over changes under it, but it skips no use.
AllReplaced ==
  [][ loop # Idle /\ loop' = Idle =>
        \A user \in Instruction : \A i \in DOMAIN operands[user] : operands[user][i] # loop.def ]_usersVars

\* It returns exactly when the uses are all of one structure: when they are not, a removal
\* leaves an empty pointer in front of it, which it uses.
ReturnsIfUniform ==
  [][ loop # Idle => (loop' = Idle => loop.uniform) /\ (undefined' => ~loop.uniform) ]_usersVars
=============================================================================
