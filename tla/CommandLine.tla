---------------------------- MODULE CommandLine ----------------------------
(***************************************************************************)
(* What getCmdArgs (fcache.cpp) makes of a command line.  An option has a  *)
(* name and an argument: NoArg for the null optarg that getopt_long gives  *)
(* for an option without "=value", Text for one that does not begin with a *)
(* number, Unfit for digits that make no unsigned long, too many or none,  *)
(* or a number.  Digits before a text are a number to --port and Text to   *)
(* --maxPayload.                                                           *)
(***************************************************************************)
EXTENDS Integers, Sequences, SequencesExt

CONSTANTS
  MinPayload, MaxPayload, DefaultPayload,
  UIntRange,   \* an unsigned int holds 0 .. UIntRange - 1
  Sizes,       \* numbers given as arguments
  MaxOptions,  \* bound: options on a command line
  NoArg, Text, Unfit

ASSUME PayloadConstants ==
  /\ {MinPayload, MaxPayload, DefaultPayload, UIntRange} \subseteq Nat
  /\ MinPayload <= DefaultPayload /\ DefaultPayload <= MaxPayload
  /\ MaxPayload < UIntRange
  /\ Sizes \subseteq Nat /\ {NoArg, Text, Unfit} \cap Nat = {}
  /\ NoArg # Text /\ NoArg # Unfit /\ Text # Unfit

(* "p" is in getopt's short options; "other" is any option it does not know. *)
Options == [opt : {"ip", "port", "maxPayload"}, arg : Sizes \cup {NoArg, Text, Unfit}]
             \cup [opt : {"p", "other"}, arg : {Text}]
CommandLines == SeqOf(Options, MaxOptions)

(* The numbers that fit an int, which std::stoi returns. *)
Ints == 0 .. (UIntRange \div 2) - 1

(* Slip: only the upper limit is applied. *)
Clamp_MaxOnly(size) ==
  LET narrowed == size % UIntRange
  IN  IF narrowed > MaxPayload THEN MaxPayload ELSE narrowed

(* std::clamp<unsigned int> narrows the unsigned long it is given. *)
Clamp(size) ==
  LET narrowed == size % UIntRange
  IN  CASE narrowed < MinPayload -> MinPayload
        [] narrowed > MaxPayload -> MaxPayload
        [] OTHER                 -> narrowed

(* One turn of the option loop.  An exception, from std::stoi, std::stoul or a string
   made of a null pointer, ends the loop; ip is assigned the null pointer, which is
   undefined behaviour: the process dies. *)
TakeOption(state, option) ==
  CASE state.end # "no" -> state
    [] option.opt = "ip" ->
         IF option.arg = NoArg THEN [state EXCEPT !.end = "died"] ELSE state
    [] option.opt = "port" ->
         IF option.arg \in Ints THEN state ELSE [state EXCEPT !.valid = FALSE, !.end = "thrown"]
    [] option.opt = "maxPayload" ->
         CASE option.arg \in {NoArg, Unfit} -> [state EXCEPT !.valid = FALSE, !.end = "thrown"]
           [] option.arg = Text -> [state EXCEPT !.valid = FALSE]
           [] OTHER -> [state EXCEPT !.maxPayload = Clamp(option.arg)]
    [] OTHER -> [state EXCEPT !.valid = FALSE]

Defaults == [valid |-> TRUE, end |-> "no", maxPayload |-> DefaultPayload]

GetCmdArgs(options) ==
  LET after[i \in 0 .. Len(options)] ==
        IF i = 0 THEN Defaults ELSE TakeOption(after[i - 1], options[i])
  IN  after[Len(options)]
=============================================================================
