---------------------------- MODULE CallerSource ----------------------------
(***************************************************************************)
(* callerSource (zlogger/caller.go): the place in the program that a log   *)
(* line names, searched from the innermost frame of the stack outwards     *)
(* among the first maxDepth frames.                                        *)
(*                                                                         *)
(* A function is the module its full name begins with and what follows:    *)
(* "." for the package itself, "/" for a package below it, "+" if the name *)
(* goes on, as that of another module does.  A file is known by its        *)
(* ending: .gen.go for generated code, _test.go for a test.                *)
(***************************************************************************)
EXTENDS Integers, Sequences

CONSTANTS
    Frames,         \* <<function, file>>, a function being <<module, what follows>>
    maxDepth,       \* 32 in the code
    MaxStack        \* bound: frames on a stack

ASSUME DepthAssumption == maxDepth \in Nat \ {0} /\ MaxStack \in Nat
ASSUME FramesAssumption == Frames \subseteq (STRING \X STRING) \X {".go", ".gen.go", "_test.go"}

Stacks == UNION {[1..n -> Frames] : n \in 0..MaxStack}

VARIABLES
    stack,      \* the frames outside callerSource, innermost first
    next,       \* how many frames.Next has returned
    source      \* the frame whose place is returned, 0 for none, -1 while searching

callerVars == <<stack, next, source>>

CallerInit ==
    /\ stack \in Stacks
    /\ next = 0 /\ source = -1

-----------------------------------------------------------------------------
Module(fn)  == fn[1]
Follows(fn) == fn[2]

(* Mutant: any name with the prefix.                                       *)
internalFrameLoose(frame) ==
    \/ frame[2] = ".gen.go"
    \/ frame[2] # "_test.go" /\ Module(frame[1]) \in {"gorm.io", "github.com/gtkit/ormx", "runtime"}

internalFrame(frame) ==
    \/ frame[2] = ".gen.go"
    \/ /\ frame[2] # "_test.go"
       /\ \/ Module(frame[1]) = "gorm.io" /\ Follows(frame[1]) = "/"
          \/ Module(frame[1]) = "github.com/gtkit/ormx" /\ Follows(frame[1]) \in {".", "/"}
          \/ Module(frame[1]) = "runtime" /\ Follows(frame[1]) = "."

(* What runtime.Callers stores of the stack.                               *)
depth == IF Len(stack) < maxDepth THEN Len(stack) ELSE maxDepth

more(n) == n < depth

(* One turn of the loop.  Without any frame, Next returns a zero one.      *)
Look ==
    /\ source = -1
    /\ IF ~more(next) THEN source' = 0 /\ UNCHANGED next
       ELSE /\ next' = next + 1
            /\ source' = IF ~internalFrame(stack[next + 1]) THEN next + 1 ELSE -1
    /\ UNCHANGED stack

CallerNext == Look

CallerSpec == CallerInit /\ [][CallerNext]_callerVars

-----------------------------------------------------------------------------
(* Properties.                                                             *)

(* The types; no more is looked at than the array holds.                   *)
CallerTypeOK ==
    /\ stack \in Seq(Frames) /\ Len(stack) <= MaxStack
    /\ next \in 0..maxDepth
    /\ source \in -1..next

(* Who may be named: a test, whatever it tests, and otherwise nobody of    *)
(* GORM, ormx, the runtime or generated code.  The names of other modules  *)
(* may begin with the same letters.                                        *)
Caller(frame) ==
    \/ frame[2] = "_test.go"
    \/ frame[2] = ".go" /\ frame[1] \notin
        {<<"gorm.io", "/">>, <<"github.com/gtkit/ormx", ".">>, <<"github.com/gtkit/ormx", "/">>, <<"runtime", ".">>}

(* The source is the innermost frame of the program that uses the library, *)
(* also if that program is a test inside the library, has a name that      *)
(* begins like the library's, or panics and is being unwound; nothing is   *)
(* named only if none of maxDepth frames is such a frame.                  *)
InnermostCaller ==
    /\ source > 0 => Caller(stack[source]) /\ \A i \in 1..(source - 1) : ~Caller(stack[i])
    /\ source = 0 => \A i \in DOMAIN stack : i <= maxDepth => ~Caller(stack[i])
=============================================================================
