------------------------------- MODULE Bridgehook -------------------------------
(***************************************************************************)
(* The hooking library on bridgeOS: symbols of the images of a process,    *)
(* and the replacement of Objective-C methods.  A method belongs to a      *)
(* class or is inherited; a hook keeps the implementation it replaced, to  *)
(* call it, and hooks of one method may follow each other in any order.    *)
(***************************************************************************)
EXTENDS Integers, Sequences, FiniteSets

CONSTANTS
  Processes,  \* images, the image and symbol asked for, the classes' methods
  Classes,    \* a class and its subclasses
  Super,      \* the superclass of each, or Nil
  Nil,        \* not a class, no implementation
  Hooks       \* the hooks, each of one class

VARIABLES
  process,  \* this process
  image,    \* the handle of MSGetImageByName
  symbol,   \* the answer of MSFindSymbol: the image it is in
  method,   \* the implementation that each class has of its own
  orig,     \* what each hook calls
  placed    \* the hooks so far, in order

vars == <<process, image, symbol, method, orig, placed>>

\* Images are numbered from 1, the program itself being the first.
Null    == 0
Unasked == -1

Init ==
  /\ process \in Processes
  /\ image = Unasked /\ symbol = Unasked
  /\ method = process.method
  /\ orig = [h \in Hooks |-> Nil] /\ placed = <<>>
-------------------------------------------------------------------------------
(* Symbols.                                                                *)

Loaded == DOMAIN process.images

Named(name) == {n \in Loaded : process.images[n].name = name}
WithSymbol  == {n \in Loaded : process.symbol \in process.images[n].symbols}

First(set) == IF set = {} THEN Null ELSE CHOOSE n \in set : \A m \in set : n <= m

\* MSGetImageByName: the first image has the index 0, which also means that
\* there is none.
GetImage ==
  /\ image = Unasked
  /\ LET n == First(Named(process.ask)) IN image' = IF n = 1 THEN Null ELSE n
  /\ UNCHANGED <<process, symbol, method, orig, placed>>

\* MSFindSymbol: without an image, all are searched.
FindSymbol ==
  /\ image # Unasked /\ symbol = Unasked
  /\ symbol' = IF image = Null THEN First(WithSymbol)
               ELSE IF image \in WithSymbol THEN image ELSE Null
  /\ UNCHANGED <<process, image, method, orig, placed>>
-------------------------------------------------------------------------------
(* Methods.                                                                *)

\* The implementation that an object of a class runs.
Lookup(table) ==
  LET f[c \in Classes] == IF table[c] # Nil THEN table[c]
                          ELSE IF Super[c] = Nil THEN Nil ELSE f[Super[c]]
  IN f

\* Mutant: the implementation of an inherited method is not asked for.
Replaced_OwnOnly(c) == method[c]
\* class_replaceMethod returns what the class had of its own; else the hook
\* calls the superclass's.
Replaced(c) ==
  IF method[c] # Nil THEN method[c]
  ELSE IF Super[c] = Nil THEN Nil ELSE Lookup(method)[Super[c]]

\* MSHookMessageEx does nothing for a method that is not there.  One that is only
\* a class method is there, and the hook becomes an instance method of that name,
\* which calls forwarding, Nil here.
HookMessage(h) ==
  /\ symbol # Unasked
  /\ h \notin {placed[n] : n \in DOMAIN placed}
  /\ placed' = Append(placed, h)
  /\ IF Lookup(method)[process.of[h]] = Nil /\ process.of[h] \notin process.static
     THEN UNCHANGED <<method, orig>>
     ELSE /\ orig' = [orig EXCEPT ![h] = Replaced(process.of[h])]
          /\ method' = [method EXCEPT ![process.of[h]] = h]
  /\ UNCHANGED <<process, image, symbol>>

Next == GetImage \/ FindSymbol \/ \E h \in Hooks : HookMessage(h)

Spec == Init /\ [][Next]_vars
-------------------------------------------------------------------------------
(* Properties.                                                             *)

\* A symbol comes from the image that was named, when that is loaded and has it,
\* although the program itself cannot be named.
SymbolIsTheImages ==
  symbol # Unasked /\ Named(process.ask) # {} /\ First(Named(process.ask)) \in WithSymbol =>
    symbol = First(Named(process.ask))

\* What a call runs: the hooks one after the other, then the rest.
RECURSIVE Reached(_, _)
Reached(impl, fuel) ==
  IF impl \notin Hooks \/ fuel = 0 THEN <<impl>> ELSE <<impl>> \o Reached(orig[impl], fuel - 1)

Run(c) == Reached(Lookup(method)[c], Cardinality(Hooks) + 1)

\* The classes from which c may inherit, and c.
Line(c) ==
  LET f[d \in Classes] == {d} \cup (IF Super[d] = Nil THEN {} ELSE f[Super[d]]) IN f[c]

\* The implementation the process had before the hooks is still reached from
\* every class that had one, through hooks of this class and those above it, and
\* none runs twice.
CallsReachTheOriginal ==
  \A c \in Classes :
    LET before == Lookup(process.method)[c]
        run    == Run(c)
    IN before # Nil =>
         /\ run[Len(run)] = before
         /\ \A n \in 1..(Len(run) - 1) : process.of[run[n]] \in Line(c)
         /\ \A m, n \in DOMAIN run : m # n => run[m] # run[n]

\* Every hook that was placed on a class whose objects have the method runs for
\* them, whatever is hooked afterwards.
HooksStay ==
  \A n \in DOMAIN placed :
    LET c == process.of[placed[n]] IN
    Lookup(process.method)[c] # Nil => \E k \in DOMAIN Run(c) : Run(c)[k] = placed[n]

\* Symbols and methods are those that were asked for, and hooks of one method
\* form a chain that ends in the original.  (bridgehook/main.c)
HooksFormAChain == SymbolIsTheImages /\ CallsReachTheOriginal /\ HooksStay
===============================================================================
