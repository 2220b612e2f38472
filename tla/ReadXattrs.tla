----------------------------- MODULE ReadXattrs -----------------------------
(* ReadXattrs of internal/xattrs/xattrs_unix.go: the names of an object's  *)
(* extended attributes are listed and their values read, one system call   *)
(* at a time, while other programs add, resize and remove attributes.      *)
(* listXattrNames and getXattrValue are the same loop over a different     *)
(* call: ask for the size, read into a buffer of that size, and start over *)
(* with a larger one when the answer does not fit.  A value is modelled by *)
(* its length.                                                             *)
EXTENDS Integers

CONSTANTS
    AttrNames, AttrLens,    \* the attributes and the lengths of their values
    List,                   \* stands for the list of the names where a name could
    ListLen,                \* the length of the list, for each set of names
    MaxAttempts,            \* 8 in the code
    MaxAttrChanges          \* bound on the changes made by others

ASSUME XattrAssumption ==
    /\ List \notin AttrNames /\ AttrLens \subseteq Nat
    /\ ListLen \in [SUBSET AttrNames -> Nat]
    /\ \A S \in SUBSET AttrNames : ListLen[S] = 0 <=> S = {}
    /\ MaxAttempts \in Nat \ {0} /\ MaxAttrChanges \in Nat

VARIABLES
    attrs,              \* the object: a length for each attribute it has
    xpc, item, buf, attempt,    \* the call being made, for the list or for a name
    left, out,          \* the names not read yet, what has been read
    errs,               \* history: the errors the calls gave of their own
    ever, kept,         \* history: what there was at some time, and all the time
    attrChanges

objectVars == <<attrs, ever, kept, attrChanges>>
readerVars == <<xpc, item, buf, attempt, left, out, errs>>

----------------------------------------------------------------------------
(* The object.                                                             *)

NoAttr == -1
Present == {n \in AttrNames : attrs[n] # NoAttr}
Pairs == {<<n, attrs[n]>> : n \in Present}

\* Another program sets or removes an attribute.
AttrChanges ==
    /\ attrChanges < MaxAttrChanges
    /\ \E n \in AttrNames, len \in AttrLens \cup {NoAttr} :
          len # attrs[n] /\ attrs' = [attrs EXCEPT ![n] = len]
    /\ ever' = ever \cup Pairs' /\ kept' = kept \cap Pairs'
    /\ attrChanges' = attrChanges + 1
    /\ UNCHANGED readerVars

XattrInit ==
    /\ attrs \in [AttrNames -> AttrLens \cup {NoAttr}]
    /\ ever = Pairs /\ kept = Pairs /\ attrChanges = 0
    /\ xpc = "probe" /\ item = List /\ buf = 0 /\ attempt = 0
    /\ left = {} /\ out = {} /\ errs = {}

----------------------------------------------------------------------------
(* The system calls.                                                       *)

Calling == xpc \in {"probe", "read", "grow"}
Missing == item # List /\ attrs[item] = NoAttr
Size == IF item = List THEN ListLen[Present] ELSE attrs[item]

\* isNoXattrErr: the attribute is gone, or the file system has no attributes.
\* Mutant: a call that is not permitted counts as well.
NothingHere_Any(err) == TRUE
NothingHere(err) == err # "denied"

\* A call may always fail for a reason of its own, and fails when what it asks for is gone.
CallFails ==
    /\ Calling
    /\ \E err \in {"denied", "unsupported", "missing"} :
          /\ err = "missing" => Missing
          /\ errs' = errs \cup ({err} \ {"missing"})
          /\ xpc' = IF ~NothingHere(err) THEN "failed"
                    ELSE IF item = List THEN "done" ELSE "next"
    /\ UNCHANGED <<objectVars, item, buf, attempt, left, out>>

\* The list gives the names to read, a value goes to the result.
Take == IF item = List
        THEN left' = Present /\ UNCHANGED out
        ELSE out' = out \cup {<<item, attrs[item]>>} /\ UNCHANGED left

\* The size: nothing is read when there is nothing.
Probe ==
    /\ xpc = "probe" /\ ~Missing
    /\ IF Size = 0 THEN Take /\ xpc' = "next" /\ UNCHANGED <<buf, attempt>>
       ELSE buf' = Size /\ attempt' = 0 /\ xpc' = "read" /\ UNCHANGED <<left, out>>
    /\ UNCHANGED <<objectVars, item, errs>>

Read ==
    /\ xpc = "read" /\ ~Missing /\ Size <= buf
    /\ Take /\ xpc' = "next"
    /\ UNCHANGED <<objectVars, item, buf, attempt, errs>>

\* ERANGE, which a file system may also answer without need.
ReadTooShort ==
    /\ xpc = "read" /\ ~Missing
    /\ \/ Size > buf /\ UNCHANGED errs
       \/ Size <= buf /\ errs' = errs \cup {"spurious"}
    /\ xpc' = "grow"
    /\ UNCHANGED <<objectVars, item, buf, attempt, left, out>>

\* The buffer always grows, also when the size has shrunk again.
Grow ==
    /\ xpc = "grow" /\ ~Missing
    /\ buf' = IF Size <= buf THEN 2 * buf ELSE Size
    /\ attempt' = attempt + 1
    /\ xpc' = IF attempt' < MaxAttempts THEN "read" ELSE "failed"
    /\ UNCHANGED <<objectVars, item, left, out, errs>>

\* Mutant: the loop stays at the name it has read.
Rest_All(n) == left
Rest(n) == left \ {n}

\* The names come in the order of the file system.
NextName ==
    /\ xpc = "next"
    /\ \/ left = {} /\ xpc' = "done" /\ UNCHANGED <<item, left>>
       \/ \E n \in left : item' = n /\ left' = Rest(n) /\ xpc' = "probe"
    /\ UNCHANGED <<objectVars, buf, attempt, out, errs>>

\* ReadXattrs returns, and its variables are gone; the result of an error is nil.
XattrsReturn ==
    /\ item' = List /\ buf' = 0 /\ attempt' = 0 /\ left' = {}
    /\ out' = IF xpc = "done" THEN out ELSE {}
    /\ UNCHANGED <<objectVars, xpc, errs>>

XattrStep == CallFails \/ Probe \/ Read \/ ReadTooShort \/ Grow \/ NextName

----------------------------------------------------------------------------
(* Properties.                                                             *)

\* The buffer is never empty when it is read into: the call would answer with the size
\* and the code would slice beyond the buffer.  An attempt is spent only on a change.
LoopInv ==
    /\ xpc \in {"read", "grow"} => buf > 0 /\ attempt < MaxAttempts
    /\ "spurious" \notin errs =>
          /\ xpc = "read" => attempt <= attrChanges
          /\ xpc = "read" /\ ~Missing /\ Size > buf => attempt < attrChanges
          /\ xpc = "grow" => attempt < attrChanges

\* What has not been read is still to be read.
ListTaken == item # List \/ xpc \in {"next", "done"}
LeftInv ==
    /\ item # List => item \notin left
    /\ xpc = "done" \/ ~ListTaken => left = {}
    /\ ListTaken /\ errs \cap {"denied", "unsupported"} = {} =>
          \A p \in kept : p[1] \in left \/ p \in out \/ (xpc # "next" /\ p[1] = item)

\* The values that are archived were the object's at some time of the call, and those
\* that stayed are all there, unless the file system said it keeps none; an error
\* comes from a call that failed, or after as many changes as there are attempts.
\* "grow-and-retry loop so we don't truncate" (xattrs_unix.go), with the
\* policy "every xattr is passed through verbatim".
AttrsFaithful ==
    /\ out \subseteq ever
    /\ xpc = "done" =>
          "denied" \notin errs /\ ("unsupported" \notin errs => kept \subseteq out)
    /\ xpc = "failed" =>
          errs \cap {"denied", "spurious"} # {} \/ attrChanges >= MaxAttempts

\* Every variable has its type.
XattrTypeOK ==
    /\ attrs \in [AttrNames -> AttrLens \cup {NoAttr}]
    /\ xpc \in {"probe", "read", "grow", "next", "done", "failed"}
    /\ item \in AttrNames \cup {List} /\ buf \in Nat /\ attempt \in Nat
    /\ left \subseteq AttrNames /\ out \subseteq AttrNames \X AttrLens
    /\ errs \subseteq {"denied", "unsupported", "spurious"}
    /\ ever \subseteq AttrNames \X AttrLens /\ kept \subseteq Pairs /\ Pairs \subseteq ever
    /\ attrChanges \in Nat

\* The inductive invariant.
XattrInv ==
    /\ XattrTypeOK /\ LoopInv /\ LeftInv /\ AttrsFaithful
    /\ "denied" \in errs => xpc = "failed"
=============================================================================
