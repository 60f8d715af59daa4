-------------------------------- MODULE Mirror --------------------------------
(***************************************************************************)
(* What readers of the WebDAV mirror may rely on: one file at a time is    *)
(* replaced by complete content that is no older, or removed, and never    *)
(* changed in place: every change shows in its stamp (inode and mtime).    *)
(*                                                                         *)
(* Attachment k has the objects k.prop and k.zip, numbered in the order    *)
(* of their names.  A version stands for the content of an object and its  *)
(* validators (ETag, Last-Modified); 0 is no object, no file or no entry.  *)
(***************************************************************************)
EXTENDS Integers

CONSTANTS
    NKeys,      \* number of attachments
    MaxVersion, \* bound on the versions of objects
    Size        \* size in bytes of each version

ASSUME MirrorAssumption ==
    /\ NKeys \in Nat \ {0}
    /\ MaxVersion \in Nat
    /\ Size \in [1..MaxVersion -> Nat]

VARIABLES
    file,  \* the mirror
    stamp  \* how often a file was replaced or removed: its inode and mtime

mirrorVars == <<file, stamp>>

Objects == 1..(2 * NKeys)
Prop(k) == 2 * k - 1
Zip(k) == 2 * k
Versions == 0..MaxVersion
NoEntries == [o \in Objects |-> 0]

MirrorInit ==
    /\ file = NoEntries
    /\ stamp = NoEntries

Put(o, v) ==
    /\ file' = [file EXCEPT ![o] = v]
    /\ stamp' = [stamp EXCEPT ![o] = @ + 1]

Replace(o) == \E v \in 1..MaxVersion : v >= file[o] /\ Put(o, v)
Remove(o) == file[o] # 0 /\ Put(o, 0)

MirrorNext == \E o \in Objects : Replace(o) \/ Remove(o)

MirrorSpec == MirrorInit /\ [][MirrorNext]_mirrorVars
================================================================================
