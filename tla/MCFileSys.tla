----------------------------- MODULE MCFileSys ------------------------------
(* The paths of the model-checked instance: a name in the current          *)
(* directory, the directory above, the root and a name in it.              *)
EXTENDS FileSys

Rel(s) == [abs |-> FALSE, elems |-> s]
Abs(s) == [abs |-> TRUE, elems |-> s]

MCPaths == {Rel(<<"a">>), Rel(<<"..">>), Abs(<<>>), Abs(<<"b">>)}

\* States that differ only in which slot of ftable and which descriptor a file
\* has are the same: no system call and no property tells slots or numbers of
\* descriptors apart.  After a panic() nothing runs any more.
Holders(f) == [p \in Procs |-> Cardinality({fd \in Fds : ofile[p][fd] = f})]
Kind(f) == <<files[f], Holders(f)>>
View ==
    IF halted # "" THEN <<halted>>
    ELSE <<fs, cwd,
           {<<Kind(f), Cardinality({g \in 1 .. NFILE : Kind(g) = Kind(f)})>> :
               f \in 1 .. NFILE}>>
=============================================================================
