----------------------------- MODULE MCWorkDir ------------------------------
(* Instances of WorkDir for TLC. *)
EXTENDS WorkDir

File(d, docker, declared, actual) ==
    [dir |-> d, dockerfile |-> docker, declared |-> declared, actual |-> actual]
Send(body, zip, entries) == [body |-> body, zip |-> zip, entries |-> entries]

\* A small context, one that fills the limits, a large zip, a header that
\* declares too little, two candidates for the context, a path that leaves the
\* directory, too many entries, an empty file.
MCUploads ==
    {Send(1, 0, <<>>),
     Send(1, 1, <<File(".", TRUE, 1, 1)>>),
     Send(2, 1, <<File("a", TRUE, 1, 1), File("a", FALSE, 2, 2)>>),
     Send(3, 3, <<File(".", TRUE, 1, 1)>>),
     Send(1, 1, <<File("a", TRUE, 1, 1), File(".", FALSE, 1, 4)>>),
     Send(1, 1, <<File("a", TRUE, 1, 1), File("b", TRUE, 1, 1)>>),
     Send(1, 1, <<File(".", TRUE, 1, 1), File("..", FALSE, 1, 1)>>),
     Send(1, 1, <<File(".", TRUE, 1, 1), File("a", FALSE, 1, 1), File("b", FALSE, 1, 1)>>)}
=============================================================================
