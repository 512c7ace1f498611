\* Two children and a parent, every mix of read, write, flush and preflush,
\* short aio results and a failing preflush: the chain completes after all
\* children, the completion thread stops cleanly, and the program exits.
CONSTANTS
    c1 = c1
    c2 = c2
    Children <- MCChildren
    Parent = Parent
    Main = Main
    Aio = Aio
    NullIocb = NullIocb
SPECIFICATION Spec
INVARIANTS
    TypeOK
    ShutdownSafe
PROPERTIES
    CompletionAfterChildren
    Terminates
\* The process stops once main has exited.
CHECK_DEADLOCK FALSE
