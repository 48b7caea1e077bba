--------------------------- MODULE MCPackageLoad ---------------------------
(* Instances of PackageLoad. *)
EXTENDS PackageLoad, TLC

CONSTANTS p1, p2, d1, d2

Opened(path, kind) == [path |-> path, kind |-> kind, scripted |-> FALSE]
Made(path, kind)   == [path |-> path, kind |-> kind, scripted |-> TRUE]

\* UI::open() of a package on a server, at the same time as a script's package of
\* the same path, another UI::open() of it, or one of a package on the device.
Pairs ==
  {p1 :> Opened(d1, "ker")  @@ p2 :> Made(d1, "meta"),
   p1 :> Opened(d1, "meta") @@ p2 :> Opened(d1, "ker"),
   p1 :> Opened(d1, "meta") @@ p2 :> Opened(d2, "local")}

=============================================================================
