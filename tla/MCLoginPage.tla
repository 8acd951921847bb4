---------------------------- MODULE MCLoginPage ----------------------------
(* Small instances of LoginPage for TLC. *)
EXTENDS LoginPage, TLC

CONSTANTS app, odd, localhost, loopback6, port, cb, home

Make(scheme, host, p, path, user, fragment) ==
    [scheme |-> scheme, host |-> host, port |-> p, path |-> path,
     user |-> user, fragment |-> fragment]

\* Web clients with a plain host, with another one and with userinfo; native
\* clients on two loopback addresses; a custom scheme; a fragment.
MCUris ==
    {Make("https", app, None, cb, FALSE, FALSE), Make("https", odd, None, cb, FALSE, FALSE),
     Make("https", app, None, cb, TRUE, FALSE), Make("https", app, None, cb, FALSE, TRUE),
     Make("http", localhost, None, cb, FALSE, FALSE), Make("http", localhost, port, cb, FALSE, FALSE),
     Make("http", localhost, port, home, FALSE, FALSE), Make("http", localhost, port, cb, TRUE, FALSE),
     Make("http", localhost, BadPort, cb, FALSE, FALSE), Make("http", loopback6, port, cb, FALSE, FALSE),
     Make("custom", app, None, cb, FALSE, FALSE)}

MCAllowed == {Make("https", app, None, cb, FALSE, FALSE), Make("custom", app, None, cb, FALSE, FALSE)}

MCSymmetry == Permutations(Tabs) \cup Permutations(Requests)

=============================================================================
