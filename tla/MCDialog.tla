------------------------------ MODULE MCDialog ------------------------------
(* Instances of Dialog for TLC. *)
EXTENDS Dialog, TLC

Typed ==
  [certificate   |-> {"", " pem", "long"},
   protocol      |-> {"http2", "http3"},
   fallback      |-> {"(none)", "http3"},
   split         |-> {"on", "off"},
   refresh_hours |-> {"0", "junk"},
   killswitch    |-> {"on", "off"},
   listener_mode |-> {"tun", "socks"},
   socks_address |-> {"", "9050"},
   mtu_size      |-> {"1500", "junk"},
   ports         |-> {"443", "junk"}]

\* A whole export with the other listener, one with values no list offers, one
\* with both listeners, and a partial one.
Exports ==
  {render([DefaultConfig EXCEPT !["certificate"] = "pem", !["fallback"] = "http3",
             !["listener_mode"] = "socks", !["socks_address"] = "9050"]),
   [listeners |-> {}, fields |-> [protocol |-> "quic", fallback |-> "quic", certificate |-> "long"]],
   [listeners |-> {"tun", "socks"}, fields |-> [mtu_size |-> "1500", ports |-> "443",
                                              protocol |-> "", fallback |-> "(none)"]],
   [listeners |-> {"tun"}, fields |-> [mtu_size |-> "1500", socks_address |-> "9050",
                                       fallback |-> "", certificate |-> " pem"]]}
=============================================================================
