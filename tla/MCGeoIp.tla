------------------------------ MODULE MCGeoIp ------------------------------
(* Instances of GeoIp for TLC: sixteen addresses, two countries. *)
EXTENDS GeoIp, TLC

CONSTANTS home, abroad

TwoCountries == {home, abroad}

Rows(c, ranges) == {[cc |-> c, type |-> "ipv4", start |-> r[1], count |-> r[2]] : r \in ranges}

\* Rows that delegate nothing to anyone.
Noise == {[cc |-> home, type |-> "ipv6", start |-> 12, count |-> 4],
          [cc |-> home, type |-> "ipv4", start |-> NoStart, count |-> 4],
          [cc |-> home, type |-> "ipv4", start |-> 12, count |-> 0]}

\* Editions of the registry: counts that are powers of two and others, and rows
\* that are not aligned, one of them right after a foreign one.
Editions == {Noise,
             Noise \cup Rows(home, {<<0, 4>>, <<4, 3>>}) \cup Rows(abroad, {<<8, 6>>}),
             Noise \cup Rows(home, {<<0, 6>>}),
             Rows(abroad, {<<8, 4>>, <<14, 1>>}) \cup Rows(home, {<<15, 1>>}),
             Rows(abroad, {<<8, 1>>}) \cup Rows(home, {<<9, 3>>, <<2, 4>>})}
=============================================================================
