------------------------------- MODULE MCDesk -------------------------------
\* Two monitors, two images beside the built-in one, and sessions of a few clicks
\* each on a GNOME, a Cinnamon, an Xfce and a feh desktop, or on none of them.
EXTENDS Desk

CONSTANTS m1, m2, i1, i2, builtin, broken, a1, entry

MCMonitors == <<m1, m2>>
\* The connector m2 contains the name m1, as DP-1-2 does DP-1.
MCMatching == [m \in {m1, m2} |-> IF m = m1 THEN <<m1, m2>> ELSE <<m2>>]
MCPicture == {i1, i2, builtin}
MCOwn == {a1}
MCOffers == {{i1}, {i2, broken}}

On(desk, tools, schemas, wayland) ==
  [desktop |-> desk, tools |-> tools, schemas |-> schemas, wayland |-> wayland]
Gnome == On("gnome", {"gnome-shell", "nautilus"}, {"GNOME"}, TRUE)
CinnamonDesk == On("cinnamon", {"cinnamon", "nemo"}, {"GNOME", "Cinnamon"}, FALSE)
XfceDesk == On("xfce", {"xfconf-query", "feh", "thunar"}, {}, FALSE)
I3 == On("i3", {"feh"}, {}, FALSE)
Sway == On("sway", {"feh"}, {}, TRUE)

Kinds == <<"pick", "fit", "show", "apply", "undo", "root", "library", "command", "restart", "outside", "fault",
           "menu", "thunar">>
Steps(ns) == [k \in {Kinds[n] : n \in DOMAIN Kinds} |-> ns[CHOOSE n \in DOMAIN Kinds : Kinds[n] = k]]
Of(desks, options, watched, ns) ==
  {[on |-> d, option |-> o, watching |-> w, steps |-> Steps(ns)] : d \in desks, o \in options, w \in watched}

Either == {"zoom", "spanned"}

\* pick, fit, show, apply, undo, root, library, command, restart, outside, fault, menu, thunar
MCSessions ==
       Of({Gnome, CinnamonDesk, I3, Sway}, Either, {TRUE}, <<1, 0, 0, 3, 1, 0, 0, 0, 0, 0, 0, 0, 0>>)
  \cup Of({Gnome, XfceDesk, I3}, {"zoom"}, {TRUE}, <<1, 0, 0, 2, 1, 0, 0, 0, 0, 1, 1, 0, 0>>)
  \cup Of({I3}, {"zoom"}, {TRUE}, <<1, 0, 0, 2, 2, 0, 0, 0, 0, 0, 0, 0, 0>>)
  \cup Of({CinnamonDesk}, {"zoom"}, {TRUE}, <<2, 1, 1, 1, 0, 0, 0, 0, 0, 0, 0, 0, 0>>)
  \cup Of({Sway}, {"zoom"}, {TRUE}, <<1, 1, 0, 0, 0, 2, 0, 0, 1, 0, 1, 0, 0>>)
  \cup Of({Sway}, {"zoom"}, {TRUE}, <<0, 0, 1, 0, 0, 0, 2, 2, 0, 0, 0, 0, 0>>)
  \cup Of({Sway}, {"zoom"}, BOOLEAN, <<0, 0, 1, 0, 0, 0, 1, 2, 1, 0, 1, 0, 0>>)
  \cup Of({XfceDesk, CinnamonDesk}, {"zoom"}, {TRUE}, <<0, 0, 0, 0, 0, 0, 0, 0, 1, 0, 2, 3, 2>>)
=============================================================================
