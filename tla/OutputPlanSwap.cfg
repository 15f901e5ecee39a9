SPECIFICATION FairSpec
CONSTANTS
    c1 = c1
    c2 = c2
    d1 = d1
    d2 = d2
    lobby = lobby
    blue = blue
    red = red
    None = None
    Offers <- MCOffers
    Displays = {d1, d2}
    Presets = {lobby}
    Connectors = {c1}
    Images = {blue}
    Configs <- Swap
    Plugged <- Single
    MaxEvents = 3
PROPERTY
    SwapsAdoptFresh
