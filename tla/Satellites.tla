------------------------------ MODULE Satellites ------------------------------
(* Satellites and their sectors: utils/sectorHelpers.ts, for one GOES and  *)
(* one Himawari satellite.                                                 *)

isHimawariSatellite(satellite) == satellite = "Himawari-9"
isMesoSector(sector) == sector \in {"Mesoscale1", "Mesoscale2"}

\* Mutant: the name that GOES has for the full disk.
getDefaultSectorGoes(satellite) ==
    IF isHimawariSatellite(satellite) THEN "FullDisk" ELSE "CONUS"

getDefaultSector(satellite) == IF isHimawariSatellite(satellite) THEN "FLDK" ELSE "CONUS"
=============================================================================
