------------------------------ MODULE Services ------------------------------
(***************************************************************************)
(* The services that share no row with each other.  A behaviour exercises  *)
(* one of them, so that their states add up and do not multiply.           *)
(***************************************************************************)
EXTENDS PasswordReset, Telemetry, Ratings, Availability, Academy, Checklist, Vehicles, Cnh

VARIABLE service    \* the one that is exercised

servicesVars ==
    <<service, vars, telemetryVars, ratingsVars, availabilityVars, academyVars, checklistVars,
      vehiclesVars, cnhVars>>

Names == {"passwords", "telemetry", "ratings", "availability", "academy", "checklist",
          "vehicles", "cnh"}

\* Where no number is typed the form shows one the provider has as valid.
ServicesInit ==
    /\ service \in Names
    /\ Init /\ TelemetryInit /\ RatingsInit /\ AvailabilityInit /\ AcademyInit /\ ChecklistInit
    /\ VehiclesInit
    /\ CnhInit
    /\ service # "cnh" => typed \in DOMAIN Known /\ Known[typed] = "VALID"

\* The variables of the services that are not s stay as they are.
Others(s) ==
    /\ UNCHANGED service
    /\ s # "passwords" => UNCHANGED vars
    /\ s # "telemetry" => UNCHANGED telemetryVars
    /\ s # "ratings" => UNCHANGED ratingsVars
    /\ s # "availability" => UNCHANGED availabilityVars
    /\ s # "academy" => UNCHANGED academyVars
    /\ s # "checklist" => UNCHANGED checklistVars
    /\ s # "vehicles" => UNCHANGED vehiclesVars
    /\ s # "cnh" => UNCHANGED cnhVars

ServicesNext ==
    \/ service = "passwords" /\ Next /\ Others("passwords")
    \/ service = "telemetry" /\ TelemetryNext /\ Others("telemetry")
    \/ service = "ratings" /\ RatingsNext /\ Others("ratings")
    \/ service = "availability" /\ AvailabilityNext /\ Others("availability")
    \/ service = "academy" /\ AcademyNext /\ Others("academy")
    \/ service = "checklist" /\ ChecklistNext /\ Others("checklist")
    \/ service = "vehicles" /\ VehiclesNext /\ Others("vehicles")
    \/ service = "cnh" /\ CnhNext /\ Others("cnh")

ServicesSpec == ServicesInit /\ [][ServicesNext]_servicesVars

(***************************************************************************)
(* Property                                                                *)
(***************************************************************************)
\* Rows, requests and histories of every service have the columns and values of
\* the code.
ServicesTypeOK ==
    /\ TypeOK /\ TelemetryTypeOK /\ RatingsTypeOK /\ AvailabilityTypeOK /\ AcademyTypeOK
    /\ ChecklistTypeOK /\ VehiclesTypeOK /\ CnhTypeOK
=============================================================================
